----------------------- MODULE ConsumerLifecycleProofs -----------------------
(***************************************************************************)
(* The time queues agree with the phases, chain ids and clients are held   *)
(* by one consumer at most, no unresponsive consumer is served, and a fork *)
(* pauses its consumer once and is not taken for silence: for any number   *)
(* of consumers and chain ids, any periods and any bounds.                 *)
(***************************************************************************)
EXTENDS ConsumerLifecycle, TLAPS

\* What the proofs need of the bounds on time.
LEMMA TimeFacts ==
  ASSUME TypeOK
  PROVE  /\ now \in Times /\ now \in Nat /\ now # 0
         /\ now + MaxPause \in Times /\ now + MaxPause # 0
         /\ now + Unbonding \in Times /\ now + Unbonding # 0
         /\ SpawnTimes \subseteq Times /\ Times \subseteq Nat /\ 0 \in Times
  BY ConstantsAssumption DEF TypeOK, Times, SpawnTimes

\* A queue with one more entry for some consumers is a queue.
LEMMA EnqueueFacts ==
  ASSUME NEW q \in Queue, NEW t \in Times, NEW S
  PROVE  /\ Enqueue(q, t, S) \in Queue
         /\ \A u \in Times, d \in Consumers :
              Enqueue(q, t, S)[u][d] = IF u = t /\ d \in S THEN q[u][d] + 1 ELSE q[u][d]
  BY DEF Queue, Enqueue

\* So is one with an entry less, if the entry was there.
LEMMA DequeueFacts ==
  ASSUME NEW q \in Queue, NEW t \in Times, NEW c \in Consumers, Queued(q, t, c)
  PROVE  /\ Dequeue(q, t, c) \in Queue
         /\ \A u \in Times, d \in Consumers :
              Dequeue(q, t, c)[u][d] = IF u = t /\ d = c THEN q[u][d] - 1 ELSE q[u][d]
  BY DEF Queue, Dequeue, Queued

\* Taking due ids out of a queue leaves a queue.
LEMMA ConsumedFacts ==
  ASSUME NEW q \in Queue, NEW T
  PROVE  /\ Consumed(q, T) \in Queue
         /\ \A u \in Times, d \in Consumers :
              Consumed(q, T)[u][d] = IF d \in T /\ u <= now THEN 0 ELSE q[u][d]
  BY DEF Queue, Consumed

\* Cancelling schedules leaves a queue.
LEMMA CancelFacts ==
  ASSUME NEW q \in Queue, NEW S
  PROVE  /\ CancelConsumerPauseExpiration(q, S) \in Queue
         /\ \A u \in Times, d \in Consumers :
              CancelConsumerPauseExpiration(q, S)[u][d] =
                IF d \in S /\ u = cons[d].pauseExpiration /\ u # 0 /\ q[u][d] > 0
                THEN q[u][d] - 1 ELSE q[u][d]
  BY DEF Queue, CancelConsumerPauseExpiration, Queued

\* The initial state satisfies the invariant.
LEMMA InitEstablishes == Init => IInv
<1> SUFFICES ASSUME Init PROVE IInv
  OBVIOUS
<1> USE ConstantsAssumption DEF Init
<1>1. TypeOK
  <2>1. EmptyQueue \in Queue
    BY DEF Queue, EmptyQueue
  <2>2. Unregistered \in Record
    BY DEF Record, Unregistered, Phases, Reasons, Times
  <2>3. contained \in [ChainIds -> BOOLEAN] /\ halted \in BOOLEAN
    BY Zenon
  <2>4. cons \in [Consumers -> Record]
    BY <2>2
  <2>5. /\ now \in 1 .. EndOfTime /\ stage \in Stages
        /\ status \in [ChainIds -> Statuses] /\ forkAt \in [ChainIds -> Nat]
    BY DEF Stages, Statuses
  <2>6. QED
    BY <2>1, <2>3, <2>4, <2>5 DEF TypeOK
<1>2. SchedulesMatchPhases
  BY DEF SchedulesMatchPhases, Schedules, Unregistered, EmptyQueue, SpawnTimeOf,
         RemovalTimeOf, PauseExpirationOf
<1>3. ChainIdsAreExclusive
  BY DEF ChainIdsAreExclusive, Unregistered
<1>4. SweptAreResponsive
  BY DEF SweptAreResponsive, In, Unregistered
<1>5. QED
  BY <1>1, <1>2, <1>3, <1>4 DEF IInv

\* A consumer is due in a queue only in the phase the queue is for.
LEMMA DueFacts ==
  ASSUME IInv
  PROVE  /\ \A c \in Due(launchQueue) : cons[c].phase = "INITIALIZED" /\ cons[c].spawnTime <= now
         /\ \A c \in Due(removalQueue) : cons[c].phase = "STOPPED" /\ cons[c].removalTime <= now
         /\ \A c \in Due(pauseQueue) : cons[c].phase = "PAUSED" /\ cons[c].pauseExpiration <= now
  BY DEF IInv, SchedulesMatchPhases, Schedules, SpawnTimeOf, RemovalTimeOf,
         PauseExpirationOf, Due, Queued

\* Pausing launched consumers keeps the invariant's parts.
LEMMA PauseStep ==
  ASSUME IInv, NEW S \in SUBSET Consumers, NEW reason \in Reasons,
         \A c \in S : cons[c].phase = "LAUNCHED",
         PauseConsumerChain(S, reason), UNCHANGED <<now, launchQueue, removalQueue>>
  PROVE  /\ cons' \in [Consumers -> Record] /\ pauseQueue' \in Queue
         /\ SchedulesMatchPhases' /\ ChainIdsAreExclusive'
         /\ \A c \in Consumers : cons'[c].phase = "LAUNCHED" => cons'[c] = cons[c]
<1> DEFINE P(r) == [r EXCEPT !.phase = "PAUSED", !.pauseReason = reason,
                             !.pausedAt = now, !.pauseExpiration = now + MaxPause]
<1>1. cons' = [c \in Consumers |-> IF c \in S THEN P(cons[c]) ELSE cons[c]]
  BY DEF PauseConsumerChain, Becomes
<1>2. /\ pauseQueue' \in Queue
      /\ \A u \in Times, d \in Consumers :
           pauseQueue'[u][d] = IF u = now + MaxPause /\ d \in S
                               THEN pauseQueue[u][d] + 1 ELSE pauseQueue[u][d]
  BY TimeFacts, EnqueueFacts DEF PauseConsumerChain, IInv, TypeOK
<1>3. cons' \in [Consumers -> Record]
  <2>1. \A r \in Record : P(r) \in Record
    BY TimeFacts DEF IInv, Record, Phases
  <2>2. QED
    BY <1>1, <2>1 DEF IInv, TypeOK
<1>a. \A c \in Consumers :
        /\ c \notin S => cons'[c] = cons[c]
        /\ c \in S => /\ cons'[c].phase = "PAUSED"
                      /\ cons'[c].pauseExpiration = now + MaxPause
        /\ cons'[c].spawnTime = cons[c].spawnTime
        /\ cons'[c].removalTime = cons[c].removalTime
        /\ cons'[c].chainId = cons[c].chainId /\ cons'[c].client = cons[c].client
  BY <1>1 DEF IInv, TypeOK, Record
<1> HIDE DEF P
<1>4. SchedulesMatchPhases'
  <2>1. Schedules(launchQueue, "INITIALIZED", SpawnTimeOf)'
    BY <1>a DEF IInv, SchedulesMatchPhases, Schedules, SpawnTimeOf
  <2>2. Schedules(removalQueue, "STOPPED", RemovalTimeOf)'
    BY <1>a DEF IInv, SchedulesMatchPhases, Schedules, RemovalTimeOf
  <2>3. Schedules(pauseQueue, "PAUSED", PauseExpirationOf)'
    BY <1>a, <1>2, TimeFacts
    DEF IInv, SchedulesMatchPhases, Schedules, PauseExpirationOf
  <2>4. QED
    BY <2>1, <2>2, <2>3 DEF SchedulesMatchPhases
<1>5. ChainIdsAreExclusive'
  BY <1>a DEF IInv, ChainIdsAreExclusive
<1>6. \A c \in Consumers : cons'[c].phase = "LAUNCHED" => cons'[c] = cons[c]
  BY <1>a
<1>7. QED
  BY <1>2, <1>3, <1>4, <1>5, <1>6

\* So does stopping launched or paused ones; q is the pause queue, or the pause
\* queue without the entries of some of the consumers that stop.
LEMMA StopStep ==
  ASSUME IInv, NEW S \in SUBSET Consumers, NEW q \in Queue,
         \A c \in S : cons[c].phase \in {"LAUNCHED", "PAUSED"},
         \A u \in Times, d \in Consumers :
           \/ q[u][d] = pauseQueue[u][d]
           \/ d \in S /\ q[u][d] = 0,
         StopAndPrepareForConsumerRemoval(S, q), UNCHANGED <<now, launchQueue>>
  PROVE  /\ cons' \in [Consumers -> Record] /\ pauseQueue' \in Queue
         /\ removalQueue' \in Queue
         /\ SchedulesMatchPhases' /\ ChainIdsAreExclusive'
         /\ \A c \in Consumers : cons'[c].phase = "LAUNCHED" => cons'[c] = cons[c] /\ c \notin S
<1> DEFINE P(r) == [r EXCEPT !.phase = "STOPPED", !.pauseExpiration = 0,
                             !.pauseReason = "none", !.pausedAt = 0,
                             !.removalTime = now + Unbonding]
<1>1. cons' = [c \in Consumers |-> IF c \in S THEN P(cons[c]) ELSE cons[c]]
  BY DEF StopAndPrepareForConsumerRemoval, Becomes
<1>2. /\ removalQueue' \in Queue
      /\ \A u \in Times, d \in Consumers :
           removalQueue'[u][d] = IF u = now + Unbonding /\ d \in S
                                 THEN removalQueue[u][d] + 1 ELSE removalQueue[u][d]
  BY TimeFacts, EnqueueFacts DEF StopAndPrepareForConsumerRemoval, IInv, TypeOK
<1>3. /\ pauseQueue' \in Queue
      /\ \A u \in Times, d \in Consumers :
           pauseQueue'[u][d] =
             IF d \in S /\ u = cons[d].pauseExpiration /\ u # 0 /\ q[u][d] > 0
             THEN q[u][d] - 1 ELSE q[u][d]
  BY CancelFacts DEF StopAndPrepareForConsumerRemoval
<1>4. cons' \in [Consumers -> Record]
  <2>1. \A r \in Record : P(r) \in Record
    BY TimeFacts DEF IInv, Record, Phases, Reasons
  <2>2. QED
    BY <1>1, <2>1 DEF IInv, TypeOK
<1>a. \A c \in Consumers :
        /\ c \notin S => cons'[c] = cons[c]
        /\ c \in S => /\ cons'[c].phase = "STOPPED"
                      /\ cons'[c].removalTime = now + Unbonding
        /\ cons'[c].spawnTime = cons[c].spawnTime
        /\ cons'[c].chainId = cons[c].chainId /\ cons'[c].client = cons[c].client
  <2>1. \A r \in Record :
         /\ P(r).phase = "STOPPED" /\ P(r).removalTime = now + Unbonding
         /\ P(r).spawnTime = r.spawnTime
         /\ P(r).chainId = r.chainId /\ P(r).client = r.client
    BY DEF Record
  <2>2. QED
    BY <1>1, <2>1 DEF IInv, TypeOK
<1> HIDE DEF P
<1>5. \A u \in Times, d \in Consumers : d \in S => pauseQueue'[u][d] = 0
  <2>1. \A u \in Times, d \in Consumers :
          /\ pauseQueue[u][d] =
               IF cons[d].phase = "PAUSED" /\ u = cons[d].pauseExpiration THEN 1 ELSE 0
          /\ cons[d].phase = "PAUSED" => cons[d].pauseExpiration # 0
    BY DEF IInv, SchedulesMatchPhases, Schedules, PauseExpirationOf
  <2>2. QED
    BY <1>3, <2>1
<1>6. \A u \in Times, d \in Consumers : d \notin S => pauseQueue'[u][d] = pauseQueue[u][d]
  BY <1>3
<1>7. SchedulesMatchPhases'
  <2>1. Schedules(launchQueue, "INITIALIZED", SpawnTimeOf)'
    BY <1>a DEF IInv, SchedulesMatchPhases, Schedules, SpawnTimeOf
  <2>2. Schedules(removalQueue, "STOPPED", RemovalTimeOf)'
    BY <1>a, <1>2, TimeFacts
    DEF IInv, SchedulesMatchPhases, Schedules, RemovalTimeOf
  <2>3. Schedules(pauseQueue, "PAUSED", PauseExpirationOf)'
    BY <1>a, <1>5, <1>6
    DEF IInv, SchedulesMatchPhases, Schedules, PauseExpirationOf
  <2>4. QED
    BY <2>1, <2>2, <2>3 DEF SchedulesMatchPhases
<1>8. ChainIdsAreExclusive'
  BY <1>a DEF IInv, ChainIdsAreExclusive
<1>9. \A c \in Consumers : cons'[c].phase = "LAUNCHED" => cons'[c] = cons[c] /\ c \notin S
  BY <1>a
<1>10. QED
  BY <1>2, <1>3, <1>4, <1>7, <1>8, <1>9

\* And erasing stopped or prelaunched ones, when the removal queue loses the
\* entries of the erased consumers.
LEMMA DeleteStep ==
  ASSUME IInv, NEW S \in SUBSET Consumers, \A c \in S : Deletable(c),
         DeleteConsumerChain(S), UNCHANGED <<now, pauseQueue>>,
         removalQueue' \in Queue,
         \A u \in Times, d \in Consumers :
           removalQueue'[u][d] = IF d \in S THEN 0 ELSE removalQueue[u][d]
  PROVE  /\ cons' \in [Consumers -> Record] /\ launchQueue' \in Queue
         /\ SchedulesMatchPhases' /\ ChainIdsAreExclusive'
         /\ \A c \in Consumers : cons'[c].phase = "LAUNCHED" => cons'[c] = cons[c]
<1> DEFINE P(r) == [r EXCEPT !.phase = "DELETED", !.chainId = NoChain,
                             !.client = NoChain, !.removalTime = 0, !.lastAck = 0,
                             !.pauseReason = "none", !.pausedAt = 0]
<1>1. cons' = [c \in Consumers |-> IF c \in S THEN P(cons[c]) ELSE cons[c]]
  BY DEF DeleteConsumerChain, Becomes
<1>2. launchQueue' =
        [t \in Times |-> [c \in Consumers |->
           IF c \in S /\ cons[c].phase = "INITIALIZED" /\ t = cons[c].spawnTime
           THEN launchQueue[t][c] - 1 ELSE launchQueue[t][c]]]
  BY DEF DeleteConsumerChain
<1>3. \A u \in Times, d \in Consumers :
        launchQueue'[u][d] = IF d \in S THEN 0 ELSE launchQueue[u][d]
  BY <1>2 DEF IInv, TypeOK, Queue, SchedulesMatchPhases, Schedules, SpawnTimeOf,
              Deletable
<1>4. launchQueue' \in Queue
  BY <1>2, <1>3 DEF IInv, TypeOK, Queue
<1>5. cons' \in [Consumers -> Record]
  <2>1. \A r \in Record : P(r) \in Record
    BY TimeFacts DEF IInv, Record, Phases, Reasons
  <2>2. QED
    BY <1>1, <2>1 DEF IInv, TypeOK
<1>a. \A c \in Consumers :
        /\ c \notin S => cons'[c] = cons[c]
        /\ c \in S => /\ cons'[c].phase = "DELETED"
                      /\ cons'[c].chainId = NoChain /\ cons'[c].client = NoChain
  <2>1. \A r \in Record :
         P(r).phase = "DELETED" /\ P(r).chainId = NoChain /\ P(r).client = NoChain
    BY DEF Record
  <2>2. QED
    BY <1>1, <2>1 DEF IInv, TypeOK
<1> HIDE DEF P
<1>6. \A u \in Times, d \in Consumers : d \in S => pauseQueue[u][d] = 0
  BY DEF IInv, SchedulesMatchPhases, Schedules, PauseExpirationOf, Deletable
<1>7. SchedulesMatchPhases'
  <2>1. Schedules(launchQueue, "INITIALIZED", SpawnTimeOf)'
    BY <1>a, <1>3 DEF IInv, SchedulesMatchPhases, Schedules, SpawnTimeOf
  <2>2. Schedules(removalQueue, "STOPPED", RemovalTimeOf)'
    BY <1>a DEF IInv, SchedulesMatchPhases, Schedules, RemovalTimeOf
  <2>3. Schedules(pauseQueue, "PAUSED", PauseExpirationOf)'
    BY <1>a, <1>6 DEF IInv, SchedulesMatchPhases, Schedules, PauseExpirationOf
  <2>4. QED
    BY <2>1, <2>2, <2>3 DEF SchedulesMatchPhases
<1>8. ChainIdsAreExclusive'
  BY <1>a, ConstantsAssumption DEF IInv, ChainIdsAreExclusive
<1>9. \A c \in Consumers : cons'[c].phase = "LAUNCHED" => cons'[c] = cons[c]
  BY <1>a
<1>10. QED
  BY <1>4, <1>5, <1>7, <1>8, <1>9

\* Every step keeps the invariant.
LEMMA StepPreserves == IInv /\ [Next]_vars => IInv'
<1> SUFFICES ASSUME IInv, [Next]_vars PROVE IInv'
  OBVIOUS
<1> USE DEF IInv
<1>1. CASE StartBlock
  <2>1. now' \in 1 .. EndOfTime
    BY <1>1, ConstantsAssumption DEF StartBlock, TypeOK
  <2>2. TypeOK'
    BY <1>1, <2>1 DEF StartBlock, TypeOK, Stages, queues, external
  <2>3. SchedulesMatchPhases' /\ ChainIdsAreExclusive'
    BY <1>1 DEF StartBlock, queues, SchedulesMatchPhases, Schedules, SpawnTimeOf,
                RemovalTimeOf, PauseExpirationOf, ChainIdsAreExclusive
  <2>4. SweptAreResponsive'
    BY <1>1 DEF StartBlock, SweptAreResponsive
  <2>5. QED
    BY <2>2, <2>3, <2>4
<1>2. CASE BeginBlockLaunchConsumers
  <2>1. PICK T \in SUBSET Due(launchQueue), failed \in SUBSET Consumers :
          failed \subseteq T /\
          IF \A c \in failed : ValidateInitialHeight(c)
          THEN /\ cons' = [c \in Consumers |->
                    IF c \in failed
                    THEN [cons[c] EXCEPT !.phase = "REGISTERED", !.spawnTime = 0]
                    ELSE IF c \in T
                    THEN [cons[c] EXCEPT !.phase = "LAUNCHED", !.lastAck = now]
                    ELSE cons[c]]
               /\ launchQueue' = Consumed(launchQueue, T)
               /\ stage' = "remove"
               /\ UNCHANGED halted
          ELSE /\ halted' = TRUE
               /\ UNCHANGED <<cons, launchQueue, stage>>
    BY <1>2 DEF BeginBlockLaunchConsumers, Due
  <2>2. UNCHANGED <<now, removalQueue, pauseQueue, external, contained>>
    BY <1>2 DEF BeginBlockLaunchConsumers
  <2>3. CASE halted' = TRUE /\ UNCHANGED <<cons, launchQueue, stage>>
    <3>1. TypeOK'
      BY <2>2, <2>3 DEF TypeOK, external
    <3>2. QED
      BY <2>2, <2>3, <3>1
      DEF SchedulesMatchPhases, Schedules, SpawnTimeOf, RemovalTimeOf,
          PauseExpirationOf, ChainIdsAreExclusive, SweptAreResponsive, In
  <2>4. CASE /\ cons' = [c \in Consumers |->
                  IF c \in failed
                  THEN [cons[c] EXCEPT !.phase = "REGISTERED", !.spawnTime = 0]
                  ELSE IF c \in T
                  THEN [cons[c] EXCEPT !.phase = "LAUNCHED", !.lastAck = now]
                  ELSE cons[c]]
             /\ launchQueue' = Consumed(launchQueue, T)
             /\ stage' = "remove" /\ UNCHANGED halted
    <3>1. /\ launchQueue' \in Queue
          /\ \A u \in Times, d \in Consumers :
               launchQueue'[u][d] = IF d \in T /\ u <= now THEN 0 ELSE launchQueue[u][d]
      <4>1. launchQueue \in Queue
        BY DEF TypeOK
      <4>2. QED
        BY <2>4, <4>1, ConsumedFacts
    <3>2. \A r \in Record :
            /\ [r EXCEPT !.phase = "REGISTERED", !.spawnTime = 0] \in Record
            /\ [r EXCEPT !.phase = "LAUNCHED", !.lastAck = now] \in Record
      BY TimeFacts DEF Record, Phases
    <3>3. cons' \in [Consumers -> Record]
      BY <2>4, <3>2 DEF TypeOK
    <3>4. \A c \in Consumers :
            /\ c \notin T => cons'[c] = cons[c]
            /\ c \in T => /\ cons'[c].phase \in {"REGISTERED", "LAUNCHED"}
                          /\ cons[c].phase = "INITIALIZED" /\ cons[c].spawnTime <= now
            /\ cons'[c].chainId = cons[c].chainId /\ cons'[c].client = cons[c].client
      <4> DEFINE F(r) == [r EXCEPT !.phase = "REGISTERED", !.spawnTime = 0]
                 L(r) == [r EXCEPT !.phase = "LAUNCHED", !.lastAck = now]
      <4>1. \A r \in Record :
              /\ F(r).phase = "REGISTERED"
              /\ F(r).chainId = r.chainId /\ F(r).client = r.client
              /\ L(r).phase = "LAUNCHED"
              /\ L(r).chainId = r.chainId /\ L(r).client = r.client
        BY DEF Record
      <4>2. \A c \in T : cons[c].phase = "INITIALIZED" /\ cons[c].spawnTime <= now
        BY DueFacts
      <4>3. QED
        BY <2>1, <2>4, <4>1, <4>2 DEF TypeOK
    <3>5. TypeOK'
      BY <2>2, <2>4, <3>1, <3>3 DEF TypeOK, Stages, external
    <3>6. Schedules(launchQueue, "INITIALIZED", SpawnTimeOf)'
      BY <3>1, <3>4 DEF SchedulesMatchPhases, Schedules, SpawnTimeOf
    <3>7. Schedules(removalQueue, "STOPPED", RemovalTimeOf)'
      BY <2>2, <3>4 DEF SchedulesMatchPhases, Schedules, RemovalTimeOf
    <3>8. Schedules(pauseQueue, "PAUSED", PauseExpirationOf)'
      BY <2>2, <3>4 DEF SchedulesMatchPhases, Schedules, PauseExpirationOf
    <3>9. ChainIdsAreExclusive'
      BY <3>4 DEF ChainIdsAreExclusive
    <3>10. SweptAreResponsive'
      BY <2>4 DEF SweptAreResponsive
    <3>11. QED
      BY <3>5, <3>6, <3>7, <3>8, <3>9, <3>10 DEF SchedulesMatchPhases
  <2>5. QED
    BY <2>1, <2>3, <2>4
<1>3. CASE BeginBlockRemoveConsumers
  <2>1. PICK T \in SUBSET Due(removalQueue) :
          /\ DeleteConsumerChain({c \in T : Deletable(c)})
          /\ removalQueue' = Consumed(removalQueue, T)
    BY <1>3 DEF BeginBlockRemoveConsumers
  <2>2. /\ stage' = "frozen"
        /\ UNCHANGED <<now, halted, pauseQueue, external, contained>>
    BY <1>3 DEF BeginBlockRemoveConsumers
  <2>3. PICK S : S = {c \in T : Deletable(c)}
    OBVIOUS
  <2>4. /\ S = T /\ S \in SUBSET Consumers /\ \A c \in S : Deletable(c)
        /\ \A c \in S : cons[c].phase = "STOPPED" /\ cons[c].removalTime <= now
    BY <2>3, DueFacts DEF Deletable, Due
  <2>5. /\ removalQueue' \in Queue
        /\ \A u \in Times, d \in Consumers :
             removalQueue'[u][d] = IF d \in T /\ u <= now THEN 0 ELSE removalQueue[u][d]
    BY <2>1, ConsumedFacts DEF TypeOK
  <2>6. \A u \in Times, d \in Consumers :
          removalQueue'[u][d] = IF d \in S THEN 0 ELSE removalQueue[u][d]
    BY <2>4, <2>5 DEF SchedulesMatchPhases, Schedules, RemovalTimeOf
  <2>7. DeleteConsumerChain(S)
    BY <2>1, <2>3
  <2>8. /\ cons' \in [Consumers -> Record] /\ launchQueue' \in Queue
        /\ SchedulesMatchPhases' /\ ChainIdsAreExclusive'
    BY <2>2, <2>4, <2>5, <2>6, <2>7, DeleteStep
  <2>9. TypeOK'
    BY <2>2, <2>5, <2>8 DEF TypeOK, Stages, external
  <2>10. SweptAreResponsive'
    BY <2>2 DEF SweptAreResponsive
  <2>11. QED
    BY <2>8, <2>9, <2>10
<1>4. CASE PauseConsumersWithFrozenClients
  <2>1. PICK S : S = {c \in In("LAUNCHED") : HasFrozenClient(c)}
    OBVIOUS
  <2>2. /\ PauseConsumerChain(S, "fork") /\ Containing(S) /\ stage' = "sweep"
        /\ UNCHANGED <<now, halted, launchQueue, removalQueue, external>>
    BY <1>4, <2>1 DEF PauseConsumersWithFrozenClients
  <2>3. S \in SUBSET Consumers /\ \A c \in S : cons[c].phase = "LAUNCHED"
    BY <2>1 DEF In
  <2>4. /\ cons' \in [Consumers -> Record] /\ pauseQueue' \in Queue
        /\ SchedulesMatchPhases' /\ ChainIdsAreExclusive'
    BY <2>2, <2>3, PauseStep DEF Reasons
  <2>5. contained' \in [ChainIds -> BOOLEAN]
    BY <2>2, Zenon DEF Containing
  <2>6. TypeOK'
    BY <2>2, <2>4, <2>5 DEF TypeOK, Stages, external
  <2>7. SweptAreResponsive'
    BY <2>2 DEF SweptAreResponsive
  <2>8. QED
    BY <2>4, <2>6, <2>7
<1>5. CASE SweepUnresponsiveConsumers
  <2>1. PICK S, q : S = {c \in In("LAUNCHED") : now - cons[c].lastAck > Grace} /\ q = pauseQueue
    OBVIOUS
  <2>2. /\ StopAndPrepareForConsumerRemoval(S, q) /\ stage' = "autostop"
        /\ UNCHANGED <<now, halted, launchQueue, external, contained>>
    BY <1>5, <2>1 DEF SweepUnresponsiveConsumers
  <2>3. /\ S \in SUBSET Consumers /\ \A c \in S : cons[c].phase \in {"LAUNCHED", "PAUSED"}
        /\ q \in Queue /\ \A u \in Times, d \in Consumers : q[u][d] = pauseQueue[u][d]
    BY <2>1 DEF In, TypeOK
  <2>4. /\ cons' \in [Consumers -> Record] /\ pauseQueue' \in Queue /\ removalQueue' \in Queue
        /\ SchedulesMatchPhases' /\ ChainIdsAreExclusive'
        /\ \A c \in Consumers : cons'[c].phase = "LAUNCHED" => cons'[c] = cons[c] /\ c \notin S
    BY <2>2, <2>3, StopStep
  <2>5. TypeOK'
    BY <2>2, <2>4 DEF TypeOK, Stages, external
  <2>6. SweptAreResponsive'
    <3>1. ASSUME NEW c \in Consumers, cons'[c].phase = "LAUNCHED"
          PROVE  now - cons[c].lastAck <= Grace
      <4>1. cons[c].phase = "LAUNCHED" /\ c \notin S /\ cons[c].lastAck \in Nat
        BY <2>4, <3>1, TimeFacts DEF TypeOK, Record
      <4>2. QED
        BY <2>1, <4>1, ConstantsAssumption DEF In, TypeOK
    <3>2. QED
      BY <2>2, <2>4, <3>1 DEF SweptAreResponsive, In
  <2>7. QED
    BY <2>4, <2>5, <2>6
<1>6. CASE BeginBlockAutoStopPausedConsumers
  <2>1. PICK T \in SUBSET Due(pauseQueue) :
          StopAndPrepareForConsumerRemoval(T \cap In("PAUSED"), Consumed(pauseQueue, T))
    BY <1>6 DEF BeginBlockAutoStopPausedConsumers
  <2>2. /\ stage' = "deliver"
        /\ UNCHANGED <<now, halted, launchQueue, external, contained>>
    BY <1>6 DEF BeginBlockAutoStopPausedConsumers
  <2>3. stage = "autostop"
    BY <1>6 DEF BeginBlockAutoStopPausedConsumers
  <2>4. PICK S, q : S = T \cap In("PAUSED") /\ q = Consumed(pauseQueue, T)
    OBVIOUS
  <2>5. S = T /\ S \in SUBSET Consumers /\ \A c \in S : cons[c].phase \in {"LAUNCHED", "PAUSED"}
    BY <2>4, DueFacts DEF In, Due
  <2>6. /\ q \in Queue
        /\ \A u \in Times, d \in Consumers :
             q[u][d] = pauseQueue[u][d] \/ (d \in S /\ q[u][d] = 0)
    BY <2>4, <2>5, ConsumedFacts DEF TypeOK
  <2>7. StopAndPrepareForConsumerRemoval(S, q)
    BY <2>1, <2>4
  <2>8. /\ cons' \in [Consumers -> Record] /\ pauseQueue' \in Queue /\ removalQueue' \in Queue
        /\ SchedulesMatchPhases' /\ ChainIdsAreExclusive'
        /\ \A c \in Consumers : cons'[c].phase = "LAUNCHED" => cons'[c] = cons[c]
    BY <2>2, <2>5, <2>6, <2>7, StopStep
  <2>9. TypeOK'
    BY <2>2, <2>8 DEF TypeOK, Stages, external
  <2>10. SweptAreResponsive'
    BY <2>2, <2>3, <2>8 DEF SweptAreResponsive, In
  <2>11. QED
    BY <2>8, <2>9, <2>10
<1>7. CASE InitGenesis
  <2>1. CASE halted' = TRUE /\ UNCHANGED queues
    <3>1. UNCHANGED <<now, stage, cons, external, contained>>
      BY <1>7 DEF InitGenesis
    <3>2. TypeOK'
      BY <2>1, <3>1 DEF TypeOK, queues, external
    <3>3. QED
      BY <2>1, <3>1, <3>2
      DEF SchedulesMatchPhases, Schedules, SpawnTimeOf, RemovalTimeOf, queues,
          PauseExpirationOf, ChainIdsAreExclusive, SweptAreResponsive, In
  <2>2. CASE /\ launchQueue'  = RebuildQueue("INITIALIZED", SpawnTimeOf)
             /\ removalQueue' = RebuildQueue("STOPPED", RemovalTimeOf)
             /\ pauseQueue'   = RebuildQueue("PAUSED", PauseExpirationOf)
             /\ UNCHANGED halted
    <3>1. UNCHANGED <<now, stage, cons, external, contained>>
      BY <1>7 DEF InitGenesis
    <3>2. launchQueue' \in Queue /\ removalQueue' \in Queue /\ pauseQueue' \in Queue
      BY <2>2 DEF RebuildQueue, Queue
    <3>3. TypeOK'
      BY <2>2, <3>1, <3>2 DEF TypeOK, external
    <3>4. Schedules(launchQueue, "INITIALIZED", SpawnTimeOf)'
      BY <2>2, <3>1 DEF SchedulesMatchPhases, Schedules, RebuildQueue, SpawnTimeOf
    <3>5. Schedules(removalQueue, "STOPPED", RemovalTimeOf)'
      BY <2>2, <3>1 DEF SchedulesMatchPhases, Schedules, RebuildQueue, RemovalTimeOf
    <3>6. Schedules(pauseQueue, "PAUSED", PauseExpirationOf)'
      BY <2>2, <3>1 DEF SchedulesMatchPhases, Schedules, RebuildQueue, PauseExpirationOf
    <3>7. ChainIdsAreExclusive' /\ SweptAreResponsive'
      BY <3>1 DEF ChainIdsAreExclusive, SweptAreResponsive, In
    <3>8. QED
      BY <3>3, <3>4, <3>5, <3>6, <3>7 DEF SchedulesMatchPhases
  <2>3. QED
    BY <1>7, <2>1, <2>2 DEF InitGenesis
<1>8. ASSUME NEW c \in Consumers, NEW i \in ChainIds, NEW t \in SpawnTimes,
             CreateConsumer(c, i, t)
      PROVE  IInv'
  <2> DEFINE r == [Unregistered EXCEPT !.chainId = i, !.revision = Revision[i],
                     !.spawnTime = t,
                     !.phase = IF t = 0 THEN "REGISTERED" ELSE "INITIALIZED"]
  <2>1. /\ cons[c].phase = "NONE" /\ ValidateConsumerChainIdFree(i)
        /\ cons' = [cons EXCEPT ![c] = r]
        /\ launchQueue' = IF t = 0 THEN launchQueue ELSE Enqueue(launchQueue, t, {c})
        /\ UNCHANGED <<now, stage, halted, removalQueue, pauseQueue, external, contained>>
    BY <1>8 DEF CreateConsumer
  <2>2. t \in Times /\ launchQueue \in Queue
    BY TimeFacts DEF TypeOK
  <2>3. /\ r \in Record /\ r.chainId = i /\ r.client = NoChain /\ r.spawnTime = t
        /\ r.phase = IF t = 0 THEN "REGISTERED" ELSE "INITIALIZED"
    BY <2>2, TimeFacts, ConstantsAssumption DEF Record, Unregistered, Phases, Reasons
  <2> HIDE DEF r
  <2>4. /\ launchQueue' \in Queue
        /\ \A u \in Times, d \in Consumers :
             launchQueue'[u][d] = IF t # 0 /\ u = t /\ d = c THEN launchQueue[u][d] + 1
                                  ELSE launchQueue[u][d]
    BY <2>1, <2>2, EnqueueFacts
  <2>5. cons' \in [Consumers -> Record] /\ cons'[c] = r
        /\ \A d \in Consumers : d # c => cons'[d] = cons[d]
    BY <2>1, <2>3 DEF TypeOK
  <2>6. TypeOK'
    BY <2>1, <2>4, <2>5 DEF TypeOK, external
  <2>7. Schedules(launchQueue, "INITIALIZED", SpawnTimeOf)'
    <3>1. \A u \in Times, d \in Consumers :
            launchQueue[u][d] = IF cons[d].phase = "INITIALIZED" /\ u = cons[d].spawnTime
                                THEN 1 ELSE 0
      BY DEF SchedulesMatchPhases, Schedules, SpawnTimeOf
    <3>2. \A u \in Times :
            launchQueue'[u][c] = IF cons'[c].phase = "INITIALIZED" /\ u = cons'[c].spawnTime
                                 THEN 1 ELSE 0
      <4>1. \A u \in Times : launchQueue[u][c] = 0
        BY <2>1, <3>1
      <4>2. cons'[c].phase = (IF t = 0 THEN "REGISTERED" ELSE "INITIALIZED")
            /\ cons'[c].spawnTime = t
        BY <2>3, <2>5
      <4>3. QED
        BY <2>4, <4>1, <4>2
    <3>3. \A u \in Times, d \in Consumers :
            d # c => launchQueue'[u][d] = launchQueue[u][d] /\ cons'[d] = cons[d]
      BY <2>4, <2>5
    <3>4. \A d \in Consumers : cons'[d].phase = "INITIALIZED" => cons'[d].spawnTime # 0
      BY <2>3, <2>5 DEF SchedulesMatchPhases, Schedules, SpawnTimeOf
    <3>5. QED
      BY <3>1, <3>2, <3>3, <3>4 DEF Schedules, SpawnTimeOf
  <2>8. Schedules(removalQueue, "STOPPED", RemovalTimeOf)'
    BY <2>1, <2>3, <2>5 DEF SchedulesMatchPhases, Schedules, RemovalTimeOf
  <2>9. Schedules(pauseQueue, "PAUSED", PauseExpirationOf)'
    BY <2>1, <2>3, <2>5 DEF SchedulesMatchPhases, Schedules, PauseExpirationOf
  <2>10. ChainIdsAreExclusive'
    BY <2>1, <2>3, <2>5, ConstantsAssumption
    DEF ChainIdsAreExclusive, ValidateConsumerChainIdFree
  <2>11. SweptAreResponsive'
    BY <2>1, <2>3, <2>5 DEF SweptAreResponsive, In
  <2>12. QED
    BY <2>6, <2>7, <2>8, <2>9, <2>10, <2>11 DEF SchedulesMatchPhases
<1>9. ASSUME NEW c \in Consumers, RemovePrelaunched(c)
      PROVE  IInv'
  <2>1. /\ {c} \in SUBSET Consumers /\ \A d \in {c} : Deletable(d)
        /\ cons[c].phase \in Prelaunched
        /\ DeleteConsumerChain({c})
        /\ UNCHANGED <<now, stage, halted, removalQueue, pauseQueue, external, contained>>
    BY <1>9 DEF RemovePrelaunched
  <2>2. /\ removalQueue' \in Queue
        /\ \A u \in Times, d \in Consumers :
             removalQueue'[u][d] = IF d \in {c} THEN 0 ELSE removalQueue[u][d]
    BY <2>1 DEF TypeOK, SchedulesMatchPhases, Schedules, RemovalTimeOf, Prelaunched
  <2>3. /\ cons' \in [Consumers -> Record] /\ launchQueue' \in Queue
        /\ SchedulesMatchPhases' /\ ChainIdsAreExclusive'
        /\ \A d \in Consumers : cons'[d].phase = "LAUNCHED" => cons'[d] = cons[d]
    BY <2>1, <2>2, DeleteStep
  <2>4. TypeOK'
    BY <2>1, <2>2, <2>3 DEF TypeOK, external
  <2>5. SweptAreResponsive'
    BY <2>1, <2>3 DEF SweptAreResponsive, In
  <2>6. QED
    BY <2>3, <2>4, <2>5
<1>10. ASSUME NEW c \in Consumers, RemoveLaunched(c)
       PROVE  IInv'
  <2>1. PICK q : q = pauseQueue
    OBVIOUS
  <2>2. /\ {c} \in SUBSET Consumers
        /\ \A d \in {c} : cons[d].phase \in {"LAUNCHED", "PAUSED"}
        /\ StopAndPrepareForConsumerRemoval({c}, q)
        /\ UNCHANGED <<now, stage, halted, launchQueue, external, contained>>
        /\ q \in Queue /\ \A u \in Times, d \in Consumers : q[u][d] = pauseQueue[u][d]
    BY <1>10, <2>1 DEF RemoveLaunched, TypeOK
  <2>3. /\ cons' \in [Consumers -> Record] /\ pauseQueue' \in Queue /\ removalQueue' \in Queue
        /\ SchedulesMatchPhases' /\ ChainIdsAreExclusive'
        /\ \A d \in Consumers : cons'[d].phase = "LAUNCHED" => cons'[d] = cons[d]
    BY <2>2, StopStep
  <2>4. TypeOK'
    BY <2>2, <2>3 DEF TypeOK, external
  <2>5. SweptAreResponsive'
    BY <2>2, <2>3 DEF SweptAreResponsive, In
  <2>6. QED
    BY <2>3, <2>4, <2>5
<1>11. ASSUME NEW c \in Consumers, HandleChallengeConsumerDowntime(c)
       PROVE  IInv'
  <2>1. /\ {c} \in SUBSET Consumers /\ \A d \in {c} : cons[d].phase = "LAUNCHED"
        /\ PauseConsumerChain({c}, "challenge") /\ "challenge" \in Reasons
        /\ UNCHANGED <<now, stage, halted, launchQueue, removalQueue, external, contained>>
    BY <1>11 DEF HandleChallengeConsumerDowntime, Reasons
  <2>2. /\ cons' \in [Consumers -> Record] /\ pauseQueue' \in Queue
        /\ SchedulesMatchPhases' /\ ChainIdsAreExclusive'
        /\ \A d \in Consumers : cons'[d].phase = "LAUNCHED" => cons'[d] = cons[d]
    BY <2>1, PauseStep
  <2>3. TypeOK'
    BY <2>1, <2>2 DEF TypeOK, external
  <2>4. SweptAreResponsive'
    BY <2>1, <2>2 DEF SweptAreResponsive, In
  <2>5. QED
    BY <2>2, <2>3, <2>4
<1>12. ASSUME NEW c \in Consumers, HandleConsumerMisbehaviour(c)
       PROVE  IInv'
  <2>1. /\ {c} \in SUBSET Consumers /\ \A d \in {c} : cons[d].phase = "LAUNCHED"
        /\ PauseConsumerChain({c}, "fork") /\ "fork" \in Reasons /\ Containing({c})
        /\ UNCHANGED <<now, stage, halted, launchQueue, removalQueue, forkAt>>
    BY <1>12 DEF HandleConsumerMisbehaviour, Reasons
  <2>2. /\ cons' \in [Consumers -> Record] /\ pauseQueue' \in Queue
        /\ SchedulesMatchPhases' /\ ChainIdsAreExclusive'
        /\ \A d \in Consumers : cons'[d].phase = "LAUNCHED" => cons'[d] = cons[d]
    BY <2>1, PauseStep
  <2>3. contained' \in [ChainIds -> BOOLEAN]
    BY <2>1, Zenon DEF Containing
  <2>4. status' \in [ChainIds -> Statuses]
    BY <1>12 DEF HandleConsumerMisbehaviour, TypeOK, Statuses
  <2>5. TypeOK'
    BY <2>1, <2>2, <2>3, <2>4 DEF TypeOK
  <2>6. SweptAreResponsive'
    BY <2>1, <2>2 DEF SweptAreResponsive, In
  <2>7. QED
    BY <2>2, <2>5, <2>6
<1>13. ASSUME NEW c \in Consumers, NEW declare \in BOOLEAN, NEW i \in ChainIds,
              NEW params \in BOOLEAN, NEW t \in SpawnTimes,
              UpdateConsumer(c, declare, i, params, t)
       PROVE  IInv'
  <2>1. /\ cons[c].phase \in Prelaunched \cup {"LAUNCHED"}
        /\ declare => SetConsumerClient(c)
        /\ i # cons[c].chainId => ValidateConsumerChainIdFree(i)
        /\ UNCHANGED <<now, stage, halted, removalQueue, pauseQueue, external, contained>>
    BY <1>13 DEF UpdateConsumer
  <2>2. t \in Times /\ launchQueue \in Queue
    BY TimeFacts DEF TypeOK
  <2>3. cons[c] \in Record /\ cons[c].chainId \in ChainIds
    <3>1. cons[c] \in Record
      BY DEF TypeOK
    <3>2. cons[c].chainId # NoChain
      BY <2>1 DEF ChainIdsAreExclusive, Prelaunched
    <3>3. QED
      BY <3>1, <3>2 DEF Record
  <2>4. PICK k : k = IF declare THEN cons[c].chainId ELSE cons[c].client
    OBVIOUS
  <2>5. k \in ChainIds \cup {NoChain}
    BY <2>3, <2>4 DEF Record
  <2>6. \A d \in Consumers : d # c /\ cons[d].client = k => k = NoChain
    BY <2>1, <2>4 DEF SetConsumerClient, ChainIdsAreExclusive
  <2>7. \A d \in Consumers : d # c => cons[d].chainId # i
    BY <2>1, ConstantsAssumption DEF ValidateConsumerChainIdFree, ChainIdsAreExclusive
  <2>8. i # ProviderChainId
    BY <2>1, <2>3 DEF ValidateConsumerChainIdFree, ChainIdsAreExclusive
  <2>9. CASE /\ cons[c].phase = "LAUNCHED" /\ UNCHANGED launchQueue
             /\ cons' = [cons EXCEPT ![c] = [cons[c] EXCEPT !.client = k]]
    <3> DEFINE r == [cons[c] EXCEPT !.client = k]
    <3>1. /\ r \in Record /\ r.phase = "LAUNCHED" /\ r.client = k
          /\ r.chainId = cons[c].chainId /\ r.lastAck = cons[c].lastAck
      BY <2>3, <2>5, <2>9 DEF Record
    <3>2. cons' = [cons EXCEPT ![c] = r]
      BY <2>9
    <3> HIDE DEF r
    <3>3. /\ cons' \in [Consumers -> Record] /\ cons'[c] = r
          /\ \A d \in Consumers : d # c => cons'[d] = cons[d]
      BY <3>1, <3>2 DEF TypeOK
    <3>4. TypeOK'
      BY <2>1, <2>9, <3>3 DEF TypeOK, external
    <3>5. SchedulesMatchPhases'
      BY <2>1, <2>9, <3>1, <3>3 DEF SchedulesMatchPhases, Schedules, SpawnTimeOf,
                                    RemovalTimeOf, PauseExpirationOf
    <3>6. ChainIdsAreExclusive'
      BY <2>6, <2>9, <3>1, <3>3 DEF ChainIdsAreExclusive
    <3>7. SweptAreResponsive'
      BY <2>1, <2>9, <3>1, <3>3 DEF SweptAreResponsive, In
    <3>8. QED
      BY <3>4, <3>5, <3>6, <3>7
  <2>10. CASE /\ cons[c].phase \in Prelaunched /\ PrepareConsumerForLaunch(c, t)
              /\ cons' = [cons EXCEPT ![c] =
                   [[cons[c] EXCEPT !.client = k] EXCEPT !.chainId = i, !.spawnTime = t,
                      !.revision = IF params THEN Revision[i] ELSE @,
                      !.phase = IF t = 0 THEN "REGISTERED" ELSE "INITIALIZED"]]
    <3> DEFINE r == [[cons[c] EXCEPT !.client = k] EXCEPT !.chainId = i, !.spawnTime = t,
                       !.revision = IF params THEN Revision[i] ELSE @,
                       !.phase = IF t = 0 THEN "REGISTERED" ELSE "INITIALIZED"]
    <3>0. Revision[i] \in Nat
      BY ConstantsAssumption
    <3>1. /\ r \in Record /\ r.client = k /\ r.chainId = i /\ r.spawnTime = t
          /\ r.phase = IF t = 0 THEN "REGISTERED" ELSE "INITIALIZED"
      BY <2>2, <2>3, <2>5, <3>0 DEF Record, Phases
    <3>2. cons' = [cons EXCEPT ![c] = r]
      BY <2>10
    <3> HIDE DEF r
    <3>3. /\ cons' \in [Consumers -> Record] /\ cons'[c] = r
          /\ \A d \in Consumers : d # c => cons'[d] = cons[d]
      BY <3>1, <3>2 DEF TypeOK
    <3>4. \A u \in Times, d \in Consumers :
            launchQueue[u][d] = IF cons[d].phase = "INITIALIZED" /\ u = cons[d].spawnTime
                                THEN 1 ELSE 0
      BY DEF SchedulesMatchPhases, Schedules, SpawnTimeOf
    <3>5. cons[c].spawnTime \in Times
      BY <2>3 DEF Record
    <3>6. PICK q : q = IF cons[c].spawnTime = 0 THEN launchQueue
                       ELSE Dequeue(launchQueue, cons[c].spawnTime, c)
      OBVIOUS
    <3>7. /\ cons[c].spawnTime # 0 => Queued(launchQueue, cons[c].spawnTime, c)
          /\ launchQueue' = IF t = 0 THEN q ELSE Enqueue(q, t, {c})
      BY <2>10, <3>6 DEF PrepareConsumerForLaunch
    <3>8. /\ q \in Queue
          /\ \A u \in Times, d \in Consumers :
               q[u][d] = IF cons[c].spawnTime # 0 /\ u = cons[c].spawnTime /\ d = c
                         THEN launchQueue[u][d] - 1 ELSE launchQueue[u][d]
      BY <2>2, <3>5, <3>6, <3>7, DequeueFacts
    <3>9. \A u \in Times : q[u][c] = 0
      <4>1. cons[c].phase = "INITIALIZED" => cons[c].spawnTime # 0
        BY DEF SchedulesMatchPhases, Schedules, SpawnTimeOf
      <4>2. cons[c].spawnTime # 0 => cons[c].phase = "INITIALIZED"
        BY <3>4, <3>5, <3>7 DEF Queued
      <4>3. QED
        BY <3>4, <3>8, <4>1, <4>2
    <3>10. /\ launchQueue' \in Queue
           /\ \A u \in Times, d \in Consumers :
                launchQueue'[u][d] = IF t # 0 /\ u = t /\ d = c THEN q[u][d] + 1 ELSE q[u][d]
      BY <2>2, <3>7, <3>8, EnqueueFacts
    <3>11. TypeOK'
      BY <2>1, <3>3, <3>10 DEF TypeOK, external
    <3>12. Schedules(launchQueue, "INITIALIZED", SpawnTimeOf)'
      <4>1. \A u \in Times :
              launchQueue'[u][c] = IF cons'[c].phase = "INITIALIZED" /\ u = cons'[c].spawnTime
                                   THEN 1 ELSE 0
        BY <2>2, <3>1, <3>3, <3>9, <3>10
      <4>2. \A u \in Times, d \in Consumers :
              d # c => launchQueue'[u][d] = launchQueue[u][d] /\ cons'[d] = cons[d]
        BY <3>3, <3>8, <3>10
      <4>3. \A d \in Consumers : cons'[d].phase = "INITIALIZED" => cons'[d].spawnTime # 0
        BY <3>1, <3>3 DEF SchedulesMatchPhases, Schedules, SpawnTimeOf
      <4>4. QED
        BY <3>4, <4>1, <4>2, <4>3 DEF Schedules, SpawnTimeOf
    <3>13. Schedules(removalQueue, "STOPPED", RemovalTimeOf)'
      BY <2>1, <2>10, <3>1, <3>3
      DEF SchedulesMatchPhases, Schedules, RemovalTimeOf, Prelaunched
    <3>14. Schedules(pauseQueue, "PAUSED", PauseExpirationOf)'
      BY <2>1, <2>10, <3>1, <3>3
      DEF SchedulesMatchPhases, Schedules, PauseExpirationOf, Prelaunched
    <3>15. ChainIdsAreExclusive'
      <4>1. /\ cons'[c].chainId = i /\ cons'[c].client = k /\ i # NoChain
            /\ cons'[c].phase \notin {"NONE", "DELETED"}
        BY <3>1, <3>3, ConstantsAssumption
      <4>2. \A d \in Consumers :
              d # c => /\ cons'[d] = cons[d] /\ cons[d].chainId # i
                       /\ cons[d].client = k => k = NoChain
        BY <2>6, <2>7, <3>3
      <4>3. ASSUME NEW d \in Consumers, NEW e \in Consumers, d # e
            PROVE  /\ cons'[d].chainId = cons'[e].chainId => cons'[d].chainId = NoChain
                   /\ cons'[d].client = cons'[e].client => cons'[d].client = NoChain
        <5>1. CASE d = c
          BY <4>1, <4>2, <4>3, <5>1
        <5>2. CASE e = c
          BY <4>1, <4>2, <4>3, <5>2
        <5>3. CASE d # c /\ e # c
          BY <4>2, <4>3, <5>3 DEF ChainIdsAreExclusive
        <5>4. QED
          BY <5>1, <5>2, <5>3
      <4>4. ASSUME NEW d \in Consumers
            PROVE  /\ cons'[d].chainId # NoChain <=> cons'[d].phase \notin {"NONE", "DELETED"}
                   /\ cons'[d].chainId \in ChainIds => cons'[d].chainId # ProviderChainId
                   /\ cons'[d].phase \in {"NONE", "DELETED"} => cons'[d].client = NoChain
        <5>1. CASE d = c
          BY <2>8, <4>1, <5>1
        <5>2. CASE d # c
          BY <4>2, <5>2 DEF ChainIdsAreExclusive
        <5>3. QED
          BY <5>1, <5>2
      <4>5. QED
        BY <4>3, <4>4 DEF ChainIdsAreExclusive
    <3>16. SweptAreResponsive'
      BY <2>1, <3>1, <3>3 DEF SweptAreResponsive, In
    <3>17. QED
      BY <3>11, <3>12, <3>13, <3>14, <3>15, <3>16 DEF SchedulesMatchPhases
  <2>11. [cons[c] EXCEPT !.client = IF declare THEN cons[c].chainId ELSE @]
           = [cons[c] EXCEPT !.client = k]
    BY <2>3, <2>4 DEF Record
  <2>12. QED
    BY <1>13, <2>9, <2>10, <2>11 DEF UpdateConsumer
<1>14. ASSUME NEW c \in Consumers, ResumeConsumerChain(c)
       PROVE  IInv'
  <2> DEFINE r == [cons[c] EXCEPT !.phase = "LAUNCHED", !.pauseReason = "none",
                                  !.pausedAt = 0, !.pauseExpiration = 0, !.lastAck = now]
  <2>1. /\ cons[c].phase = "PAUSED"
        /\ pauseQueue' = CancelConsumerPauseExpiration(pauseQueue, {c})
        /\ UNCHANGED <<now, stage, halted, launchQueue, removalQueue, external, contained>>
    BY <1>14 DEF ResumeConsumerChain, Resumed
  <2>2. cons[c] \in Record /\ pauseQueue \in Queue
    BY DEF TypeOK
  <2>3. cons' = [cons EXCEPT ![c] = r]
    BY <1>14, <2>2 DEF ResumeConsumerChain, Resumed, TypeOK, Record
  <2>4. /\ r \in Record /\ r.phase = "LAUNCHED" /\ r.lastAck = now
        /\ r.chainId = cons[c].chainId /\ r.client = cons[c].client
    BY <2>2, TimeFacts DEF Record, Phases, Reasons
  <2> HIDE DEF r
  <2>5. /\ cons' \in [Consumers -> Record] /\ cons'[c] = r
        /\ \A d \in Consumers : d # c => cons'[d] = cons[d]
    BY <2>3, <2>4 DEF TypeOK
  <2>6. /\ pauseQueue' \in Queue
        /\ \A u \in Times, d \in Consumers :
             pauseQueue'[u][d] =
               IF d \in {c} /\ u = cons[d].pauseExpiration /\ u # 0 /\ pauseQueue[u][d] > 0
               THEN pauseQueue[u][d] - 1 ELSE pauseQueue[u][d]
    BY <2>1, <2>2, CancelFacts
  <2>7. TypeOK'
    BY <2>1, <2>5, <2>6 DEF TypeOK, external
  <2>8. Schedules(launchQueue, "INITIALIZED", SpawnTimeOf)'
    BY <2>1, <2>4, <2>5 DEF SchedulesMatchPhases, Schedules, SpawnTimeOf
  <2>9. Schedules(removalQueue, "STOPPED", RemovalTimeOf)'
    BY <2>1, <2>4, <2>5 DEF SchedulesMatchPhases, Schedules, RemovalTimeOf
  <2>10. Schedules(pauseQueue, "PAUSED", PauseExpirationOf)'
    <3>1. /\ cons[c].pauseExpiration # 0
          /\ \A u \in Times, d \in Consumers :
               pauseQueue[u][d] =
                 IF cons[d].phase = "PAUSED" /\ u = cons[d].pauseExpiration THEN 1 ELSE 0
      BY <2>1 DEF SchedulesMatchPhases, Schedules, PauseExpirationOf
    <3>2. \A u \in Times : pauseQueue'[u][c] = 0
      BY <2>1, <2>6, <3>1
    <3>3. \A u \in Times, d \in Consumers :
            d # c => pauseQueue'[u][d] = pauseQueue[u][d] /\ cons'[d] = cons[d]
      BY <2>5, <2>6
    <3>4. QED
      BY <2>4, <2>5, <3>2, <3>3 DEF SchedulesMatchPhases, Schedules, PauseExpirationOf
  <2>11. ChainIdsAreExclusive'
    BY <2>1, <2>4, <2>5 DEF ChainIdsAreExclusive
  <2>12. SweptAreResponsive'
    <3>1. now' = now /\ stage' = stage /\ now - now <= Grace
      BY <2>1, TimeFacts, ConstantsAssumption
    <3>2. cons'[c].lastAck = now
      BY <2>4, <2>5
    <3>3. QED
      BY <2>5, <3>1, <3>2 DEF SweptAreResponsive, In
  <2>13. QED
    BY <2>7, <2>8, <2>9, <2>10, <2>11, <2>12 DEF SchedulesMatchPhases
<1>15. ASSUME NEW c \in Consumers, OnAcknowledgementPacketV2(c)
       PROVE  IInv'
  <2> DEFINE r == [cons[c] EXCEPT !.lastAck = now]
  <2>1. UNCHANGED <<now, stage, halted, queues, external, contained>>
    BY <1>15 DEF OnAcknowledgementPacketV2
  <2>2. cons[c] \in Record
    BY DEF TypeOK
  <2>3. cons' = [cons EXCEPT ![c] = r]
    BY <1>15, <2>2 DEF OnAcknowledgementPacketV2, TypeOK
  <2>4. /\ r \in Record /\ r.lastAck = now /\ r.phase = cons[c].phase
        /\ r.chainId = cons[c].chainId /\ r.client = cons[c].client
        /\ r.spawnTime = cons[c].spawnTime /\ r.removalTime = cons[c].removalTime
        /\ r.pauseExpiration = cons[c].pauseExpiration
    BY <2>2, TimeFacts DEF Record
  <2> HIDE DEF r
  <2>5. /\ cons' \in [Consumers -> Record] /\ cons'[c] = r
        /\ \A d \in Consumers : d # c => cons'[d] = cons[d]
    BY <2>3, <2>4 DEF TypeOK
  <2>6. TypeOK'
    BY <2>1, <2>5 DEF TypeOK, queues, external
  <2>7. SchedulesMatchPhases'
    BY <2>1, <2>4, <2>5 DEF queues, SchedulesMatchPhases, Schedules, SpawnTimeOf,
                            RemovalTimeOf, PauseExpirationOf
  <2>8. ChainIdsAreExclusive'
    BY <2>4, <2>5 DEF ChainIdsAreExclusive
  <2>9. SweptAreResponsive'
    BY <2>1, <2>4, <2>5, TimeFacts, ConstantsAssumption DEF SweptAreResponsive, In
  <2>10. QED
    BY <2>6, <2>7, <2>8, <2>9
<1>16. ASSUME UNCHANGED <<now, stage, halted, cons, queues>>, TypeOK'
       PROVE  IInv'
  BY <1>16 DEF queues, SchedulesMatchPhases, Schedules, SpawnTimeOf, RemovalTimeOf,
               PauseExpirationOf, ChainIdsAreExclusive, SweptAreResponsive, In
<1>17. ASSUME NEW i \in Forkable, Client(i)
       PROVE  IInv'
  <2>1. UNCHANGED <<now, stage, halted, cons, queues>>
    BY <1>17 DEF Client, Fork, ReportFork, ExpireClient, RecoverClient
  <2>2. status' \in [ChainIds -> Statuses]
    BY <1>17, ConstantsAssumption
    DEF Client, Fork, ReportFork, ExpireClient, RecoverClient, TypeOK, Statuses
  <2>3. forkAt' \in [ChainIds -> Nat]
    <3>1. \A ts \in now .. (now + MaxClockDrift) : ts \in Nat
      BY TimeFacts, ConstantsAssumption
    <3>2. QED
      BY <1>17, <3>1 DEF Client, Fork, ReportFork, ExpireClient, RecoverClient, TypeOK
  <2>4. contained' \in [ChainIds -> BOOLEAN]
    <3>1. \/ contained' = [contained EXCEPT ![i] = FALSE]
          \/ contained' = contained
      BY <1>17 DEF Client, Fork, ReportFork, ExpireClient, RecoverClient
    <3>2. contained \in [ChainIds -> BOOLEAN]
      BY DEF TypeOK
    <3>3. QED
      BY <3>1, <3>2, Zenon
  <2>5. TypeOK'
    BY <2>1, <2>2, <2>3, <2>4 DEF TypeOK, queues
  <2>6. QED
    BY <1>16, <2>1, <2>5
<1>18. CASE UNCHANGED vars
  <2>1. TypeOK'
    BY <1>18 DEF TypeOK, vars, queues, external
  <2>2. QED
    BY <1>16, <1>18, <2>1 DEF vars
<1>19. QED
  <2>1. ASSUME NEW c \in Consumers, Message(c)
        PROVE  IInv'
    BY <1>8, <1>9, <1>10, <1>11, <1>12, <1>13, <1>14, <1>15, <2>1 DEF Message
  <2>2. CASE BeginBlock
    BY <1>1, <1>2, <1>3, <1>4, <1>5, <1>6, <2>2 DEF BeginBlock
  <2>3. QED
    BY <1>7, <1>17, <1>18, <2>1, <2>2 DEF Next

\* The invariant holds throughout.
THEOREM Invariance == Spec => []IInv
<1>1. QED
  BY InitEstablishes, StepPreserves, PTL DEF Spec

\* Every variable keeps its type: block times, phases and the consumers' records
\* stay in range, and no queue counter ever goes below zero.
THEOREM TypeCorrect == Spec => []TypeOK
<1>1. IInv => TypeOK
  BY DEF IInv
<1>2. QED
  BY Invariance, <1>1, PTL

\* For any number of consumers, any limit per block and any periods: the spawn-time,
\* removal-time and pause-expiration queues of keeper.go agree with the consumers'
\* phases after every handler, every sweep and every restart.
THEOREM SchedulesAgree == Spec => []SchedulesMatchPhases
<1>1. IInv => SchedulesMatchPhases
  BY DEF IInv
<1>2. QED
  BY Invariance, <1>1, PTL

\* ChainIdInUse and the client index keep chain ids and clients exclusive, however
\* creations, updates and erasures alternate.
THEOREM ChainIdsExclusive == Spec => []ChainIdsAreExclusive
<1>1. IInv => ChainIdsAreExclusive
  BY DEF IInv
<1>2. QED
  BY Invariance, <1>1, PTL

\* After BeginBlock no consumer that has been silent for longer than the liveness
\* grace period is LAUNCHED, whatever the order of resumes and acknowledgements.
THEOREM Responsive == Spec => []LaunchedAreResponsive
<1>1. IInv => LaunchedAreResponsive
  BY DEF IInv, SweptAreResponsive, LaunchedAreResponsive
<1>2. QED
  BY Invariance, <1>1, PTL

(***************************************************************************)
(* Forks and frozen clients.                                               *)
(***************************************************************************)
\* Between the sweep for frozen clients and the one for silent consumers nothing happens.
LEMMA StepKeepsFrozenPaused == IInv /\ FrozenArePaused /\ [Next]_vars => FrozenArePaused'
<1> SUFFICES ASSUME IInv, FrozenArePaused, [Next]_vars, stage' = "sweep"
             PROVE  \A c \in Consumers : cons'[c].phase = "LAUNCHED" => ~HasFrozenClient(c)'
  BY DEF FrozenArePaused, In
<1>1. CASE PauseConsumersWithFrozenClients
  <2> DEFINE S == {c \in In("LAUNCHED") : HasFrozenClient(c)}
             P(r) == [r EXCEPT !.phase = "PAUSED", !.pauseReason = "fork",
                               !.pausedAt = now, !.pauseExpiration = now + MaxPause]
  <2>1. cons' = [c \in Consumers |-> IF c \in S THEN P(cons[c]) ELSE cons[c]]
    BY <1>1 DEF PauseConsumersWithFrozenClients, PauseConsumerChain, Becomes
  <2>2. status' = status
    BY <1>1 DEF PauseConsumersWithFrozenClients, external
  <2>3. \A c \in S : cons'[c].phase = "PAUSED"
    BY <2>1 DEF IInv, TypeOK, Record, In
  <2>4. \A c \in Consumers : c \notin S => cons'[c] = cons[c]
    BY <2>1
  <2> QED BY <2>2, <2>3, <2>4 DEF In, HasFrozenClient
<1>2. CASE UNCHANGED vars
  BY <1>2 DEF vars, external, FrozenArePaused, In, HasFrozenClient
<1>3. CASE \/ StartBlock \/ BeginBlockLaunchConsumers \/ BeginBlockRemoveConsumers
           \/ SweepUnresponsiveConsumers \/ BeginBlockAutoStopPausedConsumers
  BY <1>3 DEF StartBlock, BeginBlockLaunchConsumers, BeginBlockRemoveConsumers,
              SweepUnresponsiveConsumers, BeginBlockAutoStopPausedConsumers
<1>4. CASE InitGenesis
  BY <1>4 DEF InitGenesis, Deliver
<1>5. ASSUME NEW c \in Consumers, Message(c) PROVE FALSE
  BY <1>5 DEF Message, Deliver, CreateConsumer, UpdateConsumer, RemovePrelaunched, RemoveLaunched,
              HandleChallengeConsumerDowntime, HandleConsumerMisbehaviour, ResumeConsumerChain,
              OnAcknowledgementPacketV2
<1>6. ASSUME NEW i \in Forkable, Client(i) PROVE FALSE
  BY <1>6 DEF Client, Deliver, Fork, ReportFork, ExpireClient, RecoverClient
<1> QED BY <1>1, <1>2, <1>3, <1>4, <1>5, <1>6 DEF Next, BeginBlock

\* The liveness sweep never takes a consumer whose client is frozen for a dead one.
THEOREM ForksAreNotMistaken == Spec => ForkIsNotMistakenForDeath
<1>1. Init => FrozenArePaused
  BY DEF Init, FrozenArePaused
<1>2. FrozenArePaused /\ [Next]_vars =>
        [\A c \in Consumers :
           stage = "sweep" /\ cons[c].phase = "LAUNCHED" /\ cons'[c].phase = "STOPPED"
             => ~HasFrozenClient(c)]_vars
  BY DEF FrozenArePaused, In
<1> QED BY <1>1, <1>2, Invariance, StepKeepsFrozenPaused, PTL DEF Spec, ForkIsNotMistakenForDeath

\* What a step that accounts for no fork may do: a consumer held down stays so until the
\* fork is over, a client that is taken up is not frozen, and only a fork that can be
\* proved freezes one.
LEMMA OrdinaryStep ==
  ASSUME IInv, IInv', ContainedForksAreOver, now <= now', UNCHANGED <<forkAt, contained>>,
         \A i \in ChainIds, c \in Consumers : HeldDown(c, i) =>
           \/ HeldDown(c, i)'
           \/ ~Verifiable(i)' /\ (status'[i] = "Frozen" => \A d \in Consumers : cons'[d].client # i),
         \A i \in ChainIds, c \in Consumers :
           cons'[c].client = i => cons[c].client = i \/ status'[i] # "Frozen",
         \A i \in ChainIds : status'[i] = "Frozen" => status[i] = "Frozen" \/ Verifiable(i)
  PROVE  ContainedForksAreOver'
<1> SUFFICES ASSUME NEW i \in ChainIds
             PROVE  /\ forkAt'[i] <= now' + MaxClockDrift
                    /\ contained'[i] =>
                         \/ \E c \in Consumers : HeldDown(c, i)'
                         \/ /\ ~Verifiable(i)'
                            /\ status'[i] = "Frozen" => \A c \in Consumers : cons'[c].client # i
  BY DEF ContainedForksAreOver
<1>1. now \in Nat /\ now' \in Nat /\ forkAt[i] \in Nat /\ MaxClockDrift \in Nat /\ Trusting \in Nat
  BY ConstantsAssumption DEF IInv, TypeOK
<1>2. forkAt[i] <= now + MaxClockDrift
  BY DEF ContainedForksAreOver
<1>3. forkAt'[i] <= now' + MaxClockDrift
  BY <1>1, <1>2
<1>4. ~Verifiable(i) => ~Verifiable(i)'
  BY <1>1 DEF Verifiable
<1>5. CASE contained[i] /\ \E c \in Consumers : HeldDown(c, i)
  BY <1>3, <1>5
<1>6. CASE ~Verifiable(i) /\ (status[i] = "Frozen" => \A c \in Consumers : cons[c].client # i)
  BY <1>3, <1>4, <1>6
<1> QED BY <1>3, <1>5, <1>6 DEF ContainedForksAreOver

\* Whoever is paused for a fork is held down; whoever was already stays so.
LEMMA ForkPause ==
  ASSUME IInv, ContainedForksAreOver, UNCHANGED <<now, forkAt>>,
         NEW S \in SUBSET Consumers, \A c \in S : cons[c].phase = "LAUNCHED",
         PauseConsumerChain(S, "fork"), Containing(S),
         \A i \in ChainIds : status'[i] = "Frozen" => status[i] = "Frozen" \/ Verifiable(i)
  PROVE  ContainedForksAreOver'
<1> DEFINE P(r) == [r EXCEPT !.phase = "PAUSED", !.pauseReason = "fork",
                             !.pausedAt = now, !.pauseExpiration = now + MaxPause]
<1>1. cons' = [c \in Consumers |-> IF c \in S THEN P(cons[c]) ELSE cons[c]]
  BY DEF PauseConsumerChain, Becomes
<1>2. \A c \in S : /\ cons'[c].phase = "PAUSED" /\ cons'[c].pauseReason = "fork"
                   /\ cons'[c].pausedAt = now /\ cons'[c].client = cons[c].client
  BY <1>1 DEF IInv, TypeOK, Record
<1>3. \A c \in Consumers : c \notin S => cons'[c] = cons[c]
  BY <1>1
<1> HIDE DEF P
<1> SUFFICES ASSUME NEW i \in ChainIds
             PROVE  /\ forkAt'[i] <= now' + MaxClockDrift
                    /\ contained'[i] =>
                         \/ \E c \in Consumers : HeldDown(c, i)'
                         \/ /\ ~Verifiable(i)'
                            /\ status'[i] = "Frozen" => \A c \in Consumers : cons'[c].client # i
  BY DEF ContainedForksAreOver
<1>4. forkAt[i] <= now + MaxClockDrift
  BY DEF ContainedForksAreOver
<1>5. CASE \E c \in S : cons[c].client = i
  <2>1. PICK c \in S : cons[c].client = i
    BY <1>5
  <2>2. HeldDown(c, i)'
    BY <1>2, <1>4, <2>1 DEF HeldDown
  <2> QED BY <1>4, <2>2
<1>6. CASE contained[i] /\ \E c \in Consumers : HeldDown(c, i)
  <2>1. PICK c \in Consumers : HeldDown(c, i)
    BY <1>6
  <2>2. c \notin S
    BY <2>1 DEF HeldDown
  <2>3. HeldDown(c, i)'
    BY <1>3, <2>1, <2>2 DEF HeldDown
  <2> QED BY <1>4, <2>3
<1>7. CASE /\ \A c \in S : cons[c].client # i
           /\ ~Verifiable(i) /\ (status[i] = "Frozen" => \A c \in Consumers : cons[c].client # i)
  <2>1. ~Verifiable(i)'
    BY <1>7 DEF Verifiable
  <2>2. \A c \in Consumers : cons'[c].client = cons[c].client
    BY <1>2, <1>3
  <2> QED BY <1>4, <1>7, <2>1, <2>2
<1>8. contained'[i] = (contained[i] \/ \E c \in S : cons[c].client = i)
  BY DEF Containing
<1> QED BY <1>4, <1>5, <1>6, <1>7, <1>8 DEF ContainedForksAreOver

\* A step that leaves paused and stopped consumers alone keeps all that are held down.
LEMMA DownStaysDown ==
  ASSUME UNCHANGED forkAt, NEW i \in ChainIds, NEW c \in Consumers, HeldDown(c, i),
         cons[c].phase \in {"PAUSED", "STOPPED"} => cons'[c] = cons[c]
  PROVE  HeldDown(c, i)'
  BY DEF HeldDown

\* A paused or running consumer that stops is erased after the fork is over.
LEMMA StopHoldsDown ==
  ASSUME IInv, ContainedForksAreOver, UNCHANGED <<now, external, contained>>,
         NEW S \in SUBSET Consumers, NEW q, StopAndPrepareForConsumerRemoval(S, q), IInv'
  PROVE  ContainedForksAreOver'
<1> DEFINE P(r) == [r EXCEPT !.phase = "STOPPED", !.pauseExpiration = 0,
                             !.pauseReason = "none", !.pausedAt = 0,
                             !.removalTime = now + Unbonding]
<1>1. cons' = [c \in Consumers |-> IF c \in S THEN P(cons[c]) ELSE cons[c]]
  BY DEF StopAndPrepareForConsumerRemoval, Becomes
<1>2. \A c \in S : /\ cons'[c].phase = "STOPPED" /\ cons'[c].removalTime = now + Unbonding
                   /\ cons'[c].client = cons[c].client
  BY <1>1 DEF IInv, TypeOK, Record
<1>3. \A c \in Consumers : c \notin S => cons'[c] = cons[c]
  BY <1>1
<1> HIDE DEF P
<1>4. ASSUME NEW i \in ChainIds, NEW c \in Consumers, HeldDown(c, i) PROVE HeldDown(c, i)'
  <2>1. CASE c \in S
    <3>1. forkAt[i] <= now + MaxClockDrift /\ forkAt' = forkAt
      BY DEF ContainedForksAreOver, external
    <3>2. now \in Nat /\ forkAt[i] \in Nat /\ MaxClockDrift \in Nat /\ Unbonding \in Nat
      BY ConstantsAssumption DEF IInv, TypeOK
    <3>3. forkAt[i] + Unbonding <= (now + Unbonding) + MaxClockDrift
      BY <3>1, <3>2
    <3> QED BY <1>2, <1>4, <2>1, <3>1, <3>3 DEF HeldDown
  <2>2. CASE c \notin S
    BY <1>3, <1>4, <2>2, DownStaysDown DEF external
  <2> QED BY <2>1, <2>2
<1>5. \A c \in Consumers : cons'[c].client = cons[c].client
  BY <1>2, <1>3
<1>6. now <= now'
  BY DEF IInv, TypeOK
<1> QED BY <1>4, <1>5, <1>6, OrdinaryStep DEF external

\* A consumer erased when it is due was stopped an unbonding period ago.
LEMMA ErasureEndsForks ==
  ASSUME ErasureOutlastsForks, IInv, IInv', ContainedForksAreOver, BeginBlockRemoveConsumers
  PROVE  ContainedForksAreOver'
<1> USE ConstantsAssumption
<1>0. UNCHANGED <<now, external, contained>>
  BY DEF BeginBlockRemoveConsumers
<1>1. PICK T \in SUBSET Due(removalQueue) : DeleteConsumerChain({c \in T : Deletable(c)})
  BY DEF BeginBlockRemoveConsumers
<1> DEFINE S == {c \in T : Deletable(c)}
           P(r) == [r EXCEPT !.phase = "DELETED", !.chainId = NoChain,
                             !.client = NoChain, !.removalTime = 0, !.lastAck = 0,
                             !.pauseReason = "none", !.pausedAt = 0]
<1>2. cons' = [c \in Consumers |-> IF c \in S THEN P(cons[c]) ELSE cons[c]]
  BY <1>1 DEF DeleteConsumerChain, Becomes
<1>3. \A c \in S : /\ c \in Consumers /\ cons'[c].client = NoChain
                   /\ cons[c].phase = "STOPPED" /\ cons[c].removalTime <= now
  <2>1. \A c \in S : c \in Due(removalQueue) /\ c \in Consumers
    BY DEF Due
  <2>2. \A r \in Record : P(r).client = NoChain
    BY DEF Record
  <2>3. \A c \in S : cons'[c] = P(cons[c]) /\ cons[c] \in Record
    BY <1>2, <2>1 DEF IInv, TypeOK
  <2> HIDE DEF P, S
  <2>4. \A c \in S : cons'[c].client = NoChain
    BY <2>2, <2>3
  <2> QED BY <2>1, <2>4, DueFacts
<1>4. \A c \in Consumers : c \notin S => cons'[c] = cons[c]
  BY <1>2
<1> HIDE DEF P, S
<1>5. ASSUME NEW i \in ChainIds, NEW c \in Consumers, HeldDown(c, i)
      PROVE  \/ HeldDown(c, i)'
             \/ ~Verifiable(i)' /\ (status'[i] = "Frozen" => \A d \in Consumers : cons'[d].client # i)
  <2>1. CASE c \in S
    <3>1. forkAt[i] + Unbonding <= cons[c].removalTime + MaxClockDrift /\ cons[c].client = i
      BY <1>3, <1>5, <2>1 DEF HeldDown
    <3>2. /\ now \in Nat /\ forkAt[i] \in Nat /\ MaxClockDrift \in Nat /\ Unbonding \in Nat
          /\ Trusting \in Nat /\ cons[c].removalTime \in Nat
      BY DEF IInv, TypeOK, Record, Times
    <3>3. ~(now < forkAt[i] + Trusting)
      BY <1>3, <2>1, <3>1, <3>2 DEF ErasureOutlastsForks
    <3>4. ~Verifiable(i)'
      BY <1>0, <3>3 DEF Verifiable, external
    <3>5. \A d \in Consumers : cons'[d].client # i
      BY <1>3, <1>4, <2>1, <3>1 DEF IInv, ChainIdsAreExclusive
    <3> QED BY <3>4, <3>5
  <2>2. CASE c \notin S
    BY <1>0, <1>4, <1>5, <2>2, DownStaysDown DEF external
  <2> QED BY <2>1, <2>2
<1>6. \A i \in ChainIds, c \in Consumers : cons'[c].client = i => cons[c].client = i
  BY <1>3, <1>4
<1>7. now <= now'
  BY <1>0 DEF IInv, TypeOK
<1> QED BY <1>0, <1>5, <1>6, <1>7, OrdinaryStep DEF external

\* A consumer paused for a fork resumes when the fork is over, with an active client.
LEMMA ResumeIsAfterForks ==
  ASSUME IInv, IInv', ContainedForksAreOver, NEW c \in Consumers, ResumeConsumerChain(c)
  PROVE  ContainedForksAreOver'
<1> USE ConstantsAssumption
<1>0. UNCHANGED <<now, external, contained>> /\ cons[c].phase = "PAUSED"
  BY DEF ResumeConsumerChain
<1>1. /\ status[cons[c].client] = "Active"
      /\ cons[c].pauseReason = "fork" => now >= cons[c].pausedAt + Trusting + MaxClockDrift
  BY DEF ResumeConsumerChain, ForkEvidenceExpired
<1>2. /\ cons'[c].client = cons[c].client
      /\ \A d \in Consumers : d # c => cons'[d] = cons[d]
  BY DEF ResumeConsumerChain, Resumed, IInv, TypeOK, Record
<1>3. ASSUME NEW i \in ChainIds, NEW d \in Consumers, HeldDown(d, i)
      PROVE  \/ HeldDown(d, i)'
             \/ ~Verifiable(i)' /\ (status'[i] = "Frozen" => \A e \in Consumers : cons'[e].client # i)
  <2>1. CASE d = c
    <3>1. /\ cons[c].pauseReason = "fork" /\ forkAt[i] <= cons[c].pausedAt + MaxClockDrift
          /\ cons[c].client = i
      BY <1>0, <1>3, <2>1 DEF HeldDown
    <3>2. /\ now \in Nat /\ forkAt[i] \in Nat /\ MaxClockDrift \in Nat
          /\ Trusting \in Nat /\ cons[c].pausedAt \in Nat
      BY DEF IInv, TypeOK, Record, Times
    <3>3. ~(now < forkAt[i] + Trusting)
      BY <1>1, <3>1, <3>2
    <3>4. ~Verifiable(i)'
      BY <1>0, <3>3 DEF Verifiable, external
    <3> QED BY <1>0, <1>1, <3>1, <3>4 DEF external
  <2>2. CASE d # c
    BY <1>0, <1>2, <1>3, <2>2, DownStaysDown DEF external
  <2> QED BY <2>1, <2>2
<1>4. now <= now'
  BY <1>0 DEF IInv, TypeOK
<1> QED BY <1>0, <1>2, <1>3, <1>4, OrdinaryStep DEF external

LEMMA StepKeepsContained ==
  ErasureOutlastsForks /\ IInv /\ ContainedForksAreOver /\ [Next]_vars => ContainedForksAreOver'
<1> SUFFICES ASSUME ErasureOutlastsForks, IInv, ContainedForksAreOver, [Next]_vars
             PROVE  ContainedForksAreOver'
  OBVIOUS
<1> USE ConstantsAssumption
<1>i. IInv'
  BY StepPreserves
<1>t. /\ now \in Nat /\ now' \in Nat /\ cons \in [Consumers -> Record]
      /\ status \in [ChainIds -> Statuses] /\ forkAt \in [ChainIds -> Nat]
  BY <1>i DEF IInv, TypeOK
\* A step of clients and consumers that leaves whoever is down alone.
<1>1. ASSUME now <= now', UNCHANGED <<forkAt, contained>>,
             \A c \in Consumers : cons[c].phase \in {"PAUSED", "STOPPED"} =>
               cons'[c] = cons[c] \/ cons'[c] = [cons[c] EXCEPT !.lastAck = now],
             \A i \in ChainIds, c \in Consumers :
               cons'[c].client = i => cons[c].client = i \/ status'[i] # "Frozen",
             \A i \in ChainIds : status'[i] = "Frozen" => status[i] = "Frozen" \/ Verifiable(i)
      PROVE  ContainedForksAreOver'
  <2>1. ASSUME NEW i \in ChainIds, NEW c \in Consumers, HeldDown(c, i) PROVE HeldDown(c, i)'
    <3>1. cons[c].phase \in {"PAUSED", "STOPPED"} /\ cons[c] \in Record
      BY <1>t, <2>1 DEF HeldDown
    <3>2. /\ cons'[c].phase = cons[c].phase /\ cons'[c].client = cons[c].client
          /\ cons'[c].pauseReason = cons[c].pauseReason /\ cons'[c].pausedAt = cons[c].pausedAt
          /\ cons'[c].removalTime = cons[c].removalTime
      BY <1>1, <3>1 DEF Record
    <3> QED BY <1>1, <2>1, <3>2 DEF HeldDown
  <2> QED BY <1>1, <1>i, <2>1, OrdinaryStep
<1>2. CASE StartBlock
  <2>1. now <= now' /\ UNCHANGED <<cons, status, forkAt, contained>>
    BY <1>2, <1>t DEF StartBlock, external
  <2> QED BY <1>1, <2>1
<1>3. CASE BeginBlockLaunchConsumers
  <2>1. PICK T \in SUBSET Due(launchQueue), failed \in SUBSET Consumers :
          /\ failed \subseteq T
          /\ \/ cons' = cons
             \/ cons' = [c \in Consumers |->
                  IF c \in failed
                  THEN [cons[c] EXCEPT !.phase = "REGISTERED", !.spawnTime = 0]
                  ELSE IF c \in T
                  THEN [cons[c] EXCEPT !.phase = "LAUNCHED", !.lastAck = now]
                  ELSE cons[c]]
    BY <1>3 DEF BeginBlockLaunchConsumers, Due
  <2> DEFINE F(r) == [r EXCEPT !.phase = "REGISTERED", !.spawnTime = 0]
             L(r) == [r EXCEPT !.phase = "LAUNCHED", !.lastAck = now]
  <2>a. \A r \in Record : F(r).client = r.client /\ L(r).client = r.client
    BY DEF Record
  <2>b. \/ cons' = cons
        \/ cons' = [c \in Consumers |-> IF c \in failed THEN F(cons[c])
                                      ELSE IF c \in T THEN L(cons[c]) ELSE cons[c]]
    BY <2>1
  <2> HIDE DEF F, L
  <2>2. ASSUME NEW c \in Consumers
        PROVE  cons'[c].client = cons[c].client /\ (c \notin T => cons'[c] = cons[c])
    <3>1. \/ cons'[c] = cons[c]
          \/ c \in T /\ (cons'[c] = F(cons[c]) \/ cons'[c] = L(cons[c]))
      BY <2>1, <2>b
    <3>2. cons[c] \in Record
      BY <1>t
    <3> QED BY <2>a, <3>1, <3>2
  <2>3. \A c \in Consumers : cons[c].phase \in {"PAUSED", "STOPPED"} => cons'[c] = cons[c]
    BY <2>2, DueFacts
  <2>4. UNCHANGED <<now, status, forkAt, contained>>
    BY <1>3 DEF BeginBlockLaunchConsumers, external
  <2> QED BY <1>1, <1>t, <2>2, <2>3, <2>4
<1>4. CASE BeginBlockRemoveConsumers
  BY <1>4, <1>i, ErasureEndsForks
<1>5. CASE PauseConsumersWithFrozenClients
  <2>1. LET S == {c \in In("LAUNCHED") : HasFrozenClient(c)}
        IN  PauseConsumerChain(S, "fork") /\ Containing(S)
    BY <1>5 DEF PauseConsumersWithFrozenClients
  <2>2. UNCHANGED <<now, status, forkAt>>
    BY <1>5 DEF PauseConsumersWithFrozenClients, external
  <2> QED BY <2>1, <2>2, ForkPause DEF In
<1>6. CASE SweepUnresponsiveConsumers
  BY <1>6, <1>i, StopHoldsDown DEF SweepUnresponsiveConsumers, In
<1>7. CASE BeginBlockAutoStopPausedConsumers
  <2>1. PICK T : StopAndPrepareForConsumerRemoval(T \cap In("PAUSED"), Consumed(pauseQueue, T))
    BY <1>7 DEF BeginBlockAutoStopPausedConsumers
  <2>2. T \cap In("PAUSED") \in SUBSET Consumers
    BY DEF In
  <2>3. UNCHANGED <<now, external, contained>>
    BY <1>7 DEF BeginBlockAutoStopPausedConsumers
  <2> QED BY <1>i, <2>1, <2>2, <2>3, StopHoldsDown
<1>8. CASE InitGenesis \/ UNCHANGED vars
  <2>1. UNCHANGED <<now, cons, status, forkAt, contained>>
    BY <1>8 DEF InitGenesis, vars, external
  <2> QED BY <1>1, <1>t, <2>1
<1>9. ASSUME NEW c \in Consumers, Message(c) PROVE ContainedForksAreOver'
  <2>1. ASSUME UNCHANGED <<now, external, contained>>,
               \A d \in Consumers : d # c => cons'[d] = cons[d],
               cons[c].phase \in {"PAUSED", "STOPPED"} => cons'[c] = [cons[c] EXCEPT !.lastAck = now],
               \A i \in ChainIds : cons'[c].client = i => cons[c].client = i \/ status[i] # "Frozen"
        PROVE  ContainedForksAreOver'
    <3>1. \A i \in ChainIds, d \in Consumers :
            cons'[d].client = i => cons[d].client = i \/ status'[i] # "Frozen"
      BY <2>1 DEF external
    <3>2. UNCHANGED <<now, status, forkAt, contained>>
      BY <2>1 DEF external
    <3> QED BY <1>1, <1>t, <2>1, <3>1, <3>2
  <2>2. ASSUME NEW i \in ChainIds, NEW t \in SpawnTimes, CreateConsumer(c, i, t)
        PROVE  ContainedForksAreOver'
    <3>1. cons'[c].client = NoChain
      BY <1>t, <2>2 DEF CreateConsumer, Unregistered
    <3> QED BY <1>t, <2>1, <2>2, <3>1 DEF CreateConsumer
  <2>3. ASSUME NEW declare \in BOOLEAN, NEW params \in BOOLEAN, NEW i \in ChainIds,
               NEW t \in SpawnTimes, UpdateConsumer(c, declare, i, params, t)
        PROVE  ContainedForksAreOver'
    <3>1. cons[c].phase \notin {"PAUSED", "STOPPED"} /\ UNCHANGED <<now, external, contained>>
      BY <2>3 DEF UpdateConsumer, Prelaunched
    <3>2. /\ \A d \in Consumers : d # c => cons'[d] = cons[d]
          /\ cons'[c].client = IF declare THEN cons[c].chainId ELSE cons[c].client
      <4> DEFINE declared == [cons[c] EXCEPT !.client = IF declare THEN cons[c].chainId ELSE @]
      <4>1. \/ cons' = [cons EXCEPT ![c] = declared]
            \/ cons' = [cons EXCEPT ![c] =
                 [declared EXCEPT !.chainId = i, !.spawnTime = t,
                    !.revision = IF params THEN Revision[i] ELSE @,
                    !.phase = IF t = 0 THEN "REGISTERED" ELSE "INITIALIZED"]]
        BY <2>3 DEF UpdateConsumer
      <4>2. cons[c] \in Record
        BY <1>t
      <4>3. declared.client = IF declare THEN cons[c].chainId ELSE cons[c].client
        BY <4>2 DEF Record
      <4>4. [declared EXCEPT !.chainId = i, !.spawnTime = t,
               !.revision = IF params THEN Revision[i] ELSE @,
               !.phase = IF t = 0 THEN "REGISTERED" ELSE "INITIALIZED"].client = declared.client
        BY <4>2 DEF Record
      <4> HIDE DEF declared
      <4>5. cons'[c].client = declared.client
        BY <1>t, <4>1, <4>4
      <4>6. \A d \in Consumers : d # c => cons'[d] = cons[d]
        BY <1>t, <4>1
      <4> QED BY <4>3, <4>5, <4>6
    <3>3. declare => status[cons[c].chainId] = "Active"
      BY <2>3 DEF UpdateConsumer, SetConsumerClient
    <3> QED BY <2>1, <3>1, <3>2, <3>3
  <2>4. CASE RemovePrelaunched(c)
    <3>1. cons[c].phase \notin {"PAUSED", "STOPPED"} /\ UNCHANGED <<now, external, contained>>
      BY <2>4 DEF RemovePrelaunched, Prelaunched
    <3>2. /\ \A d \in Consumers : d # c => cons'[d] = cons[d]
          /\ cons'[c].client = NoChain
      BY <1>t, <2>4 DEF RemovePrelaunched, DeleteConsumerChain, Becomes, Record
    <3> QED BY <2>1, <3>1, <3>2
  <2>5. CASE RemoveLaunched(c)
    BY <1>i, <2>5, StopHoldsDown DEF RemoveLaunched
  <2>6. CASE HandleChallengeConsumerDowntime(c)
    <3>1. cons[c].phase \notin {"PAUSED", "STOPPED"} /\ UNCHANGED <<now, external, contained>>
      BY <2>6 DEF HandleChallengeConsumerDowntime
    <3>2. /\ \A d \in Consumers : d # c => cons'[d] = cons[d]
          /\ cons'[c].client = cons[c].client
      BY <1>t, <2>6 DEF HandleChallengeConsumerDowntime, PauseConsumerChain, Becomes, Record
    <3> QED BY <2>1, <3>1, <3>2
  <2>7. CASE HandleConsumerMisbehaviour(c)
    <3>1. /\ PauseConsumerChain({c}, "fork") /\ Containing({c}) /\ UNCHANGED <<now, forkAt>>
          /\ cons[c].phase = "LAUNCHED" /\ Verifiable(cons[c].client)
          /\ status' = [status EXCEPT ![cons[c].client] = IF @ = "Active" THEN "Frozen" ELSE @]
      BY <2>7 DEF HandleConsumerMisbehaviour
    <3>2. \A i \in ChainIds : status'[i] = "Frozen" => status[i] = "Frozen" \/ Verifiable(i)
      BY <1>t, <3>1
    <3> QED BY <3>1, <3>2, ForkPause
  <2>8. CASE ResumeConsumerChain(c)
    BY <1>i, <2>8, ResumeIsAfterForks
  <2>9. CASE OnAcknowledgementPacketV2(c)
    <3>1. /\ UNCHANGED <<now, external, contained>>
          /\ \A d \in Consumers : d # c => cons'[d] = cons[d]
          /\ cons'[c] = [cons[c] EXCEPT !.lastAck = now]
      BY <1>t, <2>9 DEF OnAcknowledgementPacketV2
    <3>2. cons'[c].client = cons[c].client
      BY <1>t, <3>1 DEF Record
    <3> QED BY <2>1, <3>1, <3>2
  <2> QED BY <1>9, <2>2, <2>3, <2>4, <2>5, <2>6, <2>7, <2>8, <2>9 DEF Message
<1>10. ASSUME NEW i \in Forkable, ReportFork(i) \/ ExpireClient(i) \/ RecoverClient(i)
       PROVE  ContainedForksAreOver'
  <2>1. UNCHANGED <<now, cons, forkAt, contained>>
    BY <1>10 DEF ReportFork, ExpireClient, RecoverClient
  <2>2. \A j \in ChainIds : status'[j] = "Frozen" => status[j] = "Frozen" \/ Verifiable(j)
    BY <1>10, <1>t DEF ReportFork, ExpireClient, RecoverClient
  <2> QED BY <1>1, <1>t, <2>1, <2>2
<1>11. ASSUME NEW i \in Forkable, Fork(i) PROVE ContainedForksAreOver'
  <2>1. /\ UNCHANGED <<now, cons, status>> /\ i \in ChainIds
        /\ contained' = [contained EXCEPT ![i] = FALSE]
    BY <1>11 DEF Fork
  <2>2. PICK ts \in now .. (now + MaxClockDrift) : forkAt' = [forkAt EXCEPT ![i] = ts]
    BY <1>11 DEF Fork
  <2>3. forkAt'[i] = ts /\ ts <= now + MaxClockDrift
    BY <1>t, <2>1, <2>2
  <2>4. ~contained'[i]
    BY <2>1 DEF IInv, TypeOK
  <2>5. \A j \in ChainIds : j # i => forkAt'[j] = forkAt[j] /\ contained'[j] = contained[j]
    BY <1>t, <2>1, <2>2 DEF IInv, TypeOK
  <2>6. ASSUME NEW j \in ChainIds, j # i
        PROVE  /\ forkAt'[j] <= now' + MaxClockDrift
               /\ contained'[j] =>
                    \/ \E c \in Consumers : HeldDown(c, j)'
                    \/ /\ ~Verifiable(j)'
                       /\ status'[j] = "Frozen" => \A c \in Consumers : cons'[c].client # j
    BY <2>1, <2>5, <2>6 DEF ContainedForksAreOver, HeldDown, Verifiable
  <2> QED BY <2>1, <2>3, <2>4, <2>6 DEF ContainedForksAreOver
<1> QED BY <1>2, <1>3, <1>4, <1>5, <1>6, <1>7, <1>8, <1>9, <1>10, <1>11
        DEF Next, BeginBlock, Client

\* No fork pauses a consumer twice, by whichever of the two submission paths and whatever
\* governance recovers, resumes, removes and registers again in between, if a consumer is
\* erased no sooner than its forks can no longer be proved.
THEOREM ForksPauseOnce == ErasureOutlastsForks /\ Spec => SameForkPausesOnce
<1>1. Init => ContainedForksAreOver
  BY ConstantsAssumption DEF Init, ContainedForksAreOver
<1>2. ErasureOutlastsForks => ErasureOutlastsForks'
  BY DEF ErasureOutlastsForks
<1>3. ASSUME IInv, ContainedForksAreOver, [Next]_vars, NEW c \in Consumers,
             cons[c].phase = "LAUNCHED", cons'[c].phase = "PAUSED", cons'[c].pauseReason = "fork"
      PROVE  ~contained[cons[c].client]
  <2> USE ConstantsAssumption
  <2>t. cons \in [Consumers -> Record] /\ cons[c] \in Record /\ cons'[c] # cons[c]
    BY <1>3 DEF IInv, TypeOK
  \* Only a frozen client or headers that verify pause it for a fork.
  <2>1. ASSUME cons[c].client \in ChainIds,
               status[cons[c].client] = "Frozen" \/ Verifiable(cons[c].client)
        PROVE  ~contained[cons[c].client]
    <3>1. \A d \in Consumers : HeldDown(d, cons[c].client) => d = c
      BY <1>3, <2>1 DEF IInv, ChainIdsAreExclusive, HeldDown
    <3>2. ~HeldDown(c, cons[c].client)
      BY <1>3 DEF HeldDown
    <3> QED BY <1>3, <2>1, <3>1, <3>2 DEF ContainedForksAreOver
  <2>2. CASE PauseConsumersWithFrozenClients
    <3>1. ~HasFrozenClient(c) => cons'[c] = cons[c]
      BY <2>2 DEF PauseConsumersWithFrozenClients, PauseConsumerChain, Becomes
    <3> QED BY <2>1, <2>t, <3>1 DEF HasFrozenClient, Record
  <2>3. ASSUME NEW d \in Consumers, HandleConsumerMisbehaviour(d)
        PROVE  ~contained[cons[c].client]
    <3>1. d # c => cons'[c] = cons[c]
      BY <2>3 DEF HandleConsumerMisbehaviour, PauseConsumerChain, Becomes
    <3>2. cons[d].client # NoChain /\ Verifiable(cons[d].client)
      BY <2>3 DEF HandleConsumerMisbehaviour
    <3> QED BY <2>1, <2>t, <3>1, <3>2 DEF Record
  \* Nothing else does.
  <2>4. CASE BeginBlockLaunchConsumers
    <3>1. PICK T \in SUBSET Due(launchQueue), failed \in SUBSET Consumers :
            /\ failed \subseteq T
            /\ \/ cons' = cons
               \/ cons' = [d \in Consumers |->
                    IF d \in failed
                    THEN [cons[d] EXCEPT !.phase = "REGISTERED", !.spawnTime = 0]
                    ELSE IF d \in T
                    THEN [cons[d] EXCEPT !.phase = "LAUNCHED", !.lastAck = now]
                    ELSE cons[d]]
      BY <2>4 DEF BeginBlockLaunchConsumers, Due
    <3>2. c \notin T
      BY <1>3, <3>1, DueFacts
    <3> QED BY <2>t, <3>1, <3>2
  <2>5. ASSUME NEW S \in SUBSET Consumers, NEW q, StopAndPrepareForConsumerRemoval(S, q)
        PROVE  FALSE
    <3>1. cons'[c] = cons[c] \/ cons'[c].phase = "STOPPED"
      BY <2>5, <2>t DEF StopAndPrepareForConsumerRemoval, Becomes, Record
    <3> QED BY <1>3, <2>t, <3>1
  <2>6. ASSUME NEW S \in SUBSET Consumers, DeleteConsumerChain(S)
        PROVE  FALSE
    <3>1. cons'[c] = cons[c] \/ cons'[c].phase = "DELETED"
      BY <2>6, <2>t DEF DeleteConsumerChain, Becomes, Record
    <3> QED BY <1>3, <2>t, <3>1
  <2>7. CASE BeginBlockRemoveConsumers
    <3>1. PICK T \in SUBSET Due(removalQueue) : DeleteConsumerChain({d \in T : Deletable(d)})
      BY <2>7 DEF BeginBlockRemoveConsumers
    <3>2. {d \in T : Deletable(d)} \in SUBSET Consumers
      BY <3>1 DEF Due
    <3> QED BY <2>6, <3>1, <3>2
  <2>8. CASE SweepUnresponsiveConsumers
    BY <2>5, <2>8 DEF SweepUnresponsiveConsumers, In
  <2>9. CASE BeginBlockAutoStopPausedConsumers
    <3>1. PICK T : StopAndPrepareForConsumerRemoval(T \cap In("PAUSED"), Consumed(pauseQueue, T))
      BY <2>9 DEF BeginBlockAutoStopPausedConsumers
    <3>2. T \cap In("PAUSED") \in SUBSET Consumers
      BY DEF In
    <3> QED BY <2>5, <3>1, <3>2
  <2>10. CASE StartBlock \/ InitGenesis \/ UNCHANGED vars \/ \E i \in Forkable : Client(i)
    BY <2>10, <2>t DEF StartBlock, InitGenesis, vars, Client, Fork, ReportFork, ExpireClient,
                       RecoverClient
  <2>11. ASSUME NEW d \in Consumers, Message(d) PROVE ~contained[cons[c].client]
    <3>1. ASSUME NEW i \in ChainIds, NEW t \in SpawnTimes, CreateConsumer(d, i, t) PROVE FALSE
      BY <1>3, <2>t, <3>1 DEF CreateConsumer
    <3>2. ASSUME NEW declare \in BOOLEAN, NEW params \in BOOLEAN, NEW i \in ChainIds,
                 NEW t \in SpawnTimes, UpdateConsumer(d, declare, i, params, t)
          PROVE  FALSE
      <4>1. d # c => cons'[c] = cons[c]
        BY <2>t, <3>2 DEF UpdateConsumer
      <4>2. d = c => cons'[c].phase = "LAUNCHED"
        BY <1>3, <2>t, <3>2 DEF UpdateConsumer, Prelaunched, Record
      <4> QED BY <1>3, <2>t, <4>1, <4>2
    <3>3. CASE RemovePrelaunched(d)
      BY <2>6, <3>3 DEF RemovePrelaunched
    <3>4. CASE RemoveLaunched(d)
      BY <2>5, <3>4 DEF RemoveLaunched
    <3>5. CASE HandleChallengeConsumerDowntime(d)
      <4>1. cons'[c] = cons[c] \/ cons'[c].pauseReason = "challenge"
        BY <2>t, <3>5 DEF HandleChallengeConsumerDowntime, PauseConsumerChain, Becomes, Record
      <4> QED BY <1>3, <2>t, <4>1
    <3>6. CASE ResumeConsumerChain(d)
      <4>1. d # c
        BY <1>3, <3>6 DEF ResumeConsumerChain
      <4> QED BY <2>t, <3>6, <4>1 DEF ResumeConsumerChain, Resumed
    <3>7. CASE OnAcknowledgementPacketV2(d)
      <4>1. cons'[c].phase = cons[c].phase
        BY <2>t, <3>7 DEF OnAcknowledgementPacketV2, Record
      <4> QED BY <1>3, <4>1
    <3> QED BY <2>3, <2>11, <3>1, <3>2, <3>3, <3>4, <3>5, <3>6, <3>7 DEF Message
  <2> QED BY <1>3, <2>2, <2>4, <2>7, <2>8, <2>9, <2>10, <2>11 DEF Next, BeginBlock
<1>4. IInv /\ ContainedForksAreOver /\ [Next]_vars =>
        [\A c \in Consumers :
           cons[c].phase = "LAUNCHED" /\ cons'[c].phase = "PAUSED"
                                      /\ cons'[c].pauseReason = "fork"
             => ~contained[cons[c].client]]_vars
  BY <1>3
<1> QED BY <1>1, <1>2, <1>4, Invariance, StepKeepsContained, PTL DEF Spec, SameForkPausesOnce
=============================================================================

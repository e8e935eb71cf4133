----------------------- MODULE DowntimeAccusationProofs -----------------------
(***************************************************************************)
(* Proofs about DowntimeAccusation, for every number of consumers,         *)
(* validators and addresses, all windows and all parameters.               *)
(***************************************************************************)
EXTENDS DowntimeAccusation, KeyAssignmentProofs, WellFoundedInduction

USE DEF Exists, Claimed

(***************************************************************************)
(* The highest of the window ends that a floor stands for.                 *)
(***************************************************************************)
\* A set of naturals with a bound has a highest member.
LEMMA BoundedHasHighest ==
  ASSUME NEW N \in Nat, NEW T, T \subseteq 0 .. N, T # {}
  PROVE  \E m \in T : \A n \in T : n <= m
<1> DEFINE R == OpToRel(<, Nat)
           U == {N - n : n \in T}
<1>1. U \subseteq Nat /\ U # {}
  <2>1. \A n \in T : N - n \in Nat
    OBVIOUS
  <2> QED BY <2>1
<1>2. \A a, b \in Nat : a < b => <<a, b>> \in R
  BY Zenon DEF OpToRel
<1>3. IsWellFoundedOn(R, Nat)
  BY NatLessThanWellFounded, Zenon
<1> HIDE DEF R
<1>4. \E x \in U : \A y \in U : ~(<<y, x>> \in R)
  <2> HIDE DEF U
  <2> QED BY <1>1, <1>3, WFMin, Zenon
<1>5. PICK m \in T : \A y \in U : ~(<<y, N - m>> \in R)
  BY <1>4
<1>6. ASSUME NEW n \in T PROVE n <= m
  <2>1. N - n \in Nat /\ N - m \in Nat /\ N - n \in U /\ n \in Int /\ m \in Int
    OBVIOUS
  <2>2. ~(N - n < N - m)
    BY <1>2, <1>5, <2>1
  <2> QED BY <2>1, <2>2
<1> QED BY <1>6

LEMMA HighestEndIsHighest ==
  ASSUME NEW N \in Nat, NEW S, \A e \in S : e.end \in 0 .. N, NEW base \in 0 .. N
  PROVE  /\ HighestEnd(S, base) \in 0 .. N
         /\ HighestEnd(S, base) = base \/ \E e \in S : HighestEnd(S, base) = e.end
         /\ base <= HighestEnd(S, base)
         /\ \A e \in S : e.end <= HighestEnd(S, base)
<1> DEFINE ends == {base} \cup {e.end : e \in S}
<1>1. ends \subseteq 0 .. N /\ ends # {}
  OBVIOUS
<1>2. \E n \in ends : \A m \in ends : m <= n
  <2> HIDE DEF ends
  <2> QED BY <1>1, BoundedHasHighest
<1>3. HighestEnd(S, base) = CHOOSE n \in ends : \A m \in ends : m <= n
  BY DEF HighestEnd
<1>4. HighestEnd(S, base) \in ends /\ \A m \in ends : m <= HighestEnd(S, base)
  <2> HIDE DEF ends
  <2> QED BY <1>2, <1>3
<1> QED BY <1>1, <1>4

(***************************************************************************)
(* What a rotation does to the records kept under an address.              *)
(***************************************************************************)
\* Where what c keeps under the address a is after the block.
Moved(c, a) == IF KeepsIdentity(c, a) THEN RotatedTo(a) ELSE a

\* The records of a validator stay its own and apart from those of others.
LEMMA AddressesMoved ==
  ASSUME IInv, EndBlock, NEW c \in Consumers
  PROVE  /\ \A a \in Addrs : Moved(c, a) \in Addrs
         /\ \A a \in Addrs : owner[a] # NoVal =>
              /\ owner'[Moved(c, a)] = owner[a] /\ owner'[a] = owner[a]
              /\ ~Arriving(a)
         /\ \A a \in Addrs : KeepsIdentity(c, a) =>
              /\ owner[a] # NoVal /\ owner[RotatedTo(a)] = NoVal
              /\ Arriving(RotatedTo(a)) /\ RotatedFrom(RotatedTo(a)) = a
         /\ \A a, b \in Addrs : owner[a] # NoVal /\ owner[b] # NoVal =>
              (Moved(c, a) = Moved(c, b) => a = b)
<1> USE ConstantsAssumption
<1>1. /\ \A v \in Rotating : /\ v \in Validators
                             /\ live[v] \in Addrs /\ owner[live[v]] = v
                             /\ rotations[v] \in Addrs /\ owner[rotations[v]] = NoVal
                             /\ RotatedTo(live[v]) = rotations[v]
                             /\ RotatedFrom(rotations[v]) = live[v]
                             /\ owner'[rotations[v]] = v
      /\ \A a \in Addrs : a \notin Claimed => owner'[a] = owner[a]
  BY RotationsApplied DEF Rotating
<1>2. \A v, w \in Rotating : rotations[v] = rotations[w] => v = w
  BY DEF IInv, AddressesHaveOneOwner
<1>3. ASSUME NEW a \in Addrs, KeepsIdentity(c, a)
      PROVE  \E v \in Rotating : /\ a = live[v] /\ Moved(c, a) = rotations[v]
                                 /\ RotatedTo(a) = rotations[v]
  BY <1>1, <1>3 DEF KeepsIdentity, Leaving, Moved
<1>4. ASSUME NEW a \in Addrs, owner[a] # NoVal PROVE a \notin Claimed /\ ~Arriving(a)
  BY <1>1, <1>4 DEF Arriving
<1>5. \A a \in Addrs : ~KeepsIdentity(c, a) => Moved(c, a) = a
  BY DEF Moved
<1>6. \A a \in Addrs : Moved(c, a) \in Addrs
  BY <1>1, <1>3, <1>5
<1>7. \A a \in Addrs : owner[a] # NoVal =>
        owner'[Moved(c, a)] = owner[a] /\ owner'[a] = owner[a] /\ ~Arriving(a)
  BY <1>1, <1>3, <1>4, <1>5
<1>8. ASSUME NEW a \in Addrs, KeepsIdentity(c, a)
      PROVE  /\ owner[a] # NoVal /\ owner[RotatedTo(a)] = NoVal
             /\ Arriving(RotatedTo(a)) /\ RotatedFrom(RotatedTo(a)) = a
  <2>1. PICK v \in Rotating : a = live[v] /\ RotatedTo(a) = rotations[v]
    BY <1>3, <1>8
  <2> QED BY <1>1, <2>1 DEF Arriving
<1>9. ASSUME NEW a \in Addrs, NEW b \in Addrs, owner[a] # NoVal, owner[b] # NoVal,
             Moved(c, a) = Moved(c, b)
      PROVE  a = b
  BY <1>1, <1>2, <1>3, <1>5, <1>9
<1> QED BY <1>6, <1>7, <1>8, <1>9

LEMMA DeletedKeepsNothing ==
  ASSUME IInv, NEW c \in Consumers, NEW a \in Addrs, KeepsIdentity(c, a)
  PROVE  phase[c] # "DELETED"
  BY ConstantsAssumption DEF IInv, DeletedIsClear, KeepsIdentity, NoKeys

\* The accepted windows after the block's rotations are those before, at their
\* validators' addresses: nothing is overwritten.
LEMMA WindowsMoved ==
  ASSUME IInv, EndBlock, NEW c \in Consumers, accepted[c] \subseteq AcceptedWindow,
         \A e \in accepted[c] : owner[e.addr] # NoVal
  PROVE  /\ \A g \in MigratedAccepted(c) : \E e \in accepted[c] :
              /\ g.addr = Moved(c, e.addr) /\ g.start = e.start /\ g.end = e.end /\ g.at = e.at
              /\ g \in AcceptedWindow
         /\ \A e \in accepted[c] : \E g \in MigratedAccepted(c) :
              g.addr = Moved(c, e.addr) /\ g.start = e.start /\ g.end = e.end /\ g.at = e.at
<1> DEFINE S == accepted[c]
           moving == {e \in S : KeepsIdentity(c, e.addr)}
           moved == {[e EXCEPT !.addr = RotatedTo(e.addr)] : e \in moving}
<1>1. {e \in S : phase[c] # "DELETED" /\ KeepsIdentity(c, e.addr)} = moving
  BY DeletedKeepsNothing DEF AcceptedWindow
<1>2. MigratedAccepted(c) = moved \cup {e \in S \ moving : \A m \in moved : ~SameKey(e, m)}
  BY <1>1 DEF MigratedAccepted, MigratedRecords, Migrated
<1>3. ASSUME NEW e \in moving
      PROVE  LET g == [e EXCEPT !.addr = RotatedTo(e.addr)]
             IN  /\ g.addr = Moved(c, e.addr) /\ g.start = e.start /\ g.end = e.end /\ g.at = e.at
                 /\ g \in AcceptedWindow /\ owner[g.addr] = NoVal
  <2>1. e \in AcceptedWindow /\ KeepsIdentity(c, e.addr) /\ e.addr \in Addrs
    BY DEF AcceptedWindow
  <2>2. RotatedTo(e.addr) \in Addrs /\ owner[RotatedTo(e.addr)] = NoVal
    BY <2>1, AddressesMoved DEF Moved
  <2> QED BY <2>1, <2>2 DEF AcceptedWindow, Moved
<1>4. ASSUME NEW e \in S \ moving PROVE e.addr = Moved(c, e.addr) /\ e \in AcceptedWindow
  BY DEF Moved
<1>5. ASSUME NEW e \in S \ moving, NEW m \in moved PROVE ~SameKey(e, m)
  <2>1. PICK x \in moving : m = [x EXCEPT !.addr = RotatedTo(x.addr)]
    OBVIOUS
  <2>2. owner[m.addr] = NoVal /\ owner[e.addr] # NoVal
    BY <1>3, <2>1
  <2> QED BY <2>2 DEF SameKey
<1>6. MigratedAccepted(c) = moved \cup (S \ moving)
  BY <1>2, <1>5
<1>7. ASSUME NEW g \in MigratedAccepted(c)
      PROVE  \E e \in S : /\ g.addr = Moved(c, e.addr) /\ g.start = e.start
                           /\ g.end = e.end /\ g.at = e.at /\ g \in AcceptedWindow
  <2>1. CASE g \in moved
    <3>1. PICK e \in moving : g = [e EXCEPT !.addr = RotatedTo(e.addr)]
      BY <2>1
    <3> QED BY <1>3, <3>1
  <2>2. CASE g \in S \ moving
    BY <1>4, <2>2
  <2> QED BY <1>6, <2>1, <2>2
<1>8. ASSUME NEW e \in S
      PROVE  \E g \in MigratedAccepted(c) : /\ g.addr = Moved(c, e.addr) /\ g.start = e.start
                                             /\ g.end = e.end /\ g.at = e.at
  <2>1. CASE e \in moving
    <3> DEFINE g == [e EXCEPT !.addr = RotatedTo(e.addr)]
    <3>1. g \in MigratedAccepted(c)
      BY <1>6, <2>1
    <3> QED BY <1>3, <2>1, <3>1
  <2>2. CASE e \notin moving
    BY <1>4, <1>6, <2>2
  <2> QED BY <2>1, <2>2
<1> QED BY <1>7, <1>8

\* Likewise the queued slashes.
LEMMA SlashesMoved ==
  ASSUME IInv, EndBlock, NEW c \in Consumers, pending[c] \subseteq PendingSlash,
         \A e \in pending[c] : owner[e.addr] # NoVal
  PROVE  \A g \in MigratedRecords(c, pending[c]) : \E e \in pending[c] :
           g = [e EXCEPT !.addr = Moved(c, e.addr)] /\ g \in PendingSlash
<1> DEFINE S == pending[c]
           moving == {e \in S : KeepsIdentity(c, e.addr)}
           moved == {[e EXCEPT !.addr = RotatedTo(e.addr)] : e \in moving}
<1>1. {e \in S : phase[c] # "DELETED" /\ KeepsIdentity(c, e.addr)} = moving
  BY DeletedKeepsNothing DEF PendingSlash
<1>2. MigratedRecords(c, S) \subseteq moved \cup (S \ moving)
  BY <1>1 DEF MigratedRecords, Migrated
<1>3. ASSUME NEW e \in moving
      PROVE  LET g == [e EXCEPT !.addr = RotatedTo(e.addr)]
             IN  g = [e EXCEPT !.addr = Moved(c, e.addr)] /\ g \in PendingSlash
  <2>1. e \in PendingSlash /\ KeepsIdentity(c, e.addr) /\ e.addr \in Addrs
    BY DEF PendingSlash
  <2>2. RotatedTo(e.addr) \in Addrs /\ Moved(c, e.addr) = RotatedTo(e.addr)
    BY <2>1, AddressesMoved DEF Moved
  <2> QED BY <2>1, <2>2 DEF PendingSlash
<1>4. ASSUME NEW e \in S \ moving
      PROVE  e \in PendingSlash /\ e = [e EXCEPT !.addr = Moved(c, e.addr)]
  BY DEF Moved, PendingSlash
<1>5. ASSUME NEW g \in MigratedRecords(c, S)
      PROVE  \E e \in S : g = [e EXCEPT !.addr = Moved(c, e.addr)] /\ g \in PendingSlash
  <2>1. CASE g \in moved
    <3>1. PICK e \in moving : g = [e EXCEPT !.addr = RotatedTo(e.addr)]
      BY <2>1
    <3> QED BY <1>3, <3>1
  <2>2. CASE g \in S \ moving
    BY <1>4, <2>2
  <2> QED BY <1>2, <2>1, <2>2
<1> QED BY <1>5

(***************************************************************************)
(* A step changes keys and addresses as KeyAssignment says.                *)
(***************************************************************************)
LEMMA StepsAreKeySteps == [DTNext]_dtVars => [Next]_kaVars
<1> SUFFICES ASSUME [DTNext]_dtVars PROVE [Next]_kaVars
  OBVIOUS
<1>1. ASSUME NEW paying \in SUBSET Consumers, NextBlock(paying) PROVE Next
  BY <1>1 DEF NextBlock, Next
<1>2. ASSUME NEW c \in Consumers, ConsumerDowntimes(c) PROVE UNCHANGED kaVars
  BY <1>2 DEF ConsumerDowntimes, ConsumerDowntime
<1>3. ASSUME NEW c \in Consumers,
             \/ Challenges(c) \/ StartWithDowntime(c) \/ PauseWithDowntime(c)
             \/ StopWithDowntime(c) \/ DeleteWithDowntime(c)
      PROVE  Next
  BY <1>3 DEF Challenges, ChallengeConsumerDowntime, StartWithDowntime, PauseWithDowntime,
              StopWithDowntime, DeleteWithDowntime, Next, Lifecycle
<1>4. ASSUME NEW q \in ParamChoices, UpdateInfractionParams(q) PROVE UNCHANGED kaVars
  BY <1>4 DEF UpdateInfractionParams
<1>5. CASE RestartProvider
  BY <1>5 DEF RestartProvider
<1>6. CASE KeyStep
  BY <1>6 DEF KeyStep, Next
<1>7. CASE UNCHANGED dtVars
  BY <1>7 DEF dtVars
<1> QED BY <1>1, <1>2, <1>3, <1>4, <1>5, <1>6, <1>7 DEF DTNext

(***************************************************************************)
(* The consumer's set and the marks are kept under live addresses.         *)
(***************************************************************************)
EntriesInv ==
  /\ IInv
  /\ valset \in [Consumers -> SUBSET Addrs] /\ marks \in [Consumers -> SUBSET Addrs]
  /\ MarksAreOfThisEpoch /\ EntriesAreLive

IsLive(a) == owner[a] # NoVal => live[owner[a]] = a
BecomesLive(a) == owner'[a] # NoVal => live'[owner'[a]] = a

LEMMA BondedAreLive ==
  ASSUME IInv
  PROVE  \A v \in Validators : Exists(v) => live[v] \in Addrs /\ owner[live[v]] = v
  BY ConstantsAssumption DEF IInv, TypeOK, AddressesHaveOneOwner

\* The block's rotations carry every live entry to the new address.
LEMMA BlockKeepsEntriesLive ==
  ASSUME EntriesInv, NEW paying \in SUBSET Consumers, NextBlock(paying)
  PROVE  EntriesInv'
<1> USE ConstantsAssumption
<1>i. IInv /\ IInv' /\ EndBlock
  BY EndBlockKeepsIInv DEF EntriesInv, NextBlock
<1>1. /\ \A v \in Rotating : /\ v \in Validators
                             /\ live[v] \in Addrs /\ owner[live[v]] = v
                             /\ rotations[v] \in Addrs /\ owner[rotations[v]] = NoVal
                             /\ RotatedTo(live[v]) = rotations[v]
                             /\ owner'[rotations[v]] = v
      /\ \A v \in Validators : live'[v] = IF v \in Rotating THEN rotations[v] ELSE live[v]
      /\ \A a \in Addrs : a \notin Claimed => owner'[a] = owner[a]
  BY <1>i, RotationsApplied DEF Rotating
<1>2. phase' = phase /\ phase \in [Consumers -> Phases]
  BY <1>i DEF EndBlock, IInv, TypeOK
<1>3. ASSUME NEW a \in Addrs, IsLive(a)
      PROVE  /\ Leaving(a) => RotatedTo(a) \in Addrs /\ BecomesLive(RotatedTo(a))
             /\ ~Leaving(a) => BecomesLive(a)
  <2>0. owner \in [Addrs -> Validators \cup {NoVal}]
    BY <1>i DEF IInv, TypeOK
  <2>1. ASSUME Leaving(a) PROVE RotatedTo(a) \in Addrs /\ BecomesLive(RotatedTo(a))
    <3>1. PICK v \in Rotating : a = live[v]
      BY <2>1 DEF Leaving
    <3> QED BY <1>1, <3>1 DEF BecomesLive
  <2>2. ASSUME ~Leaving(a) PROVE BecomesLive(a)
    <3>1. CASE a \in Claimed
      BY <1>1, <3>1 DEF BecomesLive
    <3>2. CASE a \notin Claimed
      <4>1. owner'[a] = owner[a]
        BY <1>1, <3>2
      <4>2. ASSUME owner[a] # NoVal PROVE live'[owner[a]] = a
        BY <1>1, <1>3, <2>0, <2>2, <4>2 DEF IsLive, Leaving
      <4> QED BY <4>1, <4>2 DEF BecomesLive
    <3> QED BY <3>1, <3>2
  <2> QED BY <2>1, <2>2
<1>4. \A v \in Bonded : live'[v] \in Addrs /\ owner'[live'[v]] = v
  <2>1. \A v \in Bonded : v \in Validators /\ Exists(v)'
    BY <1>i, <1>1 DEF Bonded
  <2>2. \A v \in Validators : Exists(v)' => live'[v] \in Addrs /\ owner'[live'[v]] = v
    BY <1>i DEF IInv, TypeOK, AddressesHaveOneOwner
  <2> QED BY <2>1, <2>2
<1>5. ASSUME NEW c \in Consumers PROVE valset'[c] = NextValSet(c)
  BY DEF NextBlock
<1>6. ASSUME NEW c \in Consumers
      PROVE  marks'[c] = {} \/ marks'[c] = MigratedMarks(c)
  BY DEF NextBlock
<1>7. ASSUME NEW c \in Consumers
      PROVE  NextValSet(c) \subseteq Addrs /\ MigratedMarks(c) \subseteq Addrs
  <2>1. \A a \in Addrs : Leaving(a) => RotatedTo(a) \in Addrs
    BY <1>1 DEF Leaving
  <2>2. valset[c] \subseteq Addrs /\ marks[c] \subseteq Addrs
    BY DEF EntriesInv
  <2>3. {live'[v] : v \in Bonded} \subseteq Addrs
    BY <1>4
  <2>4. {IF KeepsIdentity(c, a) THEN RotatedTo(a) ELSE a : a \in valset[c]} \subseteq Addrs
    BY <2>1, <2>2 DEF KeepsIdentity
  <2>5. {IF Leaving(a) THEN RotatedTo(a) ELSE a : a \in marks[c]} \subseteq Addrs
    BY <2>1, <2>2
  <2> QED BY <2>2, <2>3, <2>4, <2>5 DEF NextValSet, MigratedMarks
<1>8. valset' \in [Consumers -> SUBSET Addrs] /\ marks' \in [Consumers -> SUBSET Addrs]
  <2>1. valset' = [c \in Consumers |-> valset'[c]] /\ marks' = [c \in Consumers |-> marks'[c]]
    BY DEF NextBlock
  <2> QED BY <1>5, <1>6, <1>7, <2>1
<1>9. MarksAreOfThisEpoch'
  BY <1>2, <1>6 DEF MarksAreOfThisEpoch, EntriesInv, MigratedMarks
<1>10. ASSUME NEW c \in Consumers, phase[c] = "LAUNCHED", NEW a \in NextValSet(c)
       PROVE  BecomesLive(a)
  <2>1. CASE a \in {live'[v] : v \in Bonded}
    BY <1>4, <2>1 DEF BecomesLive
  <2>2. CASE /\ \A v \in Rotating : key[c][live[v]] # NoAddr
             /\ a \in {IF KeepsIdentity(c, b) THEN RotatedTo(b) ELSE b : b \in valset[c]}
    <3>1. PICK b \in valset[c] : a = IF KeepsIdentity(c, b) THEN RotatedTo(b) ELSE b
      BY <2>2
    <3>2. b \in Addrs /\ IsLive(b)
      BY <1>10, <3>1 DEF EntriesInv, EntriesAreLive, IsLive
    <3>3. Leaving(b) <=> KeepsIdentity(c, b)
      BY <2>2 DEF KeepsIdentity, Leaving
    <3> QED BY <1>3, <3>1, <3>2, <3>3
  <2> QED BY <1>10, <2>1, <2>2 DEF NextValSet
<1>11. ASSUME NEW c \in Consumers, phase[c] = "LAUNCHED", NEW a \in MigratedMarks(c)
       PROVE  BecomesLive(a)
  <2>1. PICK b \in marks[c] : a = IF Leaving(b) THEN RotatedTo(b) ELSE b
    BY <1>11 DEF MigratedMarks
  <2>2. b \in Addrs /\ IsLive(b)
    BY <1>11, <2>1 DEF EntriesInv, EntriesAreLive, IsLive
  <2> QED BY <1>3, <2>1, <2>2
<1>12. EntriesAreLive'
  BY <1>2, <1>5, <1>6, <1>10, <1>11 DEF EntriesAreLive, BecomesLive
<1> QED BY <1>i, <1>8, <1>9, <1>12 DEF EntriesInv
\* So does every other step: it adds the address it found in the set, computes the
\* set from live addresses, or changes the owners of no live one.
LEMMA StepKeepsEntriesLive == EntriesInv /\ [DTNext]_dtVars => EntriesInv'
<1> SUFFICES ASSUME EntriesInv, [DTNext]_dtVars PROVE EntriesInv'
  OBVIOUS
<1> USE ConstantsAssumption
<1>i. IInv /\ IInv'
  BY StepsAreKeySteps, NextKeepsIInv DEF EntriesInv
<1>t. /\ valset \in [Consumers -> SUBSET Addrs] /\ marks \in [Consumers -> SUBSET Addrs]
      /\ phase \in [Consumers -> Phases] /\ owner \in [Addrs -> Validators \cup {NoVal}]
      /\ live \in [Validators -> Addrs \cup {NoAddr}]
  BY <1>i DEF EntriesInv, IInv, TypeOK
<1>b. \A v \in Validators : Exists(v) => live[v] \in Addrs /\ owner[live[v]] = v
  BY <1>i, BondedAreLive
<1>1. ASSUME NEW paying \in SUBSET Consumers, NextBlock(paying) PROVE EntriesInv'
  BY <1>1, BlockKeepsEntriesLive
<1>2. ASSUME NEW c \in Consumers, ConsumerDowntimes(c) PROVE EntriesInv'
  <2>1. PICK s \in valset[c] : marks' = [marks EXCEPT ![c] = @ \cup {s}] \/ marks' = marks
    BY <1>2 DEF ConsumerDowntimes, ConsumerDowntime
  <2>2. phase[c] = "LAUNCHED" /\ UNCHANGED <<kaVars, valset>>
    BY <1>2 DEF ConsumerDowntimes, ConsumerDowntime
  <2>3. UNCHANGED <<phase, owner, live, valset>>
    BY <2>2 DEF kaVars, stakingVars
  <2>4. \A d \in Consumers : marks'[d] \subseteq marks[d] \cup (IF d = c THEN valset[c] ELSE {})
    BY <1>t, <2>1
  <2>5. marks' \in [Consumers -> SUBSET Addrs]
    BY <1>t, <2>1
  <2> QED BY <1>i, <1>t, <2>2, <2>3, <2>4, <2>5
          DEF EntriesInv, MarksAreOfThisEpoch, EntriesAreLive
<1>3. ASSUME NEW c \in Consumers, StartWithDowntime(c) PROVE EntriesInv'
  <2>1. /\ phase' = [phase EXCEPT ![c] = "LAUNCHED"] /\ phase[c] # "LAUNCHED"
        /\ valset' = [valset EXCEPT ![c] = BondedAddrs] /\ UNCHANGED <<marks, owner, live>>
    BY <1>3 DEF StartWithDowntime, LaunchConsumer, ResumeConsumer, MovesTo, stakingVars
  <2>2. BondedAddrs \subseteq Addrs /\ \A a \in BondedAddrs : live[owner[a]] = a
    BY <1>b DEF BondedAddrs, Bonded
  <2>3. \A d \in Consumers : /\ valset'[d] = IF d = c THEN BondedAddrs ELSE valset[d]
                             /\ phase'[d] = IF d = c THEN "LAUNCHED" ELSE phase[d]
    BY <1>t, <2>1
  <2>4. valset' \in [Consumers -> SUBSET Addrs]
    BY <1>t, <2>1, <2>2
  <2>5. marks[c] = {}
    BY <2>1 DEF EntriesInv, MarksAreOfThisEpoch
  <2> QED BY <1>i, <1>t, <2>1, <2>2, <2>3, <2>4, <2>5
          DEF EntriesInv, MarksAreOfThisEpoch, EntriesAreLive
<1>4. ASSUME NEW c \in Consumers, \/ Challenges(c) \/ PauseWithDowntime(c)
                                  \/ StopWithDowntime(c) \/ DeleteWithDowntime(c)
      PROVE  EntriesInv'
  <2>1. \E p \in {"PAUSED", "STOPPED", "DELETED"} :
          /\ phase' = [phase EXCEPT ![c] = p]
          /\ marks' = [marks EXCEPT ![c] = {}]
          /\ valset' = valset \/ valset' = [valset EXCEPT ![c] = {}]
          /\ UNCHANGED <<owner, live>>
    BY <1>4 DEF Challenges, ChallengeConsumerDowntime, PauseWithDowntime, StopWithDowntime,
                DeleteWithDowntime, CancelConsumerDowntimeState, PauseConsumer, StopConsumer,
                DeleteConsumer, MovesTo, stakingVars
  <2>2. \A d \in Consumers : IF d = c THEN phase'[d] # "LAUNCHED" /\ marks'[d] = {}
                             ELSE /\ phase'[d] = phase[d] /\ marks'[d] = marks[d]
                                  /\ valset'[d] = valset[d]
    BY <1>t, <2>1
  <2>3. valset' \in [Consumers -> SUBSET Addrs] /\ marks' \in [Consumers -> SUBSET Addrs]
    BY <1>t, <2>1
  <2> QED BY <1>i, <2>1, <2>2, <2>3 DEF EntriesInv, MarksAreOfThisEpoch, EntriesAreLive
<1>5. ASSUME UNCHANGED <<phase, owner, live, marks>>,
             valset' = valset \/ valset' = [c \in Consumers |-> {}]
      PROVE  EntriesInv'
  <2>1. valset' \in [Consumers -> SUBSET Addrs]
    BY <1>5, <1>t
  <2>2. \A c \in Consumers : valset'[c] \subseteq valset[c]
    BY <1>5
  <2> QED BY <1>5, <1>i, <1>t, <2>1, <2>2 DEF EntriesInv, MarksAreOfThisEpoch, EntriesAreLive
<1>6. CASE RestartProvider \/ UNCHANGED dtVars \/ \E q \in ParamChoices : UpdateInfractionParams(q)
  <2>1. UNCHANGED <<phase, owner, live, marks>> /\ (valset' = valset \/ valset' = [c \in Consumers |-> {}])
    BY <1>6 DEF RestartProvider, UpdateInfractionParams, dtVars, daVars, kaVars, stakingVars
  <2> QED BY <1>5, <2>1
<1>7. CASE KeyStep
  <2>0. UNCHANGED daVars
    BY <1>7 DEF KeyStep
  <2>1. ASSUME NEW v \in Assigners, NEW c \in Consumers, NEW k \in Addrs, AssignConsumerKey(v, c, k)
        PROVE  EntriesInv'
    BY <1>5, <2>0, <2>1 DEF AssignConsumerKey, stakingVars, daVars
  <2>2. ASSUME NEW v \in Rotators, NEW a \in Addrs, RotateConsPubKey(v, a) PROVE EntriesInv'
    BY <1>5, <2>0, <2>2 DEF RotateConsPubKey, daVars
  <2>3. ASSUME NEW v \in Leavers, BeginUnbonding(v) PROVE EntriesInv'
    BY <1>5, <2>0, <2>3 DEF BeginUnbonding, daVars
  <2>4. ASSUME phase' = phase, \A a \in Addrs : IsLive(a) => BecomesLive(a) PROVE EntriesInv'
    <3>1. valset' = valset /\ marks' = marks
      BY <2>0 DEF daVars
    <3>2. EntriesAreLive'
      BY <1>t, <2>4, <3>1 DEF EntriesInv, EntriesAreLive, IsLive, BecomesLive
    <3> QED BY <1>i, <1>t, <2>4, <3>1, <3>2 DEF EntriesInv, MarksAreOfThisEpoch
  <2>5. ASSUME NEW v \in Leavers, RemoveValidator(v) PROVE EntriesInv'
    <3>1. phase' = phase /\ \A a \in Addrs : IsLive(a) => BecomesLive(a)
      BY <1>t, <2>5 DEF RemoveValidator, IsLive, BecomesLive
    <3> QED BY <2>4, <3>1
  <2>6. ASSUME NEW v \in Leavers, NEW a \in Addrs, CreateValidator(v, a) PROVE EntriesInv'
    <3>1. \A b \in Addrs : owner[b] # v
      BY <1>i, <2>6 DEF IInv, AddressesHaveOneOwner, CreateValidator
    <3>2. phase' = phase /\ \A b \in Addrs : IsLive(b) => BecomesLive(b)
      BY <1>t, <2>6, <3>1 DEF CreateValidator, IsLive, BecomesLive
    <3> QED BY <2>4, <3>2
  <2> QED BY <1>7, <2>1, <2>2, <2>3, <2>5, <2>6 DEF KeyStep
<1> QED BY <1>1, <1>2, <1>3, <1>4, <1>6, <1>7 DEF DTNext

\* Evidence and distribution always find a running consumer's validators: whatever
\* is rotated, assigned, created and removed, the set and the marks are kept under
\* the addresses the validators have now.
THEOREM EntriesStayLive == DTSpec => []EntriesAreLive
<1>1. DTInit => EntriesInv
  <2> SUFFICES ASSUME DTInit PROVE EntriesInv
    OBVIOUS
  <2>1. IInv
    BY InitEstablishesIInv DEF DTInit
  <2> QED BY <2>1 DEF DTInit, EntriesInv, MarksAreOfThisEpoch, EntriesAreLive
<1>2. EntriesInv => EntriesAreLive
  BY DEF EntriesInv
<1> QED BY <1>1, <1>2, StepKeepsEntriesLive, PTL DEF DTSpec

(***************************************************************************)
(* The records of accusations: what a step other than a block does.        *)
(***************************************************************************)
RecordsInv == EntriesInv /\ RecordsAreSound /\ EscrowBacksAccusation

\* An epoch ends within its number of blocks.
LEMMA EpochEnds ==
  ASSUME NEW n \in Nat
  PROVE  \E t \in n .. (n + BlocksPerEpoch - 1) : t % BlocksPerEpoch = 0
<1> DEFINE E == BlocksPerEpoch
<1>0. E \in Nat \ {0}
  BY DowntimeAssumption
<1> HIDE DEF E
<1>1. n % E \in 0 .. (E - 1)
  BY <1>0
<1>2. n = E * (n \div E) + (n % E) /\ n \div E \in Nat
  BY <1>0
<1>3. \A k \in Nat : (E * k) % E = 0
  BY <1>0
<1>4. CASE n % E = 0
  BY <1>0, <1>4 DEF E
<1>5. CASE n % E # 0
  <2> DEFINE k == (n \div E) + 1
  <2>1. k \in Nat /\ E * k = E * (n \div E) + E
    BY <1>0, <1>2
  <2>2. E * k \in n .. (n + E - 1)
    BY <1>0, <1>1, <1>2, <1>5, <2>1
  <2> HIDE DEF k
  <2> QED BY <1>3, <2>1, <2>2 DEF E
<1> QED BY <1>4, <1>5

\* Whoever is in the set of a running consumer left less than an epoch ago.
LEMMA SetIsRecent ==
  ASSUME IInv, SetIsCurrent, NEW c \in Consumers, phase[c] = "LAUNCHED",
         NEW a \in valset[c], a \in Addrs
  PROVE  /\ owner[a] \in Validators
         /\ leftAt[owner[a]] = 0 \/ now <= leftAt[owner[a]] + BlocksPerEpoch
<1> DEFINE n == leftAt[owner[a]]
<1>1. owner[a] \in Validators /\ n \in Nat /\ now \in Nat /\ BlocksPerEpoch \in Nat
  BY ConstantsAssumption, DowntimeAssumption DEF IInv, TypeOK, Times, SetIsCurrent
<1>2. n # 0 => \A t \in n .. (now - 1) : t % BlocksPerEpoch # 0
  BY DEF SetIsCurrent
<1> HIDE DEF n
<1>3. PICK t \in n .. (n + BlocksPerEpoch - 1) : t % BlocksPerEpoch = 0
  BY <1>1, EpochEnds
<1>4. ASSUME n # 0, now > n + BlocksPerEpoch PROVE FALSE
  <2>1. t \in n .. (now - 1)
    BY <1>1, <1>4
  <2> QED BY <1>2, <1>3, <1>4, <2>1
<1>5. n = 0 \/ now <= n + BlocksPerEpoch
  BY <1>1, <1>4
<1> QED BY <1>1, <1>5 DEF n

\* A step that leaves the validators alone, and the records of each consumer or drops
\* its queued slashes.
Calm(c) ==
  /\ \/ /\ pending'[c] = pending[c] /\ accepted'[c] = accepted[c]
        /\ phase'[c] = phase[c] \/ pending[c] = {}
     \/ pending'[c] = {} /\ accepted'[c] \subseteq accepted[c]
  /\ \A p \in Addrs : floor'[c][p] \in {0, floor[c][p]}
  /\ \A p \in Addrs : \/ withheld'[c][p] = withheld[c][p]
                      \/ withheld'[c][p] = 0 /\ pending'[c] = {}
  /\ phase'[c] = "LAUNCHED" => \A a \in valset'[c] :
       a \in BondedAddrs \/ (a \in valset[c] /\ phase[c] = "LAUNCHED")

LEMMA CalmStepKeepsRecords ==
  ASSUME RecordsInv, EntriesInv', DTTypeOK', UNCHANGED <<now, owner, live, leftAt, accused>>,
         \A c \in Consumers : Calm(c)
  PROVE  RecordsInv'
<1> USE DEF RecordsInv, RecordsAreSound
<1>i. IInv
  BY DEF EntriesInv
<1>1. ImportableState'
  <2> SUFFICES ASSUME NEW c \in Consumers
               PROVE  /\ \A e, f \in accepted'[c] : e.addr = f.addr /\ e # f => ~Intersect(e, f)
                      /\ \A e \in accepted'[c] : e.start > floor'[c][e.addr]
                      /\ \A e, f \in pending'[c] : SameKey(e, f) => e = f
                      /\ \A e \in pending'[c] : \E f \in accepted'[c] : SameKey(e, f) /\ e.start = f.start
    BY DEF ImportableState, Intersect, SameKey
  <2>1. accepted'[c] \subseteq accepted[c] /\ pending'[c] \subseteq pending[c]
    BY DEF Calm
  <2>2. ASSUME NEW e \in accepted'[c] PROVE e.start > floor'[c][e.addr]
    <3>1. e \in accepted[c] /\ e.addr \in Addrs /\ e.start \in Nat
      BY <2>1 DEF DTTypeOK, AcceptedWindow
    <3>2. e.start > floor[c][e.addr] /\ floor[c][e.addr] \in Nat
      BY <3>1 DEF ImportableState, DTTypeOK
    <3>3. floor'[c][e.addr] \in {0, floor[c][e.addr]}
      BY <3>1 DEF Calm
    <3> QED BY <3>1, <3>2, <3>3
  <2>3. \A e \in pending'[c] : \E f \in accepted'[c] : SameKey(e, f) /\ e.start = f.start
    BY DEF Calm, ImportableState
  <2> QED BY <2>1, <2>2, <2>3 DEF ImportableState
<1>2. PendingIsOpen'
  <2> SUFFICES ASSUME NEW c \in Consumers, NEW e \in pending'[c]
               PROVE  /\ phase'[c] = "LAUNCHED"
                      /\ now <= e.maturesAt /\ e.maturesAt < e.end + Trusting
                      /\ \E f \in accepted'[c], q \in ParamChoices :
                           SameKey(e, f) /\ e.maturesAt <= f.at + q.challenge
    BY DEF PendingIsOpen, SameKey
  <2>1. pending'[c] = pending[c] /\ accepted'[c] = accepted[c] /\ phase'[c] = phase[c]
    BY DEF Calm
  <2> QED BY <2>1 DEF PendingIsOpen
<1>3. AcceptedIsRecent' /\ AcceptedIsAnswered'
  <2>1. \A c \in Consumers : accepted'[c] \subseteq accepted[c]
    BY DEF Calm
  <2>2. AcceptedIsRecent'
    BY <2>1 DEF AcceptedIsRecent
  <2>3. AcceptedIsAnswered'
    BY <2>1 DEF AcceptedIsAnswered, AnsweredFor
  <2> QED BY <2>2, <2>3
<1>4. SetIsCurrent'
  <2>1. \A a \in BondedAddrs : owner[a] # NoVal /\ leftAt[owner[a]] = 0
    BY <1>i, ConstantsAssumption, BondedAreLive DEF BondedAddrs, Bonded
  <2> QED BY <2>1 DEF SetIsCurrent, Calm
<1>5. FloorsAreOld'
  BY DEF FloorsAreOld, AnsweredFor, Calm
<1>6. EscrowIsOwned'
  BY DEF EscrowIsOwned, Calm
<1>7. EscrowBacksAccusation'
  <2> SUFFICES ASSUME NEW c \in Consumers, NEW e \in pending'[c], e.docked, LiveAddr(e.addr) = e.addr
               PROVE  withheld'[c][e.addr] >= e.maturesAt
    BY DEF EscrowBacksAccusation, LiveAddr
  <2>0. pending'[c] = pending[c]
    BY DEF Calm
  <2>1. e \in pending[c] /\ e.addr \in Addrs
    BY <2>0 DEF DTTypeOK, PendingSlash
  <2>2. withheld'[c][e.addr] = withheld[c][e.addr]
    BY <2>1 DEF Calm
  <2> QED BY <2>1, <2>2 DEF EscrowBacksAccusation
<1>8. MarksAreOfThisEpoch'
  BY DEF EntriesInv
<1> QED BY <1>1, <1>2, <1>3, <1>4, <1>5, <1>6, <1>7, <1>8

\* The consumer pauses, stops, goes.
LEMMA EndingKeepsRecords ==
  ASSUME RecordsInv, EntriesInv', NEW c \in Consumers,
         \/ Challenges(c) \/ PauseWithDowntime(c) \/ StopWithDowntime(c) \/ DeleteWithDowntime(c)
  PROVE  RecordsInv'
<1>1. /\ \E p \in {"PAUSED", "STOPPED", "DELETED"} : phase' = [phase EXCEPT ![c] = p]
      /\ pending' = [pending EXCEPT ![c] = {}]
      /\ valset' = valset \/ valset' = [valset EXCEPT ![c] = {}]
      /\ accepted' = accepted \/ accepted' = [accepted EXCEPT ![c] = {}]
      /\ floor' = floor \/ floor' = [floor EXCEPT ![c] = NoneSince]
      /\ withheld' = withheld \/ withheld' = [withheld EXCEPT ![c] = NoneSince]
      /\ UNCHANGED <<now, owner, live, leftAt, params, paidAt, accused>>
  BY DEF Challenges, ChallengeConsumerDowntime, PauseWithDowntime, StopWithDowntime,
         DeleteWithDowntime, CancelConsumerDowntimeState, PauseConsumer, StopConsumer,
         DeleteConsumer, MovesTo, stakingVars
<1>2. DTTypeOK /\ phase \in [Consumers -> Phases]
  BY DEF RecordsInv, RecordsAreSound, EntriesInv, IInv, TypeOK
<1>3. NoneSince \in [Addrs -> Nat] /\ \A p \in Addrs : NoneSince[p] = 0
  BY DEF NoneSince
<1>4. DTTypeOK'
  <2>1. valset' \in [Consumers -> SUBSET Addrs] /\ marks' \in [Consumers -> SUBSET Addrs]
    BY DEF EntriesInv
  <2>2. pending' \in [Consumers -> SUBSET PendingSlash]
    BY <1>1, <1>2 DEF DTTypeOK
  <2>3. accepted' \in [Consumers -> SUBSET AcceptedWindow]
    BY <1>1, <1>2 DEF DTTypeOK
  <2>4. floor' \in [Consumers -> [Addrs -> Nat]]
    <3>1. floor \in [Consumers -> [Addrs -> Nat]] /\ NoneSince \in [Addrs -> Nat]
      BY <1>2, <1>3 DEF DTTypeOK
    <3> QED BY <1>1, <3>1
  <2>5. withheld' \in [Consumers -> [Addrs -> Nat]]
    <3>1. withheld \in [Consumers -> [Addrs -> Nat]] /\ NoneSince \in [Addrs -> Nat]
      BY <1>2, <1>3 DEF DTTypeOK
    <3> QED BY <1>1, <3>1
  <2> QED BY <1>1, <1>2, <2>1, <2>2, <2>3, <2>4, <2>5 DEF DTTypeOK
<1>5. ASSUME NEW d \in Consumers PROVE Calm(d)
  <2>1. CASE d = c
    BY <1>1, <1>2, <1>3, <2>1 DEF Calm, DTTypeOK
  <2>2. CASE d # c
    BY <1>1, <1>2, <2>2 DEF Calm, DTTypeOK
  <2> QED BY <2>1, <2>2
<1> QED BY <1>1, <1>4, <1>5, CalmStepKeepsRecords

\* The consumer starts or resumes; slashes are queued only while it runs.
LEMMA StartKeepsRecords ==
  ASSUME RecordsInv, EntriesInv', NEW c \in Consumers, StartWithDowntime(c)
  PROVE  RecordsInv'
<1>1. /\ phase[c] # "LAUNCHED" /\ phase' = [phase EXCEPT ![c] = "LAUNCHED"]
      /\ valset' = [valset EXCEPT ![c] = BondedAddrs]
      /\ UNCHANGED <<now, owner, live, leftAt, params, pending, accepted, floor, marks, withheld,
                     paidAt, accused>>
  BY DEF StartWithDowntime, LaunchConsumer, ResumeConsumer, MovesTo, stakingVars
<1>2. DTTypeOK /\ phase \in [Consumers -> Phases]
  BY DEF RecordsInv, RecordsAreSound, EntriesInv, IInv, TypeOK
<1>3. DTTypeOK'
  <2>1. valset' \in [Consumers -> SUBSET Addrs]
    BY DEF EntriesInv
  <2> QED BY <1>1, <1>2, <2>1 DEF DTTypeOK
<1>4. pending[c] = {}
  BY <1>1 DEF RecordsInv, RecordsAreSound, PendingIsOpen
<1>5. \A d \in Consumers : Calm(d)
  BY <1>1, <1>2, <1>4 DEF Calm, DTTypeOK
<1> QED BY <1>1, <1>3, <1>5, CalmStepKeepsRecords

\* Governance, restarts, key assignments and recorded rotations.
LEMMA QuietStepKeepsRecords ==
  ASSUME RecordsInv, EntriesInv', params' \in ParamChoices,
         valset' = valset \/ valset' = [c \in Consumers |-> {}],
         UNCHANGED <<now, phase, owner, live, leftAt, pending, accepted, floor, marks, withheld,
                     paidAt, accused>>
  PROVE  RecordsInv'
<1>1. DTTypeOK
  BY DEF RecordsInv, RecordsAreSound
<1>2. DTTypeOK'
  <2>1. valset' \in [Consumers -> SUBSET Addrs]
    BY DEF EntriesInv
  <2> QED BY <1>1, <2>1 DEF DTTypeOK
<1>3. \A d \in Consumers : Calm(d)
  BY <1>1 DEF Calm, DTTypeOK
<1> QED BY <1>2, <1>3, CalmStepKeepsRecords

\* What staking does leaves the records as they are.
LEMMA RecordsSpared ==
  ASSUME RecordsInv, EntriesInv', UNCHANGED <<now, phase, daVars>>
  PROVE  /\ DTTypeOK' /\ ImportableState' /\ MarksAreOfThisEpoch' /\ PendingIsOpen'
         /\ AcceptedIsRecent'
<1> USE DEF RecordsInv, RecordsAreSound, daVars
<1>1. DTTypeOK'
  BY DEF DTTypeOK
<1>2. ImportableState'
  BY DEF ImportableState
<1>3. PendingIsOpen'
  BY DEF PendingIsOpen
<1>4. AcceptedIsRecent'
  BY DEF AcceptedIsRecent
<1>5. MarksAreOfThisEpoch'
  BY DEF EntriesInv
<1> QED BY <1>1, <1>2, <1>3, <1>4, <1>5

\* Every queued slash is of a validator.
LEMMA AccusedExists ==
  ASSUME DTTypeOK, ImportableState, AcceptedIsAnswered, NEW c \in Consumers
  PROVE  /\ \A e \in accepted[c] : e.addr \in Addrs /\ owner[e.addr] # NoVal
         /\ \A e \in pending[c] : e.addr \in Addrs /\ owner[e.addr] # NoVal
<1>1. \A e \in accepted[c] : e.addr \in Addrs /\ owner[e.addr] # NoVal
  BY DEF DTTypeOK, AcceptedWindow, AcceptedIsAnswered, AnsweredFor
<1>2. ASSUME NEW e \in pending[c] PROVE e.addr \in Addrs /\ owner[e.addr] # NoVal
  <2>1. PICK f \in accepted[c] : SameKey(e, f)
    BY DEF ImportableState
  <2> QED BY <1>1, <2>1 DEF SameKey
<1> QED BY <1>1, <1>2

\* A validator leaves the bonded set: all it was accused of was before.
LEMMA UnbondingKeepsRecords ==
  ASSUME RecordsInv, EntriesInv', NEW v \in Validators, BeginUnbonding(v), UNCHANGED daVars
  PROVE  RecordsInv'
<1> USE DEF RecordsInv, RecordsAreSound
<1>0. /\ UNCHANGED <<now, phase, live, owner>> /\ leftAt' = [leftAt EXCEPT ![v] = now]
      /\ UNCHANGED <<valset, pending, accepted, floor, withheld, accused>>
  BY DEF BeginUnbonding, daVars
<1>1. /\ now \in Nat \ {0} /\ leftAt \in [Validators -> Nat]
      /\ owner \in [Addrs -> Validators \cup {NoVal}]
  BY ConstantsAssumption DEF EntriesInv, IInv, TypeOK, Times
<1>2. /\ DTTypeOK' /\ ImportableState' /\ MarksAreOfThisEpoch' /\ PendingIsOpen'
      /\ AcceptedIsRecent'
  BY <1>0, RecordsSpared
<1>3. \A w \in Validators : leftAt'[w] = IF w = v THEN now ELSE leftAt[w]
  BY <1>0, <1>1
<1>d. /\ BlocksPerEpoch \in Nat /\ \A q \in ParamChoices : q.challenge \in Nat /\ q.maxAge \in Nat
  BY DowntimeAssumption
<1>4. SetIsCurrent'
  <2> SUFFICES ASSUME NEW c \in Consumers, phase[c] = "LAUNCHED", NEW a \in valset[c]
               PROVE  /\ owner[a] # NoVal
                      /\ leftAt'[owner[a]] # 0 =>
                           \A t \in leftAt'[owner[a]] .. (now - 1) : t % BlocksPerEpoch # 0
    BY <1>0 DEF SetIsCurrent
  <2>1. a \in Addrs /\ owner[a] \in Validators
    BY <1>1 DEF DTTypeOK, SetIsCurrent
  <2>2. CASE owner[a] = v
    BY <1>1, <1>3, <2>1, <2>2 DEF SetIsCurrent
  <2>3. CASE owner[a] # v
    BY <1>3, <2>1, <2>3 DEF SetIsCurrent
  <2> QED BY <2>2, <2>3
<1>5. ASSUME NEW c \in Consumers, NEW p \in Addrs, NEW h \in Nat, h <= now, AnsweredFor(c, p, h)
      PROVE  AnsweredFor(c, p, h)'
  BY <1>0, <1>1, <1>3, <1>5, <1>d DEF AnsweredFor
<1>6. AcceptedIsAnswered'
  <2>1. \A c \in Consumers : \A e \in accepted[c] : e.addr \in Addrs /\ e.end \in Nat /\ e.end <= now
    <3> SUFFICES ASSUME NEW c \in Consumers, NEW e \in accepted[c]
                 PROVE  e.addr \in Addrs /\ e.end \in Nat /\ e.end <= now
      OBVIOUS
    <3>1. e \in AcceptedWindow /\ e.end <= e.at /\ e.at <= now
      BY DEF DTTypeOK, AcceptedIsRecent
    <3> QED BY <1>1, <3>1 DEF AcceptedWindow
  <2>2. \A c \in Consumers : \A e \in accepted[c] : AnsweredFor(c, e.addr, e.end)'
    BY <1>5, <2>1 DEF AcceptedIsAnswered
  <2> QED BY <1>0, <2>2 DEF AcceptedIsAnswered
<1>7. FloorsAreOld'
  <2> SUFFICES ASSUME NEW c \in Consumers, NEW p \in Addrs, floor[c][p] # 0
               PROVE  /\ \E q \in ParamChoices : floor[c][p] + q.challenge + q.maxAge < now
                      /\ \/ floor[c][p] + Unbonding <= now + BlocksPerEpoch
                         \/ AnsweredFor(c, p, floor[c][p])'
    BY <1>0 DEF FloorsAreOld
  <2>1. floor[c][p] \in Nat /\ \E q \in ParamChoices : floor[c][p] + q.challenge + q.maxAge < now
    BY DEF DTTypeOK, FloorsAreOld
  <2>2. floor[c][p] <= now
    BY <1>1, <1>d, <2>1
  <2>3. floor[c][p] + Unbonding <= now + BlocksPerEpoch \/ AnsweredFor(c, p, floor[c][p])
    BY DEF FloorsAreOld
  <2>4. ASSUME NEW h \in Nat, h = floor[c][p], AnsweredFor(c, p, h)
        PROVE  AnsweredFor(c, p, floor[c][p])'
    BY <1>0, <1>5, <2>2, <2>4 DEF AnsweredFor
  <2> QED BY <2>1, <2>3, <2>4
<1>8. EscrowIsOwned'
  <2> SUFFICES ASSUME NEW c \in Consumers, NEW p \in Addrs, withheld[c][p] # 0
               PROVE  /\ now < withheld[c][p] /\ owner[p] # NoVal
                      /\ \E q \in ParamChoices : withheld[c][p] <= q.challenge +
                           IF leftAt'[owner[p]] = 0 THEN now ELSE leftAt'[owner[p]]
    BY <1>0 DEF EscrowIsOwned
  <2>1. owner[p] \in Validators
    BY <1>1 DEF EscrowIsOwned
  <2>2. CASE owner[p] = v
    <3>1. leftAt[v] = 0 /\ leftAt'[v] = now
      BY <1>3 DEF BeginUnbonding, Bonded
    <3> QED BY <1>1, <2>2, <3>1 DEF EscrowIsOwned
  <2>3. CASE owner[p] # v
    BY <1>3, <2>1, <2>3 DEF EscrowIsOwned
  <2> QED BY <2>2, <2>3
<1>9. EscrowBacksAccusation'
  BY <1>0 DEF EscrowBacksAccusation, LiveAddr
<1> QED BY <1>2, <1>4, <1>6, <1>7, <1>8, <1>9

\* Nothing is kept of a window for as long as an unbonding lasts.
LEMMA RecordsEndFirst ==
  ASSUME UnbondingOutlastsRecords, RecordsInv, NEW c \in Consumers
  PROVE  /\ \A e \in accepted[c] :
              /\ e.end \in Nat /\ e.start \in Nat \ {0} /\ e.start <= e.end
              /\ now + BlocksPerEpoch < e.start + Unbonding
         /\ \A q \in ParamChoices : q.challenge \in Nat /\ q.challenge + BlocksPerEpoch < Unbonding
         /\ BlocksPerEpoch < Unbonding
<1> USE ConstantsAssumption, DowntimeAssumption
<1>1. now \in Nat /\ Unbonding \in Nat /\ BlocksPerEpoch \in Nat
  BY DEF RecordsInv, EntriesInv, IInv, TypeOK
<1>2. /\ \A q \in ParamChoices : q.maxAge \in Nat /\ q.challenge \in Nat
      /\ \A w \in Windows : w.start \in Nat \ {0} /\ w.end \in Nat /\ w.start <= w.end
  OBVIOUS
<1>3. ASSUME NEW e \in accepted[c]
      PROVE  /\ e.end \in Nat /\ e.start \in Nat \ {0} /\ e.start <= e.end
             /\ now + BlocksPerEpoch < e.start + Unbonding
  <2>1. PICK w \in Windows : w.start = e.start /\ w.end = e.end
    BY DEF RecordsInv, RecordsAreSound, AcceptedIsRecent
  <2>2. PICK q \in ParamChoices, r \in ParamChoices : now <= e.end + q.maxAge + r.challenge + r.maxAge
    BY DEF RecordsInv, RecordsAreSound, AcceptedIsRecent
  <2>3. (w.end - w.start) + q.maxAge + r.challenge + r.maxAge + BlocksPerEpoch < Unbonding
    BY DEF UnbondingOutlastsRecords
  <2> QED BY <1>1, <1>2, <2>1, <2>2, <2>3
<1>4. ASSUME NEW q \in ParamChoices
      PROVE  q.challenge \in Nat /\ q.challenge + BlocksPerEpoch < Unbonding
  <2>1. PICK w \in Windows : TRUE
    OBVIOUS
  <2>2. (w.end - w.start) + q.maxAge + q.challenge + q.maxAge + BlocksPerEpoch < Unbonding
    BY DEF UnbondingOutlastsRecords
  <2> QED BY <1>1, <1>2, <2>2
<1>5. BlocksPerEpoch < Unbonding
  BY <1>1, <1>4
<1> QED BY <1>3, <1>4, <1>5

\* A validator is removed: nothing but floors is kept of it.
LEMMA RemovalKeepsRecords ==
  ASSUME UnbondingOutlastsRecords, RecordsInv, EntriesInv',
         NEW v \in Validators, RemoveValidator(v), UNCHANGED daVars
  PROVE  RecordsInv'
<1> USE DEF RecordsInv, RecordsAreSound
<1>0. /\ UNCHANGED <<now, phase, leftAt>>
      /\ UNCHANGED <<valset, pending, accepted, floor, withheld, accused>>
  BY DEF RemoveValidator, daVars
<1>1. /\ now \in Nat /\ leftAt \in [Validators -> Nat] /\ Unbonding \in Nat /\ BlocksPerEpoch \in Nat
      /\ owner \in [Addrs -> Validators \cup {NoVal}] /\ IInv /\ NoVal \notin Validators
  BY ConstantsAssumption, DowntimeAssumption DEF EntriesInv, IInv, TypeOK, Times
<1>2. /\ DTTypeOK' /\ ImportableState' /\ MarksAreOfThisEpoch' /\ PendingIsOpen'
      /\ AcceptedIsRecent'
  BY <1>0, RecordsSpared
<1>3. leftAt[v] # 0 /\ leftAt[v] + Unbonding <= now
  BY DEF RemoveValidator, Bonded
<1>4. \A p \in Addrs : owner'[p] = IF owner[p] = v THEN NoVal ELSE owner[p]
  BY DEF RemoveValidator
<1>5. SetIsCurrent'
  <2> SUFFICES ASSUME NEW c \in Consumers, phase[c] = "LAUNCHED", NEW a \in valset[c]
               PROVE  owner'[a] = owner[a]
    BY <1>0 DEF SetIsCurrent
  <2>1. a \in Addrs
    BY DEF DTTypeOK
  <2>2. leftAt[owner[a]] = 0 \/ now <= leftAt[owner[a]] + BlocksPerEpoch
    BY <1>1, <2>1, SetIsRecent
  <2>3. BlocksPerEpoch < Unbonding
    BY RecordsEndFirst
  <2>4. owner[a] # v
    BY <1>1, <1>3, <2>2, <2>3
  <2> QED BY <1>4, <2>1, <2>4
<1>6. \A c \in Consumers : \A e \in accepted[c] : owner'[e.addr] = owner[e.addr]
  <2> SUFFICES ASSUME NEW c \in Consumers, NEW e \in accepted[c] PROVE owner'[e.addr] = owner[e.addr]
    OBVIOUS
  <2>1. e.addr \in Addrs /\ (leftAt[owner[e.addr]] = 0 \/ e.end <= leftAt[owner[e.addr]] + BlocksPerEpoch)
    BY AccusedExists DEF AcceptedIsAnswered, AnsweredFor
  <2>2. /\ e.end \in Nat /\ e.start \in Nat /\ e.start <= e.end
        /\ now + BlocksPerEpoch < e.start + Unbonding
    BY RecordsEndFirst
  <2>3. owner[e.addr] # v
    BY <1>1, <1>3, <2>1, <2>2
  <2> QED BY <1>4, <2>1, <2>3
<1>7. AcceptedIsAnswered'
  BY <1>0, <1>6 DEF AcceptedIsAnswered, AnsweredFor
<1>8. FloorsAreOld'
  <2> SUFFICES ASSUME NEW c \in Consumers, NEW p \in Addrs, floor[c][p] # 0
               PROVE  /\ \E q \in ParamChoices : floor[c][p] + q.challenge + q.maxAge < now
                      /\ \/ floor[c][p] + Unbonding <= now + BlocksPerEpoch
                         \/ AnsweredFor(c, p, floor[c][p])'
    BY <1>0 DEF FloorsAreOld
  <2>1. /\ floor[c][p] \in Nat /\ \E q \in ParamChoices : floor[c][p] + q.challenge + q.maxAge < now
        /\ floor[c][p] + Unbonding <= now + BlocksPerEpoch \/ AnsweredFor(c, p, floor[c][p])
    BY DEF DTTypeOK, FloorsAreOld
  <2>2. ASSUME AnsweredFor(c, p, floor[c][p]), owner[p] = v
        PROVE  floor[c][p] + Unbonding <= now + BlocksPerEpoch
    <3>1. floor[c][p] <= leftAt[v] + BlocksPerEpoch
      BY <1>3, <2>2 DEF AnsweredFor
    <3> QED BY <1>1, <1>3, <2>1, <3>1
  <2>3. ASSUME AnsweredFor(c, p, floor[c][p]), owner[p] # v PROVE AnsweredFor(c, p, floor[c][p])'
    BY <1>0, <1>4, <2>3 DEF AnsweredFor
  <2> QED BY <2>1, <2>2, <2>3
<1>9. EscrowIsOwned'
  <2> SUFFICES ASSUME NEW c \in Consumers, NEW p \in Addrs, withheld[c][p] # 0
               PROVE  owner'[p] = owner[p]
    BY <1>0 DEF EscrowIsOwned
  <2>1. PICK q \in ParamChoices :
          withheld[c][p] <= q.challenge + IF leftAt[owner[p]] = 0 THEN now ELSE leftAt[owner[p]]
    BY DEF EscrowIsOwned
  <2>2. now < withheld[c][p] /\ withheld[c][p] \in Nat
    BY DEF EscrowIsOwned, DTTypeOK
  <2>3. q.challenge \in Nat /\ q.challenge + BlocksPerEpoch < Unbonding
    BY RecordsEndFirst
  <2>4. owner[p] # v
    BY <1>1, <1>3, <2>1, <2>2, <2>3
  <2> QED BY <1>4, <2>4
<1>10. EscrowBacksAccusation'
  <2> SUFFICES ASSUME NEW c \in Consumers, NEW e \in pending[c]
               PROVE  LiveAddr(e.addr)' = LiveAddr(e.addr)
    BY <1>0 DEF EscrowBacksAccusation
  <2>1. PICK f \in accepted[c] : e.addr = f.addr
    BY DEF ImportableState, SameKey
  <2>2. owner'[e.addr] = owner[e.addr]
    BY <1>6, <2>1
  <2>3. owner[e.addr] # v
    BY <1>1, <1>4, <2>1, <2>2, AccusedExists
  <2>4. \A w \in Validators : w # v => live'[w] = live[w]
    BY <1>1 DEF RemoveValidator, IInv, TypeOK
  <2>5. owner[e.addr] = NoVal \/ owner[e.addr] \in Validators
    BY <1>1, <2>1, AccusedExists
  <2> QED BY <2>2, <2>3, <2>4, <2>5 DEF LiveAddr
<1> QED BY <1>2, <1>5, <1>7, <1>8, <1>9, <1>10

\* A validator is created, where no record is kept.
LEMMA CreationKeepsRecords ==
  ASSUME RecordsInv, EntriesInv', NEW v \in Validators, NEW a \in Addrs, CreateValidator(v, a),
         UNCHANGED daVars
  PROVE  RecordsInv'
<1> USE DEF RecordsInv, RecordsAreSound
<1>0. /\ UNCHANGED <<now, phase>> /\ owner[a] = NoVal
      /\ UNCHANGED <<valset, pending, accepted, floor, withheld, accused>>
  BY DEF CreateValidator, daVars
<1>1. /\ leftAt \in [Validators -> Nat] /\ live \in [Validators -> Addrs \cup {NoAddr}]
      /\ owner \in [Addrs -> Validators \cup {NoVal}] /\ NoVal \notin Validators
  BY ConstantsAssumption DEF EntriesInv, IInv, TypeOK, Times
<1>2. /\ DTTypeOK' /\ ImportableState' /\ MarksAreOfThisEpoch' /\ PendingIsOpen'
      /\ AcceptedIsRecent'
  BY <1>0, RecordsSpared
<1>3. ASSUME NEW p \in Addrs, owner[p] # NoVal
      PROVE  /\ owner'[p] = owner[p] /\ leftAt'[owner[p]] = leftAt[owner[p]]
             /\ live'[owner[p]] = live[owner[p]]
  <2>1. owner[p] \in Validators /\ owner[p] # v /\ p # a
    BY <1>0, <1>1, <1>3 DEF EntriesInv, IInv, AddressesHaveOneOwner, CreateValidator
  <2> QED BY <1>1, <2>1 DEF CreateValidator
<1>4. SetIsCurrent'
  <2>1. \A c \in Consumers : valset[c] \subseteq Addrs
    BY DEF DTTypeOK
  <2> QED BY <1>0, <1>3, <2>1 DEF SetIsCurrent
<1>5. ASSUME NEW c \in Consumers, NEW p \in Addrs, NEW h, AnsweredFor(c, p, h)
      PROVE  /\ owner'[p] # NoVal
             /\ leftAt'[owner'[p]] = 0 \/ h <= leftAt'[owner'[p]] + BlocksPerEpoch
             /\ \E b \in Addrs : <<owner'[p], b, h>> \in accused'[c]
  BY <1>0, <1>3, <1>5 DEF AnsweredFor
<1>6. AcceptedIsAnswered'
  <2>1. \A c \in Consumers : \A e \in accepted[c] : e.addr \in Addrs
    BY AccusedExists
  <2> QED BY <1>0, <1>5, <2>1 DEF AcceptedIsAnswered, AnsweredFor
<1>7. FloorsAreOld'
  BY <1>0, <1>5 DEF FloorsAreOld, AnsweredFor
<1>8. EscrowIsOwned'
  BY <1>0, <1>3 DEF EscrowIsOwned
<1>9. EscrowBacksAccusation'
  <2> SUFFICES ASSUME NEW c \in Consumers, NEW e \in pending[c]
               PROVE  LiveAddr(e.addr)' = LiveAddr(e.addr)
    BY <1>0 DEF EscrowBacksAccusation
  <2>1. e.addr \in Addrs /\ owner[e.addr] # NoVal
    BY AccusedExists
  <2> QED BY <1>3, <2>1 DEF LiveAddr
<1> QED BY <1>2, <1>4, <1>6, <1>7, <1>8, <1>9

(***************************************************************************)
(* Evidence is accepted.                                                   *)
(***************************************************************************)
\* It accuses the validator that the consumer's set has, which left no epoch ago.
LEMMA EvidenceIsOfTheSet ==
  ASSUME RecordsInv, NEW c \in Consumers, NEW a \in Addrs, NEW w, NEW anchor, NEW tokens,
         ConsumerDowntime(c, a, w, anchor, tokens)
  PROVE  LET p == GetProviderAddrFromConsumerAddr(c, a)
         IN  /\ p \in Addrs /\ owner[p] \in Validators
             /\ leftAt[owner[p]] = 0 \/ now <= leftAt[owner[p]] + BlocksPerEpoch
<1> DEFINE p == GetProviderAddrFromConsumerAddr(c, a)
           s == accusedConsumerValidatorAddr(c, p)
<1>1. IInv /\ SetIsCurrent /\ phase[c] = "LAUNCHED" /\ s \in valset[c] /\ valset[c] \subseteq Addrs
  BY DEF ConsumerDowntime, RecordsInv, RecordsAreSound, EntriesInv
<1>2. p \in Addrs
  BY <1>1 DEF GetProviderAddrFromConsumerAddr, IInv, TypeOK
<1>3. /\ owner \in [Addrs -> Validators \cup {NoVal}]
      /\ \A x \in Addrs : owner[x] # NoVal => owner[live[owner[x]]] = owner[x]
  BY <1>1 DEF IInv, TypeOK, AddressesHaveOneOwner
<1>4. s \in Addrs /\ owner[s] # NoVal
  BY <1>1 DEF SetIsCurrent
<1>5. owner[s] = owner[p]
  <2>1. CASE p \in valset[c]
    BY <2>1 DEF accusedConsumerValidatorAddr
  <2>2. CASE p \notin valset[c] /\ owner[p] = NoVal
    BY <1>1, <2>2 DEF accusedConsumerValidatorAddr, LiveAddr
  <2>3. CASE p \notin valset[c] /\ owner[p] # NoVal
    BY <1>2, <1>3, <2>3 DEF accusedConsumerValidatorAddr, LiveAddr
  <2> QED BY <2>1, <2>2, <2>3
<1> HIDE DEF s
<1>6. /\ owner[s] \in Validators
      /\ leftAt[owner[s]] = 0 \/ now <= leftAt[owner[s]] + BlocksPerEpoch
  BY <1>1, <1>4, SetIsRecent
<1> QED BY <1>2, <1>5, <1>6

LEMMA EvidenceKeepsRecords ==
  ASSUME RecordsInv, EntriesInv', NEW c \in Consumers, ConsumerDowntimes(c)
  PROVE  RecordsInv'
<1> USE DEF RecordsInv, RecordsAreSound
<1>e. PICK a \in Addrs, w \in Windows, tokens \in Amounts :
         \E anchor \in Anchors(w) : ConsumerDowntime(c, a, w, anchor, tokens)
  BY DEF ConsumerDowntimes
<1>0. PICK anchor \in Anchors(w) : ConsumerDowntime(c, a, w, anchor, tokens)
  BY <1>e
<1> DEFINE p == GetProviderAddrFromConsumerAddr(c, a)
           slash == [addr |-> p, cons |-> a, start |-> w.start, end |-> w.end, tokens |-> tokens,
                     maturesAt |-> now + params.challenge, docked |-> FALSE]
           window == [addr |-> p, start |-> w.start, end |-> w.end, at |-> now]
<1>1. /\ phase[c] = "LAUNCHED" /\ Fresh(w, anchor) /\ NewWindow(c, p, w)
      /\ pending' = [pending EXCEPT ![c] = Put(@, slash)]
      /\ accepted' = [accepted EXCEPT ![c] = Put(@, window)]
      /\ accused' = [accused EXCEPT ![c] = @ \cup ({owner[p]} \X {a} \X (w.start .. w.end))]
      /\ UNCHANGED <<now, phase, owner, live, leftAt, params, valset, floor, withheld, paidAt>>
  BY <1>0 DEF ConsumerDowntime, kaVars, stakingVars
<1>2. /\ p \in Addrs /\ owner[p] \in Validators
      /\ leftAt[owner[p]] = 0 \/ now <= leftAt[owner[p]] + BlocksPerEpoch
  BY <1>0, EvidenceIsOfTheSet
<1>3. /\ now \in Nat /\ leftAt \in [Validators -> Nat] /\ BlocksPerEpoch \in Nat
      /\ w.start \in Nat /\ w.end \in Nat /\ w.start <= w.end /\ tokens \in Nat
      /\ params \in ParamChoices /\ params.challenge \in Nat /\ params.maxAge \in Nat
      /\ anchor \in Nat /\ anchor <= w.end /\ w.end <= now /\ now - anchor <= params.maxAge
      /\ (now - anchor) + params.challenge < Trusting /\ Trusting \in Nat
  BY <1>1, ConstantsAssumption, DowntimeAssumption
     DEF EntriesInv, IInv, TypeOK, Times, Anchors, Fresh, DTTypeOK
<1>4. slash \in PendingSlash /\ window \in AcceptedWindow
  BY <1>2, <1>3 DEF PendingSlash, AcceptedWindow
<1>n. NoVal \notin Validators
  BY ConstantsAssumption
<1> HIDE DEF p
<1>5. /\ slash.addr = p /\ slash.start = w.start /\ slash.end = w.end /\ ~slash.docked
      /\ slash.maturesAt = now + params.challenge
      /\ window.addr = p /\ window.start = w.start /\ window.end = w.end /\ window.at = now
  OBVIOUS
<1> HIDE DEF slash, window
<1>6. /\ pending'[c] = {f \in pending[c] : ~SameKey(slash, f)} \cup {slash}
      /\ \A d \in Consumers : d # c => pending'[d] = pending[d] /\ accepted'[d] = accepted[d]
  BY <1>1 DEF DTTypeOK, Put
<1>7. \A f \in accepted[c] : /\ f.addr \in Addrs /\ f.start \in Nat /\ f.end \in Nat /\ f.start <= f.end
                             /\ f.addr = p => ~Intersect(f, w)
  <2> SUFFICES ASSUME NEW f \in accepted[c]
               PROVE  /\ f.addr \in Addrs /\ f.start \in Nat /\ f.end \in Nat /\ f.start <= f.end
                      /\ f.addr = p => ~Intersect(f, w)
    OBVIOUS
  <2>1. f \in AcceptedWindow /\ \E x \in Windows : x.start = f.start /\ x.end = f.end
    BY DEF DTTypeOK, AcceptedIsRecent
  <2>2. f.addr \in Addrs /\ f.start \in Nat /\ f.end \in Nat /\ f.start <= f.end
    BY <2>1, DowntimeAssumption DEF AcceptedWindow
  <2> QED BY <1>1, <2>2 DEF NewWindow
<1>8. accepted'[c] = accepted[c] \cup {window}
  <2>1. accepted'[c] = {f \in accepted[c] : ~SameKey(window, f)} \cup {window}
    BY <1>1 DEF DTTypeOK, Put
  <2>2. \A f \in accepted[c] : ~SameKey(window, f)
    BY <1>3, <1>5, <1>7 DEF SameKey, Intersect
  <2> QED BY <2>1, <2>2
<1>9. \A d \in Consumers : accused[d] \subseteq accused'[d]
  BY <1>1 DEF DTTypeOK
<1>10. <<owner[p], a, w.end>> \in accused'[c]
  <2>1. accused'[c] = accused[c] \cup ({owner[p]} \X {a} \X (w.start .. w.end))
    BY <1>1 DEF DTTypeOK
  <2> QED BY <1>3, <2>1
<1>11. DTTypeOK'
  <2>1. pending' \in [Consumers -> SUBSET PendingSlash]
    <3>1. \A d \in Consumers : pending'[d] \subseteq PendingSlash
      BY <1>4, <1>6 DEF DTTypeOK
    <3>2. pending' = [d \in Consumers |-> pending'[d]]
      BY <1>1 DEF DTTypeOK
    <3> QED BY <3>1, <3>2
  <2>2. accepted' \in [Consumers -> SUBSET AcceptedWindow]
    <3>1. \A d \in Consumers : accepted'[d] \subseteq AcceptedWindow
      BY <1>4, <1>6, <1>8 DEF DTTypeOK
    <3>2. accepted' = [d \in Consumers |-> accepted'[d]]
      BY <1>1 DEF DTTypeOK
    <3> QED BY <3>1, <3>2
  <2>3. accused' \in [Consumers -> SUBSET Accusation]
    <3>1. ({owner[p]} \X {a} \X (w.start .. w.end)) \subseteq Accusation
      BY <1>2, <1>3 DEF Accusation
    <3> QED BY <1>1, <3>1 DEF DTTypeOK
  <2>4. marks' \in [Consumers -> SUBSET Addrs]
    BY DEF EntriesInv
  <2> QED BY <1>1, <2>1, <2>2, <2>3, <2>4 DEF DTTypeOK
<1>12. ImportableState'
  <2> SUFFICES ASSUME NEW d \in Consumers
               PROVE  /\ \A e, f \in accepted'[d] : e.addr = f.addr /\ e # f => ~Intersect(e, f)
                      /\ \A e \in accepted'[d] : e.start > floor[d][e.addr]
                      /\ \A e, f \in pending'[d] : SameKey(e, f) => e = f
                      /\ \A e \in pending'[d] : \E f \in accepted'[d] : SameKey(e, f) /\ e.start = f.start
    BY <1>1 DEF ImportableState, Intersect, SameKey
  <2>1. CASE d # c
    BY <1>6, <2>1 DEF ImportableState
  <2>2. CASE d = c
    <3>1. \A e \in accepted[c] : e.addr = window.addr => ~Intersect(e, window) /\ ~Intersect(window, e)
      BY <1>5, <1>7 DEF Intersect
    <3>2. \A e, f \in accepted'[c] : e.addr = f.addr /\ e # f => ~Intersect(e, f)
      BY <1>8, <3>1 DEF ImportableState
    <3>3. \A e \in accepted'[c] : e.start > floor[c][e.addr]
      BY <1>1, <1>5, <1>8 DEF ImportableState, NewWindow
    <3>4. \A e, f \in pending'[c] : SameKey(e, f) => e = f
      BY <1>6 DEF ImportableState, SameKey
    <3>5. \A e \in pending'[c] : \E f \in accepted'[c] : SameKey(e, f) /\ e.start = f.start
      BY <1>5, <1>6, <1>8 DEF ImportableState, SameKey
    <3> QED BY <2>2, <3>2, <3>3, <3>4, <3>5
  <2> QED BY <2>1, <2>2
<1>13. PendingIsOpen'
  <2> SUFFICES ASSUME NEW d \in Consumers, NEW e \in pending'[d]
               PROVE  /\ phase[d] = "LAUNCHED"
                      /\ now <= e.maturesAt /\ e.maturesAt < e.end + Trusting
                      /\ \E f \in accepted'[d], q \in ParamChoices :
                           SameKey(e, f) /\ e.maturesAt <= f.at + q.challenge
    BY <1>1 DEF PendingIsOpen, SameKey
  <2>1. CASE e \in pending[d]
    BY <1>6, <1>8, <2>1 DEF PendingIsOpen
  <2>2. CASE d = c /\ e = slash
    <3>1. now <= e.maturesAt /\ e.maturesAt < e.end + Trusting
      BY <1>3, <1>5, <2>2
    <3>2. SameKey(e, window) /\ e.maturesAt <= window.at + params.challenge
      BY <1>3, <1>5, <2>2 DEF SameKey
    <3> QED BY <1>1, <1>3, <1>8, <2>2, <3>1, <3>2
  <2> QED BY <1>6, <2>1, <2>2
<1>14. AcceptedIsRecent'
  <2> SUFFICES ASSUME NEW d \in Consumers, NEW e \in accepted'[d]
               PROVE  /\ \E x \in Windows : x.start = e.start /\ x.end = e.end
                      /\ e.end <= e.at /\ e.at <= now
                      /\ \E q \in ParamChoices : e.at <= e.end + q.maxAge
                      /\ \E q, r \in ParamChoices : now <= e.end + q.maxAge + r.challenge + r.maxAge
    BY <1>1 DEF AcceptedIsRecent
  <2>1. CASE e \in accepted[d]
    BY <2>1 DEF AcceptedIsRecent
  <2>2. CASE d = c /\ e = window
    <3>1. /\ e.end <= e.at /\ e.at <= now /\ e.at <= e.end + params.maxAge
          /\ now <= e.end + params.maxAge + params.challenge + params.maxAge
      BY <1>3, <1>5, <2>2
    <3> QED BY <1>3, <1>5, <2>2, <3>1
  <2> QED BY <1>6, <1>8, <2>1, <2>2
<1>15. SetIsCurrent'
  BY <1>1 DEF SetIsCurrent
<1>16. AcceptedIsAnswered'
  <2> SUFFICES ASSUME NEW d \in Consumers, NEW e \in accepted'[d]
               PROVE  /\ owner[e.addr] # NoVal
                      /\ leftAt[owner[e.addr]] = 0 \/ e.end <= leftAt[owner[e.addr]] + BlocksPerEpoch
                      /\ \E b \in Addrs : <<owner[e.addr], b, e.end>> \in accused'[d]
    BY <1>1 DEF AcceptedIsAnswered, AnsweredFor
  <2>1. CASE e \in accepted[d]
    BY <1>9, <2>1 DEF AcceptedIsAnswered, AnsweredFor
  <2>2. CASE d = c /\ e = window
    <3>1. leftAt[owner[p]] = 0 \/ w.end <= leftAt[owner[p]] + BlocksPerEpoch
      BY <1>2, <1>3
    <3> QED BY <1>2, <1>5, <1>10, <1>n, <2>2, <3>1
  <2> QED BY <1>6, <1>8, <2>1, <2>2
<1>17. FloorsAreOld'
  BY <1>1, <1>9 DEF FloorsAreOld, AnsweredFor
<1>18. EscrowIsOwned'
  BY <1>1 DEF EscrowIsOwned
<1>19. EscrowBacksAccusation'
  <2> SUFFICES ASSUME NEW d \in Consumers, NEW e \in pending'[d], e.docked, LiveAddr(e.addr) = e.addr
               PROVE  withheld[d][e.addr] >= e.maturesAt
    BY <1>1 DEF EscrowBacksAccusation, LiveAddr
  <2>1. e \in pending[d]
    BY <1>5, <1>6, Zenon
  <2> QED BY <2>1 DEF EscrowBacksAccusation
<1>20. MarksAreOfThisEpoch'
  BY DEF EntriesInv
<1> QED BY <1>11, <1>12, <1>13, <1>14, <1>15, <1>16, <1>17, <1>18, <1>19, <1>20

(***************************************************************************)
(* A block: the parts of NextBlock, and what they make of the records.     *)
(***************************************************************************)
KeptSlashes(c) == MigratedRecords(c, pending[c]) \ Matured(MigratedRecords(c, pending[c]))
GoneWindows(c) == Pruned(MigratedAccepted(c), KeptSlashes(c))
Docks(paying, c, a) == Distributes(c) /\ c \in paying /\ a \in Excluded(c, MigratedMarks(c))
SlashAfter(paying, c, k) ==
  [k EXCEPT !.docked = IF Docks(paying, c, k.addr) THEN now' + params.challenge >= k.maturesAt ELSE @]

LEMMA BlockSteps ==
  ASSUME RecordsInv, NEW paying \in SUBSET Consumers, NextBlock(paying)
  PROVE  /\ IInv /\ EndBlock /\ UNCHANGED <<phase, leftAt, params, accused>>
         /\ now \in Nat /\ now' \in Nat /\ now <= now' /\ now' <= now + 1
         /\ params \in ParamChoices /\ params.challenge \in Nat \ {0} /\ params.maxAge \in Nat
         /\ \A c \in Consumers :
              /\ valset'[c] = NextValSet(c)
              /\ accepted'[c] = MigratedAccepted(c) \ GoneWindows(c)
              /\ pending'[c] = {SlashAfter(paying, c, k) : k \in KeptSlashes(c)}
              /\ \A p \in Addrs :
                   /\ floor'[c][p] =
                        HighestEnd({e \in GoneWindows(c) : e.addr = p}, MigratedFloor(c)[p])
                   /\ withheld'[c][p] =
                        IF Docks(paying, c, p) THEN now' + params.challenge
                        ELSE IF Forfeited(MigratedRecords(c, pending[c]), p) THEN 0
                        ELSE Unexpired(MigratedWithheld(c)[p])
<1>1. IInv /\ EndBlock /\ UNCHANGED <<phase, leftAt, params, accused>>
  BY DEF RecordsInv, EntriesInv, NextBlock, EndBlock
<1>2. now \in Nat /\ now' \in Nat /\ now <= now' /\ now' <= now + 1
  BY <1>1 DEF IInv, TypeOK, EndBlock
<1>3. params \in ParamChoices /\ params.challenge \in Nat \ {0} /\ params.maxAge \in Nat
  BY DowntimeAssumption DEF RecordsInv, RecordsAreSound, DTTypeOK
<1>4. ASSUME NEW c \in Consumers
      PROVE  /\ valset'[c] = NextValSet(c)
             /\ accepted'[c] = MigratedAccepted(c) \ GoneWindows(c)
             /\ pending'[c] = {SlashAfter(paying, c, k) : k \in KeptSlashes(c)}
  BY DEF NextBlock, KeptSlashes, GoneWindows, SlashAfter, Docks
<1>5. ASSUME NEW c \in Consumers, NEW p \in Addrs
      PROVE  /\ floor'[c][p] = HighestEnd({e \in GoneWindows(c) : e.addr = p}, MigratedFloor(c)[p])
             /\ withheld'[c][p] =
                  IF Docks(paying, c, p) THEN now' + params.challenge
                  ELSE IF Forfeited(MigratedRecords(c, pending[c]), p) THEN 0
                  ELSE Unexpired(MigratedWithheld(c)[p])
  BY DEF NextBlock, KeptSlashes, GoneWindows, Docks
<1> QED BY <1>1, <1>2, <1>3, <1>4, <1>5

\* A window after the block's rotations is one from before, of the same validator.
WindowOf(c, g, e) ==
  /\ e.addr \in Addrs /\ owner[e.addr] # NoVal
  /\ g.addr = Moved(c, e.addr) /\ g.addr \in Addrs /\ owner'[g.addr] = owner[e.addr]
  /\ g.start = e.start /\ g.end = e.end /\ g.at = e.at
  /\ e.start \in Nat \ {0} /\ e.end \in Nat /\ e.at \in Nat /\ e.start <= e.end
  /\ e.end <= e.at /\ e.at <= now

LEMMA BlockMovesWindows ==
  ASSUME RecordsInv, NEW paying \in SUBSET Consumers, NextBlock(paying), NEW c \in Consumers
  PROVE  /\ MigratedAccepted(c) \subseteq AcceptedWindow
         /\ \A g \in MigratedAccepted(c) : \E e \in accepted[c] : WindowOf(c, g, e)
         /\ \A e \in accepted[c] : \E g \in MigratedAccepted(c) : WindowOf(c, g, e)
<1>1. IInv /\ EndBlock
  BY BlockSteps
<1>2. accepted[c] \subseteq AcceptedWindow /\ \A e \in accepted[c] : e.addr \in Addrs /\ owner[e.addr] # NoVal
  BY AccusedExists DEF RecordsInv, RecordsAreSound, DTTypeOK
<1>3. ASSUME NEW e \in accepted[c]
      PROVE  /\ e.start \in Nat \ {0} /\ e.end \in Nat /\ e.at \in Nat /\ e.start <= e.end
             /\ e.end <= e.at /\ e.at <= now
  <2>1. PICK w \in Windows : w.start = e.start /\ w.end = e.end
    BY DEF RecordsInv, RecordsAreSound, AcceptedIsRecent
  <2>2. w.start \in Nat \ {0} /\ w.end \in Nat /\ w.start <= w.end
    BY DowntimeAssumption
  <2>3. e.end <= e.at /\ e.at <= now /\ e.at \in Nat
    BY <1>2 DEF RecordsInv, RecordsAreSound, AcceptedIsRecent, AcceptedWindow
  <2> QED BY <2>1, <2>2, <2>3
<1>4. \A a \in Addrs : owner[a] # NoVal => Moved(c, a) \in Addrs /\ owner'[Moved(c, a)] = owner[a]
  BY <1>1, AddressesMoved
<1>5. /\ \A g \in MigratedAccepted(c) : \E e \in accepted[c] :
           /\ g.addr = Moved(c, e.addr) /\ g.start = e.start /\ g.end = e.end /\ g.at = e.at
           /\ g \in AcceptedWindow
      /\ \A e \in accepted[c] : \E g \in MigratedAccepted(c) :
           g.addr = Moved(c, e.addr) /\ g.start = e.start /\ g.end = e.end /\ g.at = e.at
  BY <1>1, <1>2, WindowsMoved
<1>6. ASSUME NEW g, NEW e \in accepted[c], g.addr = Moved(c, e.addr), g.start = e.start,
             g.end = e.end, g.at = e.at
      PROVE  WindowOf(c, g, e)
  BY <1>2, <1>3, <1>4, <1>6 DEF WindowOf
<1> QED BY <1>5, <1>6

\* A slash after the block is one from before, of the same validator, not matured.
SlashOf(paying, c, g, e) ==
  /\ e.addr \in Addrs /\ owner[e.addr] # NoVal
  /\ g = SlashAfter(paying, c, [e EXCEPT !.addr = Moved(c, e.addr)])
  /\ g.addr = Moved(c, e.addr) /\ g.addr \in Addrs /\ owner'[g.addr] = owner[e.addr]
  /\ g.start = e.start /\ g.end = e.end /\ g.maturesAt = e.maturesAt
  /\ g.docked = IF Docks(paying, c, g.addr) THEN now' + params.challenge >= e.maturesAt ELSE e.docked
  /\ e.maturesAt \in Nat /\ e.end \in Nat /\ now' < e.maturesAt

LEMMA BlockMovesSlashes ==
  ASSUME RecordsInv, NEW paying \in SUBSET Consumers, NextBlock(paying), NEW c \in Consumers
  PROVE  /\ pending'[c] \subseteq PendingSlash
         /\ \A k \in KeptSlashes(c) : \E e \in pending[c] : SlashOf(paying, c, SlashAfter(paying, c, k), e)
         /\ \A g \in pending'[c] :
              /\ \E e \in pending[c] : SlashOf(paying, c, g, e)
              /\ \E k \in KeptSlashes(c) : SameKey(g, k)
<1>1. IInv /\ EndBlock /\ now' \in Nat
  BY BlockSteps
<1>2. pending[c] \subseteq PendingSlash /\ \A e \in pending[c] : e.addr \in Addrs /\ owner[e.addr] # NoVal
  BY AccusedExists DEF RecordsInv, RecordsAreSound, DTTypeOK
<1>3. \A a \in Addrs : owner[a] # NoVal => Moved(c, a) \in Addrs /\ owner'[Moved(c, a)] = owner[a]
  BY <1>1, AddressesMoved
<1>4. ASSUME NEW k \in KeptSlashes(c)
      PROVE  /\ SlashAfter(paying, c, k) \in PendingSlash
             /\ \E e \in pending[c] : SlashOf(paying, c, SlashAfter(paying, c, k), e)
             /\ SameKey(SlashAfter(paying, c, k), k)
  <2>1. PICK e \in pending[c] : k = [e EXCEPT !.addr = Moved(c, e.addr)] /\ k \in PendingSlash
    BY <1>1, <1>2, SlashesMoved DEF KeptSlashes
  <2>2. k.addr = Moved(c, e.addr) /\ k.start = e.start /\ k.end = e.end /\ k.maturesAt = e.maturesAt
    BY <1>2, <2>1 DEF PendingSlash
  <2>3. k.docked = e.docked /\ e.docked \in BOOLEAN
    BY <1>2, <2>1 DEF PendingSlash
  <2>4. e.maturesAt \in Nat /\ e.end \in Nat
    BY <1>2 DEF PendingSlash
  <2>5. now' < e.maturesAt
    BY <1>1, <2>2, <2>4 DEF KeptSlashes, Matured
  <2> DEFINE d == IF Docks(paying, c, k.addr) THEN now' + params.challenge >= k.maturesAt ELSE k.docked
  <2>6. d \in BOOLEAN
    <3>1. CASE Docks(paying, c, k.addr)
      <4>1. d = (now' + params.challenge >= k.maturesAt)
        BY <3>1, Zenon
      <4>2. (now' + params.challenge >= k.maturesAt) \in BOOLEAN
        BY <1>1, <2>2, <2>4, BlockSteps, SMT
      <4> QED BY <4>1, <4>2, Zenon
    <3>2. CASE ~Docks(paying, c, k.addr)
      BY <2>3, <3>2, Zenon
    <3> QED BY <3>1, <3>2
  <2>7. SlashAfter(paying, c, k) = [k EXCEPT !.docked = d]
    BY DEF SlashAfter
  <2> HIDE DEF d
  <2>8. SlashAfter(paying, c, k) \in PendingSlash
    BY <2>1, <2>6, <2>7 DEF PendingSlash
  <2>9. LET g == SlashAfter(paying, c, k)
        IN  /\ g.addr = k.addr /\ g.start = k.start /\ g.end = k.end /\ g.maturesAt = k.maturesAt
            /\ g.docked = d
    BY <2>1, <2>7 DEF PendingSlash
  <2>10. SlashOf(paying, c, SlashAfter(paying, c, k), e)
    BY <1>2, <1>3, <2>1, <2>2, <2>3, <2>4, <2>5, <2>9 DEF SlashOf, d
  <2>11. SameKey(SlashAfter(paying, c, k), k)
    BY <2>9 DEF SameKey
  <2> QED BY <2>8, <2>10, <2>11
<1>5. pending'[c] = {SlashAfter(paying, c, k) : k \in KeptSlashes(c)}
  BY BlockSteps
<1> QED BY <1>4, <1>5

\* A window whose slash is still queued is kept; one that goes takes all lower ones of
\* its address along, which are past the horizon as well.
LEMMA BlockPrunesLowest ==
  ASSUME RecordsInv, NEW paying \in SUBSET Consumers, NextBlock(paying), NEW c \in Consumers
  PROVE  /\ \A g \in MigratedAccepted(c), k \in KeptSlashes(c) : SameKey(k, g) => g \notin GoneWindows(c)
         /\ \A g \in GoneWindows(c) : g \in MigratedAccepted(c) /\ g.at + Horizon < now'
         /\ \A g \in MigratedAccepted(c) \ GoneWindows(c) : \E f \in MigratedAccepted(c) :
              /\ f.addr = g.addr /\ f.end <= g.end
              /\ now' <= f.at + Horizon \/ \E k \in KeptSlashes(c) : SameKey(k, f)
              /\ \A x \in GoneWindows(c) : x.addr = g.addr => x.end < g.end
<1> DEFINE W == MigratedAccepted(c)
           G == GoneWindows(c)
           K == KeptSlashes(c)
<1>1. \A g \in W : g.at \in Nat /\ g.end \in Nat
  BY BlockMovesWindows DEF WindowOf
<1>2. now' \in Nat /\ Horizon \in Nat
  BY BlockSteps DEF Horizon
<1>3. G = {e \in W : \A f \in W : f.addr = e.addr /\ f.end <= e.end => Old(f, K)}
  BY DEF GoneWindows, Pruned
<1>4. \A f \in W : Old(f, K) <=> (f.at + Horizon < now' /\ \A k \in K : ~SameKey(f, k))
  BY <1>1, <1>2 DEF Old
<1>5. \A k, f : SameKey(f, k) <=> SameKey(k, f)
  BY DEF SameKey
<1> HIDE DEF W, G, K
<1>6. \A g \in G : g \in W /\ Old(g, K)
  BY <1>1, <1>3
<1>7. \A g \in W, k \in K : SameKey(k, g) => g \notin G
  BY <1>4, <1>5, <1>6
<1>8. ASSUME NEW g \in W \ G
      PROVE  \E f \in W : /\ f.addr = g.addr /\ f.end <= g.end
                          /\ now' <= f.at + Horizon \/ \E k \in K : SameKey(k, f)
                          /\ \A x \in G : x.addr = g.addr => x.end < g.end
  <2>1. PICK f \in W : f.addr = g.addr /\ f.end <= g.end /\ ~Old(f, K)
    BY <1>3
  <2>2. now' <= f.at + Horizon \/ \E k \in K : SameKey(k, f)
    BY <1>1, <1>2, <1>4, <1>5, <2>1
  <2>3. ASSUME NEW x \in G, x.addr = g.addr PROVE x.end < g.end
    <3>1. x \in W /\ ~(f.end <= x.end)
      BY <1>3, <2>1, <2>3
    <3> QED BY <1>1, <2>1, <3>1
  <2> QED BY <2>1, <2>2, <2>3
<1> QED BY <1>4, <1>6, <1>7, <1>8 DEF W, G, K

\* The floor an address has before the block's pruning is its own or the one its
\* validator takes along, if higher.
LEMMA BlockMovesFloor ==
  ASSUME RecordsInv, NEW paying \in SUBSET Consumers, NextBlock(paying), NEW c \in Consumers,
         NEW p \in Addrs
  PROVE  LET m == MigratedFloor(c)[p]
         IN  /\ m \in Nat /\ m <= now
             /\ \/ m = 0
                \/ m = floor[c][p]
                \/ \E b \in Addrs : m = floor[c][b] /\ KeepsIdentity(c, b) /\ p = RotatedTo(b)
<1>1. IInv /\ EndBlock /\ now \in Nat
  BY BlockSteps
<1>2. floor[c] \in [Addrs -> Nat]
  BY DEF RecordsInv, RecordsAreSound, DTTypeOK
<1>3. \A b \in Addrs : floor[c][b] <= now
  <2> SUFFICES ASSUME NEW b \in Addrs, floor[c][b] # 0 PROVE floor[c][b] <= now
    BY <1>1, <1>2
  <2>1. PICK q \in ParamChoices : floor[c][b] + q.challenge + q.maxAge < now
    BY DEF RecordsInv, RecordsAreSound, FloorsAreOld
  <2> QED BY <1>1, <1>2, <2>1, DowntimeAssumption
<1>4. ASSUME Arriving(p), KeepsIdentity(c, RotatedFrom(p))
      PROVE  RotatedFrom(p) \in Addrs /\ p = RotatedTo(RotatedFrom(p))
  <2>1. PICK v \in Rotating : rotations[v] = p
    BY <1>4 DEF Arriving
  <2>2. live[v] \in Addrs /\ RotatedTo(live[v]) = rotations[v] /\ RotatedFrom(rotations[v]) = live[v]
    BY <1>1, RotationsApplied
  <2> QED BY <2>1, <2>2
<1>5. MigratedFloor(c)[p] \in {0, floor[c][p]} \/
        (MigratedFloor(c)[p] = floor[c][RotatedFrom(p)] /\ Arriving(p) /\ KeepsIdentity(c, RotatedFrom(p)))
  BY <1>2 DEF MigratedFloor, Higher
<1> QED BY <1>1, <1>2, <1>3, <1>4, <1>5

\* A floor after the block is the one before, or the highest end of a window that went.
LEMMA BlockRaisesFloor ==
  ASSUME RecordsInv, NEW paying \in SUBSET Consumers, NextBlock(paying), NEW c \in Consumers,
         NEW p \in Addrs
  PROVE  /\ floor'[c][p] \in Nat
         /\ \/ floor'[c][p] = MigratedFloor(c)[p]
            \/ \E g \in GoneWindows(c) : g.addr = p /\ floor'[c][p] = g.end
         /\ MigratedFloor(c)[p] <= floor'[c][p]
         /\ \A g \in GoneWindows(c) : g.addr = p => g.end <= floor'[c][p]
<1> DEFINE S == {e \in GoneWindows(c) : e.addr = p}
           m == MigratedFloor(c)[p]
<1>1. now \in Nat /\ m \in 0 .. now
  BY BlockSteps, BlockMovesFloor
<1>2. \A e \in S : e.end \in 0 .. now
  <2> SUFFICES ASSUME NEW e \in GoneWindows(c) PROVE e.end \in 0 .. now
    OBVIOUS
  <2>1. PICK x \in accepted[c] : WindowOf(c, e, x)
    BY BlockMovesWindows, BlockPrunesLowest
  <2> QED BY <1>1, <2>1 DEF WindowOf
<1>3. floor'[c][p] = HighestEnd(S, m)
  BY BlockSteps
<1> HIDE DEF m
<1>4. /\ HighestEnd(S, m) \in 0 .. now
      /\ HighestEnd(S, m) = m \/ \E e \in S : HighestEnd(S, m) = e.end
      /\ m <= HighestEnd(S, m) /\ \A e \in S : e.end <= HighestEnd(S, m)
  <2> HIDE DEF S
  <2> QED BY <1>1, <1>2, HighestEndIsHighest
<1> QED BY <1>3, <1>4 DEF m

LEMMA BlockKeepsImportable ==
  ASSUME UnbondingOutlastsRecords, RecordsInv, NEW paying \in SUBSET Consumers, NextBlock(paying)
  PROVE  ImportableState'
<1> SUFFICES ASSUME NEW c \in Consumers
             PROVE  /\ \A e, f \in accepted'[c] : e.addr = f.addr /\ e # f => ~Intersect(e, f)
                    /\ \A e \in accepted'[c] : e.start > floor'[c][e.addr]
                    /\ \A e, f \in pending'[c] : SameKey(e, f) => e = f
                    /\ \A e \in pending'[c] : \E f \in accepted'[c] : SameKey(e, f) /\ e.start = f.start
  BY DEF ImportableState, Intersect, SameKey
<1>0. IInv /\ EndBlock
  BY BlockSteps
<1>1. accepted'[c] = MigratedAccepted(c) \ GoneWindows(c)
  BY BlockSteps
<1>2. \A a, b \in Addrs : owner[a] # NoVal /\ owner[b] # NoVal /\ Moved(c, a) = Moved(c, b) => a = b
  BY <1>0, AddressesMoved
<1>3. ASSUME NEW g \in MigratedAccepted(c), NEW h \in MigratedAccepted(c), g.addr = h.addr, g # h
      PROVE  ~Intersect(g, h)
  <2>1. PICK e \in accepted[c] : WindowOf(c, g, e)
    BY BlockMovesWindows
  <2>2. PICK f \in accepted[c] : WindowOf(c, h, f)
    BY BlockMovesWindows
  <2>3. e.addr = f.addr
    BY <1>2, <1>3, <2>1, <2>2 DEF WindowOf
  <2>4. e # f
    <3>1. g \in AcceptedWindow /\ h \in AcceptedWindow
      BY BlockMovesWindows
    <3>2. e = f => g.start = h.start /\ g.end = h.end /\ g.at = h.at
      BY <2>1, <2>2 DEF WindowOf
    <3> QED BY <1>3, <3>1, <3>2 DEF AcceptedWindow
  <2>5. ~Intersect(e, f)
    BY <2>3, <2>4 DEF RecordsInv, RecordsAreSound, ImportableState
  <2> QED BY <2>1, <2>2, <2>5 DEF WindowOf, Intersect
<1>4. ASSUME NEW g \in accepted'[c] PROVE g.start > floor'[c][g.addr]
  <2>0. g \in MigratedAccepted(c) /\ g \notin GoneWindows(c)
    BY <1>1
  <2>1. PICK e \in accepted[c] : WindowOf(c, g, e)
    BY <2>0, BlockMovesWindows
  <2>2. g.addr \in Addrs /\ g.start \in Nat \ {0} /\ g.end \in Nat /\ g.start <= g.end
    BY <2>1 DEF WindowOf
  <2>3. CASE \E x \in GoneWindows(c) : x.addr = g.addr /\ floor'[c][g.addr] = x.end
    <3>1. PICK x \in GoneWindows(c) : x.addr = g.addr /\ floor'[c][g.addr] = x.end
      BY <2>3
    <3>2. x \in MigratedAccepted(c) /\ x.end < g.end
      BY <2>0, <3>1, BlockPrunesLowest
    <3>3. x.start \in Nat /\ x.end \in Nat /\ x.start <= x.end
      BY <3>2, BlockMovesWindows DEF WindowOf
    <3>4. ~Intersect(x, g)
      BY <1>3, <2>0, <3>1, <3>2
    <3> QED BY <2>2, <3>1, <3>2, <3>3, <3>4 DEF Intersect
  <2>4. CASE floor'[c][g.addr] = MigratedFloor(c)[g.addr]
    <3>1. floor[c] \in [Addrs -> Nat] /\ e.start > floor[c][e.addr] /\ g.start = e.start
      BY <2>1 DEF RecordsInv, RecordsAreSound, DTTypeOK, ImportableState, WindowOf
    <3>2. ASSUME owner[g.addr] = NoVal PROVE g.start > floor[c][g.addr]
      <4>1. floor[c][g.addr] # 0 => floor[c][g.addr] + Unbonding <= now + BlocksPerEpoch
        BY <2>2, <3>2 DEF RecordsInv, RecordsAreSound, FloorsAreOld, AnsweredFor
      <4>2. now + BlocksPerEpoch < e.start + Unbonding
        BY RecordsEndFirst
      <4>3. now \in Nat /\ Unbonding \in Nat /\ BlocksPerEpoch \in Nat /\ floor[c][g.addr] \in Nat
        BY <2>2, <3>1, BlockSteps, ConstantsAssumption, DowntimeAssumption
      <4> QED BY <2>2, <3>1, <4>1, <4>2, <4>3
    <3>3. g.start > floor[c][g.addr]
      <4>1. CASE KeepsIdentity(c, e.addr)
        <5>1. owner[g.addr] = NoVal
          BY <1>0, <2>1, <4>1, AddressesMoved DEF WindowOf, Moved
        <5> QED BY <3>2, <5>1
      <4>2. CASE ~KeepsIdentity(c, e.addr)
        BY <2>1, <3>1, <4>2 DEF WindowOf, Moved
      <4> QED BY <4>1, <4>2
    <3>4. ASSUME NEW b \in Addrs, KeepsIdentity(c, b), g.addr = RotatedTo(b) PROVE b = e.addr
      <4>1. owner[b] # NoVal /\ Moved(c, b) = g.addr
        BY <1>0, <3>4, AddressesMoved DEF Moved
      <4> QED BY <1>2, <2>1, <4>1 DEF WindowOf
    <3> QED BY <2>2, <2>4, <3>1, <3>3, <3>4, BlockMovesFloor
  <2> QED BY <2>2, <2>3, <2>4, BlockRaisesFloor
<1>5. ASSUME NEW g \in pending'[c], NEW h \in pending'[c], SameKey(g, h) PROVE g = h
  <2>1. PICK e \in pending[c] : SlashOf(paying, c, g, e)
    BY BlockMovesSlashes
  <2>2. PICK f \in pending[c] : SlashOf(paying, c, h, f)
    BY BlockMovesSlashes
  <2>3. SameKey(e, f)
    BY <1>2, <1>5, <2>1, <2>2 DEF SlashOf, SameKey
  <2>4. e = f
    BY <2>3 DEF RecordsInv, RecordsAreSound, ImportableState
  <2> QED BY <2>1, <2>2, <2>4 DEF SlashOf
<1>6. ASSUME NEW g \in pending'[c]
      PROVE  \E f \in accepted'[c] : SameKey(g, f) /\ g.start = f.start
  <2>1. PICK e \in pending[c] : SlashOf(paying, c, g, e)
    BY BlockMovesSlashes
  <2>2. PICK f \in accepted[c] : SameKey(e, f) /\ e.start = f.start
    BY DEF RecordsInv, RecordsAreSound, ImportableState
  <2>3. PICK x \in MigratedAccepted(c) : WindowOf(c, x, f)
    BY BlockMovesWindows
  <2>4. SameKey(g, x) /\ g.start = x.start
    BY <2>1, <2>2, <2>3 DEF SlashOf, WindowOf, SameKey
  <2>5. PICK k \in KeptSlashes(c) : SameKey(g, k)
    BY BlockMovesSlashes
  <2>6. SameKey(k, x)
    BY <2>4, <2>5 DEF SameKey
  <2>7. x \notin GoneWindows(c)
    BY <2>6, BlockPrunesLowest
  <2> QED BY <1>1, <2>4, <2>7
<1> QED BY <1>1, <1>3, <1>4, <1>5, <1>6

LEMMA BlockKeepsOpen ==
  ASSUME RecordsInv, NEW paying \in SUBSET Consumers, NextBlock(paying)
  PROVE  PendingIsOpen'
<1> SUFFICES ASSUME NEW c \in Consumers, NEW g \in pending'[c]
             PROVE  /\ phase'[c] = "LAUNCHED"
                    /\ now' <= g.maturesAt /\ g.maturesAt < g.end + Trusting
                    /\ \E f \in accepted'[c], q \in ParamChoices :
                         SameKey(g, f) /\ g.maturesAt <= f.at + q.challenge
  BY DEF PendingIsOpen, SameKey
<1>1. PICK e \in pending[c] : SlashOf(paying, c, g, e)
  BY BlockMovesSlashes
<1>2. PICK f \in accepted[c], q \in ParamChoices : SameKey(e, f) /\ e.maturesAt <= f.at + q.challenge
  BY DEF RecordsInv, RecordsAreSound, PendingIsOpen
<1>3. PICK x \in MigratedAccepted(c) : WindowOf(c, x, f)
  BY BlockMovesWindows
<1>4. SameKey(g, x) /\ g.maturesAt <= x.at + q.challenge
  BY <1>1, <1>2, <1>3 DEF SlashOf, WindowOf, SameKey
<1>5. PICK k \in KeptSlashes(c) : SameKey(g, k)
  BY BlockMovesSlashes
<1>6. SameKey(k, x)
  BY <1>4, <1>5 DEF SameKey
<1>7. x \in accepted'[c]
  BY <1>6, BlockSteps, BlockPrunesLowest
<1>8. phase'[c] = "LAUNCHED" /\ e.maturesAt < e.end + Trusting
  BY BlockSteps DEF RecordsInv, RecordsAreSound, PendingIsOpen
<1>9. now' <= g.maturesAt /\ g.maturesAt < g.end + Trusting
  BY <1>1, <1>8, BlockSteps DEF SlashOf
<1> QED BY <1>4, <1>7, <1>8, <1>9

LEMMA BlockKeepsRecent ==
  ASSUME RecordsInv, NEW paying \in SUBSET Consumers, NextBlock(paying)
  PROVE  AcceptedIsRecent'
<1> SUFFICES ASSUME NEW c \in Consumers, NEW g \in accepted'[c]
             PROVE  /\ \E w \in Windows : w.start = g.start /\ w.end = g.end
                    /\ g.end <= g.at /\ g.at <= now'
                    /\ \E q \in ParamChoices : g.at <= g.end + q.maxAge
                    /\ \E q, r \in ParamChoices : now' <= g.end + q.maxAge + r.challenge + r.maxAge
  BY DEF AcceptedIsRecent
<1>1. g \in MigratedAccepted(c) /\ g \notin GoneWindows(c)
  BY BlockSteps
<1>2. PICK e \in accepted[c] : WindowOf(c, g, e)
  BY <1>1, BlockMovesWindows
<1>3. now \in Nat /\ now' \in Nat /\ now <= now'
  BY BlockSteps
<1>4. /\ \E w \in Windows : w.start = g.start /\ w.end = g.end
      /\ g.end <= g.at /\ g.at <= now'
      /\ \E q \in ParamChoices : g.at <= g.end + q.maxAge
  BY <1>2, <1>3 DEF WindowOf, RecordsInv, RecordsAreSound, AcceptedIsRecent
<1>5. PICK f \in MigratedAccepted(c) :
        /\ f.end <= g.end
        /\ now' <= f.at + Horizon \/ \E k \in KeptSlashes(c) : SameKey(k, f)
  BY <1>1, BlockPrunesLowest
<1>6. PICK x \in accepted[c] : WindowOf(c, f, x)
  BY BlockMovesWindows
<1>7. \A q \in ParamChoices : q.maxAge \in Nat /\ q.challenge \in Nat
  BY DowntimeAssumption
<1>8. CASE now' <= f.at + Horizon
  <2>1. PICK q \in ParamChoices : x.at <= x.end + q.maxAge
    BY DEF RecordsInv, RecordsAreSound, AcceptedIsRecent
  <2>2. Horizon = params.challenge + params.maxAge /\ params \in ParamChoices
    BY BlockSteps DEF Horizon
  <2>3. now' <= g.end + q.maxAge + params.challenge + params.maxAge
    BY <1>2, <1>3, <1>5, <1>6, <1>7, <1>8, <2>1, <2>2 DEF WindowOf
  <2> QED BY <1>4, <2>2, <2>3
<1>9. CASE \E k \in KeptSlashes(c) : SameKey(k, f)
  <2>1. PICK k \in KeptSlashes(c) : SameKey(k, f)
    BY <1>9
  <2> DEFINE h == SlashAfter(paying, c, k)
  <2>2. h \in pending'[c]
    BY BlockSteps
  <2>3. PICK s \in pending[c] : SlashOf(paying, c, h, s)
    BY BlockMovesSlashes
  <2>4. PICK y \in accepted[c], r \in ParamChoices : SameKey(s, y) /\ s.maturesAt <= y.at + r.challenge
    BY DEF RecordsInv, RecordsAreSound, PendingIsOpen
  <2>5. PICK q \in ParamChoices : y.at <= y.end + q.maxAge
    BY DEF RecordsInv, RecordsAreSound, AcceptedIsRecent
  <2>6. y.at \in Nat /\ y.end \in Nat
    BY BlockMovesWindows DEF WindowOf
  <2>7. h.end = k.end
    BY DEF SlashAfter
  <2>8. y.end = f.end
    BY <2>1, <2>3, <2>4, <2>7 DEF SameKey, SlashOf
  <2>9. now' < s.maturesAt /\ s.maturesAt \in Nat
    BY <2>3 DEF SlashOf
  <2>10. now' <= g.end + q.maxAge + r.challenge + r.maxAge
    BY <1>2, <1>3, <1>5, <1>7, <2>4, <2>5, <2>6, <2>8, <2>9 DEF WindowOf
  <2> QED BY <1>4, <2>10
<1> QED BY <1>5, <1>8, <1>9

LEMMA BlockKeepsAnswered ==
  ASSUME RecordsInv, NEW paying \in SUBSET Consumers, NextBlock(paying)
  PROVE  /\ \A c \in Consumers : \A g \in MigratedAccepted(c) :
              /\ owner'[g.addr] # NoVal
              /\ leftAt'[owner'[g.addr]] = 0 \/ g.end <= leftAt'[owner'[g.addr]] + BlocksPerEpoch
              /\ \E a \in Addrs : <<owner'[g.addr], a, g.end>> \in accused'[c]
         /\ AcceptedIsAnswered'
<1>1. ASSUME NEW c \in Consumers, NEW g \in MigratedAccepted(c)
      PROVE  /\ owner'[g.addr] # NoVal
             /\ leftAt'[owner'[g.addr]] = 0 \/ g.end <= leftAt'[owner'[g.addr]] + BlocksPerEpoch
             /\ \E a \in Addrs : <<owner'[g.addr], a, g.end>> \in accused'[c]
  <2>1. PICK e \in accepted[c] : WindowOf(c, g, e)
    BY BlockMovesWindows
  <2>2. AnsweredFor(c, e.addr, e.end)
    BY DEF RecordsInv, RecordsAreSound, AcceptedIsAnswered
  <2> QED BY <2>1, <2>2, BlockSteps DEF AnsweredFor, WindowOf
<1>2. \A c \in Consumers : accepted'[c] \subseteq MigratedAccepted(c)
  BY BlockSteps
<1> QED BY <1>1, <1>2 DEF AcceptedIsAnswered, AnsweredFor

LEMMA OneMore ==
  ASSUME NEW n \in Nat, NEW x \in Nat, NEW y \in Nat, x <= y, y <= x + 1, NEW t \in n .. (y - 1)
  PROVE  t = x \/ t \in n .. (x - 1)
  OBVIOUS

LEMMA BlockKeepsSet ==
  ASSUME RecordsInv, NEW paying \in SUBSET Consumers, NextBlock(paying)
  PROVE  SetIsCurrent'
<1> SUFFICES ASSUME NEW c \in Consumers, phase[c] = "LAUNCHED", NEW a \in NextValSet(c)
             PROVE  /\ owner'[a] # NoVal
                    /\ leftAt[owner'[a]] # 0 =>
                         \A t \in leftAt[owner'[a]] .. (now' - 1) : t % BlocksPerEpoch # 0
  <2>1. UNCHANGED <<phase, leftAt>> /\ \A c \in Consumers : valset'[c] = NextValSet(c)
    BY BlockSteps
  <2> QED BY <2>1 DEF SetIsCurrent
<1>0. IInv /\ EndBlock /\ now \in Nat /\ now' \in Nat /\ now <= now' /\ now' <= now + 1
  BY BlockSteps
<1>1. CASE a \in {live'[v] : v \in Bonded}
  <2>1. PICK v \in Bonded : a = live'[v]
    BY <1>1
  <2>2. v \in Validators /\ Exists(v) /\ leftAt[v] = 0
    BY <2>1 DEF Bonded
  <2>3. owner'[a] = v
    <3>1. CASE v \in Rotating
      BY <1>0, <2>1, <2>2, <3>1, RotationsApplied
    <3>2. CASE v \notin Rotating
      <4>1. a = live[v] /\ a \in Addrs /\ owner[a] = v
        BY <1>0, <2>1, <2>2, <3>2, RotationsApplied, BondedAreLive
      <4>2. a \notin Claimed
        BY <1>0, <2>2, <4>1, RotationsApplied, ConstantsAssumption
      <4> QED BY <1>0, <4>1, <4>2, RotationsApplied
    <3> QED BY <3>1, <3>2
  <2> QED BY <2>2, <2>3, ConstantsAssumption
<1>2. CASE /\ now % BlocksPerEpoch # 0
           /\ a \in {IF KeepsIdentity(c, b) THEN RotatedTo(b) ELSE b : b \in valset[c]}
  <2>1. PICK b \in valset[c] : a = Moved(c, b)
    BY <1>2 DEF Moved
  <2>2. b \in Addrs /\ owner[b] # NoVal
    BY DEF RecordsInv, RecordsAreSound, DTTypeOK, SetIsCurrent
  <2>3. owner'[a] = owner[b]
    BY <1>0, <2>1, <2>2, AddressesMoved
  <2>4. leftAt[owner[b]] \in Nat
    BY <1>0, <2>2, ConstantsAssumption DEF IInv, TypeOK, Times
  <2>5. leftAt[owner[b]] # 0 => \A t \in leftAt[owner[b]] .. (now - 1) : t % BlocksPerEpoch # 0
    BY DEF RecordsInv, RecordsAreSound, SetIsCurrent
  <2>6. ASSUME NEW t \in leftAt[owner[b]] .. (now' - 1), leftAt[owner[b]] # 0
        PROVE  t % BlocksPerEpoch # 0
    <3>1. t = now \/ t \in leftAt[owner[b]] .. (now - 1)
      BY <1>0, <2>4, OneMore
    <3> QED BY <1>2, <2>5, <2>6, <3>1
  <2> QED BY <2>2, <2>3, <2>6
<1> QED BY <1>1, <1>2 DEF NextValSet

LEMMA BlockKeepsFloors ==
  ASSUME RecordsInv, NEW paying \in SUBSET Consumers, NextBlock(paying)
  PROVE  FloorsAreOld'
<1> SUFFICES ASSUME NEW c \in Consumers, NEW p \in Addrs, floor'[c][p] # 0
             PROVE  /\ \E q \in ParamChoices : floor'[c][p] + q.challenge + q.maxAge < now'
                    /\ \/ floor'[c][p] + Unbonding <= now' + BlocksPerEpoch
                       \/ /\ owner'[p] # NoVal
                          /\ \/ leftAt'[owner'[p]] = 0
                             \/ floor'[c][p] <= leftAt'[owner'[p]] + BlocksPerEpoch
                          /\ \E a \in Addrs : <<owner'[p], a, floor'[c][p]>> \in accused'[c]
  BY DEF FloorsAreOld, AnsweredFor
<1>0. /\ IInv /\ EndBlock /\ now \in Nat /\ now' \in Nat /\ now <= now'
      /\ UNCHANGED <<leftAt, accused>>
  BY BlockSteps
<1>1. CASE \E g \in GoneWindows(c) : g.addr = p /\ floor'[c][p] = g.end
  <2>1. PICK g \in GoneWindows(c) : g.addr = p /\ floor'[c][p] = g.end
    BY <1>1
  <2>2. g \in MigratedAccepted(c) /\ g.at + Horizon < now'
    BY BlockPrunesLowest
  <2>3. g.end \in Nat /\ g.at \in Nat /\ g.end <= g.at
    BY <2>2, BlockMovesWindows DEF WindowOf
  <2>4. /\ params \in ParamChoices /\ params.challenge \in Nat /\ params.maxAge \in Nat
        /\ Horizon = params.challenge + params.maxAge
    BY BlockSteps DEF Horizon
  <2>5. g.end + params.challenge + params.maxAge < now'
    BY <1>0, <2>2, <2>3, <2>4
  <2> QED BY <2>1, <2>2, <2>4, <2>5, BlockKeepsAnswered
<1>2. ASSUME NEW b \in Addrs, floor'[c][p] = floor[c][b], floor[c][b] # 0,
             owner[b] # NoVal => owner'[p] = owner[b]
      PROVE  /\ \E q \in ParamChoices : floor'[c][p] + q.challenge + q.maxAge < now'
             /\ \/ floor'[c][p] + Unbonding <= now' + BlocksPerEpoch
                \/ /\ owner'[p] # NoVal
                   /\ \/ leftAt'[owner'[p]] = 0
                      \/ floor'[c][p] <= leftAt'[owner'[p]] + BlocksPerEpoch
                   /\ \E a \in Addrs : <<owner'[p], a, floor'[c][p]>> \in accused'[c]
  <2>1. floor[c][b] \in Nat /\ Unbonding \in Nat /\ BlocksPerEpoch \in Nat
    BY ConstantsAssumption, DowntimeAssumption DEF RecordsInv, RecordsAreSound, DTTypeOK
  <2>2. PICK q \in ParamChoices : floor[c][b] + q.challenge + q.maxAge < now
    BY <1>2 DEF RecordsInv, RecordsAreSound, FloorsAreOld
  <2>3. floor'[c][p] + q.challenge + q.maxAge < now'
    BY <1>0, <1>2, <2>1, <2>2, DowntimeAssumption
  <2>4. floor[c][b] + Unbonding <= now + BlocksPerEpoch \/ AnsweredFor(c, b, floor[c][b])
    BY <1>2 DEF RecordsInv, RecordsAreSound, FloorsAreOld
  <2>5. CASE floor[c][b] + Unbonding <= now + BlocksPerEpoch
    BY <1>0, <1>2, <2>1, <2>3, <2>5
  <2>6. CASE AnsweredFor(c, b, floor[c][b])
    BY <1>0, <1>2, <2>3, <2>6 DEF AnsweredFor
  <2> QED BY <2>4, <2>5, <2>6
<1>3. CASE floor'[c][p] = MigratedFloor(c)[p]
  <2>1. CASE MigratedFloor(c)[p] = floor[c][p]
    BY <1>0, <1>2, <1>3, <2>1, AddressesMoved
  <2>2. CASE \E b \in Addrs : MigratedFloor(c)[p] = floor[c][b] /\ KeepsIdentity(c, b) /\ p = RotatedTo(b)
    <3>1. PICK b \in Addrs : MigratedFloor(c)[p] = floor[c][b] /\ KeepsIdentity(c, b) /\ p = RotatedTo(b)
      BY <2>2
    <3>2. owner[b] # NoVal => owner'[p] = owner[b]
      BY <1>0, <3>1, AddressesMoved DEF Moved
    <3> QED BY <1>2, <1>3, <3>1, <3>2
  <2> QED BY <1>3, <2>1, <2>2, BlockMovesFloor
<1> QED BY <1>1, <1>3, BlockRaisesFloor

\* Where withheld fees are after the block's rotations.
LEMMA BlockMovesEscrow ==
  ASSUME RecordsInv, NEW paying \in SUBSET Consumers, NextBlock(paying), NEW c \in Consumers,
         NEW p \in Addrs
  PROVE  LET m == MigratedWithheld(c)[p]
         IN  /\ m \in Nat
             /\ m # 0 => \E b \in Addrs : /\ m = withheld[c][b] /\ owner[b] # NoVal
                                          /\ owner'[p] = owner[b]
<1>0. IInv /\ EndBlock
  BY BlockSteps
<1>1. withheld[c] \in [Addrs -> Nat] /\ \A b \in Addrs : withheld[c][b] # 0 => owner[b] # NoVal
  BY DEF RecordsInv, RecordsAreSound, DTTypeOK, EscrowIsOwned
<1>2. \A b \in Addrs : owner[b] # NoVal => owner'[b] = owner[b]
  BY <1>0, AddressesMoved
<1>3. ASSUME Arriving(p)
      PROVE  /\ RotatedFrom(p) \in Addrs /\ owner[RotatedFrom(p)] # NoVal
             /\ owner'[p] = owner[RotatedFrom(p)]
  <2>1. PICK v \in Rotating : rotations[v] = p
    BY <1>3 DEF Arriving
  <2>2. v \in Validators
    BY <2>1 DEF Rotating
  <2>3. /\ live[v] \in Addrs /\ owner[live[v]] = v /\ RotatedFrom(rotations[v]) = live[v]
        /\ owner'[rotations[v]] = v
    BY <1>0, RotationsApplied
  <2> QED BY <2>1, <2>2, <2>3, ConstantsAssumption
<1>4. \/ MigratedWithheld(c)[p] \in {0, withheld[c][p]}
      \/ Arriving(p) /\ MigratedWithheld(c)[p] = withheld[c][RotatedFrom(p)]
  BY <1>1 DEF MigratedWithheld
<1>5. CASE MigratedWithheld(c)[p] \in {0, withheld[c][p]}
  BY <1>1, <1>2, <1>5
<1>6. CASE Arriving(p) /\ MigratedWithheld(c)[p] = withheld[c][RotatedFrom(p)]
  BY <1>1, <1>3, <1>6
<1> QED BY <1>4, <1>5, <1>6

LEMMA BlockKeepsEscrowOwned ==
  ASSUME RecordsInv, IInv', NEW paying \in SUBSET Consumers, NextBlock(paying)
  PROVE  /\ \A c \in Consumers, p \in Addrs : withheld'[c][p] \in Nat
         /\ EscrowIsOwned'
<1>0. /\ IInv /\ EndBlock /\ now \in Nat /\ now' \in Nat /\ now <= now'
      /\ leftAt' = leftAt /\ params \in ParamChoices /\ params.challenge \in Nat \ {0}
  BY BlockSteps
<1>1. ASSUME NEW c \in Consumers, NEW p \in Addrs
      PROVE  /\ withheld'[c][p] \in Nat
             /\ withheld'[c][p] # 0 =>
                  /\ now' < withheld'[c][p] /\ owner'[p] # NoVal
                  /\ \E q \in ParamChoices : withheld'[c][p] <= q.challenge +
                       IF leftAt'[owner'[p]] = 0 THEN now' ELSE leftAt'[owner'[p]]
  <2> DEFINE m == MigratedWithheld(c)[p]
  <2>1. withheld'[c][p] = IF Docks(paying, c, p) THEN now' + params.challenge
                          ELSE IF Forfeited(MigratedRecords(c, pending[c]), p) THEN 0
                          ELSE Unexpired(m)
    BY BlockSteps
  <2>2. CASE Docks(paying, c, p)
    <3>1. withheld'[c][p] = now' + params.challenge
      BY <2>1, <2>2
    <3>2. PICK v \in Bonded : p = live'[v]
      BY <2>2 DEF Docks, Excluded
    <3>3. v \in Validators /\ leftAt[v] = 0 /\ live'[v] # NoAddr
      BY <3>2, ConstantsAssumption DEF Bonded
    <3>4. owner'[p] = v
      BY <3>2, <3>3 DEF IInv, AddressesHaveOneOwner
    <3>5. /\ now' + params.challenge \in Nat /\ now' < now' + params.challenge
          /\ now' + params.challenge <= params.challenge + now'
      BY <1>0
    <3>6. owner'[p] # NoVal /\ leftAt'[owner'[p]] = 0
      BY <1>0, <3>3, <3>4, ConstantsAssumption
    <3> QED BY <1>0, <3>1, <3>5, <3>6
  <2>3. CASE ~Docks(paying, c, p) /\ Forfeited(MigratedRecords(c, pending[c]), p)
    BY <2>1, <2>3
  <2>4. CASE ~Docks(paying, c, p) /\ ~Forfeited(MigratedRecords(c, pending[c]), p)
    <3>1. withheld'[c][p] = IF m > now' THEN m ELSE 0
      BY <2>1, <2>4 DEF Unexpired
    <3>2. m \in Nat /\ (m # 0 => \E b \in Addrs : /\ m = withheld[c][b] /\ owner[b] # NoVal
                                                 /\ owner'[p] = owner[b])
      BY BlockMovesEscrow
    <3> HIDE DEF m
    <3>3. withheld'[c][p] \in Nat
      BY <3>1, <3>2
    <3>4. ASSUME withheld'[c][p] # 0
          PROVE  /\ now' < withheld'[c][p] /\ owner'[p] # NoVal
                 /\ \E q \in ParamChoices : withheld'[c][p] <= q.challenge +
                      IF leftAt'[owner'[p]] = 0 THEN now' ELSE leftAt'[owner'[p]]
      <4>1. withheld'[c][p] = m /\ m > now' /\ m # 0
        BY <1>0, <3>1, <3>2, <3>4
      <4>2. PICK b \in Addrs : m = withheld[c][b] /\ owner[b] # NoVal /\ owner'[p] = owner[b]
        BY <3>2, <4>1
      <4>3. PICK q \in ParamChoices :
              m <= q.challenge + IF leftAt[owner[b]] = 0 THEN now ELSE leftAt[owner[b]]
        BY <4>1, <4>2 DEF RecordsInv, RecordsAreSound, EscrowIsOwned
      <4>4. q.challenge \in Nat
        BY DowntimeAssumption
      <4>5. m <= q.challenge + IF leftAt[owner[b]] = 0 THEN now' ELSE leftAt[owner[b]]
        BY <1>0, <3>2, <4>3, <4>4
      <4> QED BY <1>0, <3>2, <4>1, <4>2, <4>5
    <3> QED BY <3>3, <3>4
  <2> QED BY <2>2, <2>3, <2>4
<1> QED BY <1>1 DEF EscrowIsOwned

\* A queued slash of a validator that stays or arrives where the slash is kept finds
\* the escrow there, unless this block makes it anew.
LEMMA BlockKeepsEscrow ==
  ASSUME RecordsInv, NEW paying \in SUBSET Consumers, NextBlock(paying)
  PROVE  EscrowBacksAccusation'
<1>0. /\ IInv /\ EndBlock /\ now \in Nat /\ now' \in Nat
  BY BlockSteps
<1>w. \A c \in Consumers, p \in Addrs :
        withheld'[c][p] = IF Docks(paying, c, p) THEN now' + params.challenge
                          ELSE IF Forfeited(MigratedRecords(c, pending[c]), p) THEN 0
                          ELSE Unexpired(MigratedWithheld(c)[p])
  BY BlockSteps
<1> SUFFICES ASSUME NEW c \in Consumers, NEW g \in pending'[c], g.docked, owner'[g.addr] # NoVal,
                    live'[owner'[g.addr]] = g.addr
             PROVE  withheld'[c][g.addr] >= g.maturesAt
  <2>1. ASSUME NEW c \in Consumers, NEW g \in pending'[c] PROVE owner'[g.addr] # NoVal
    <3>1. PICK e \in pending[c] : SlashOf(paying, c, g, e)
      BY BlockMovesSlashes
    <3>2. owner[e.addr] # NoVal /\ owner'[g.addr] = owner[e.addr]
      BY <3>1, Zenon DEF SlashOf
    <3> QED BY <3>2
  <2>2. ASSUME NEW c \in Consumers, NEW g \in pending'[c], LiveAddr(g.addr)' = g.addr
        PROVE  live'[owner'[g.addr]] = g.addr
    BY <2>1, <2>2 DEF LiveAddr
  <2> QED BY <2>1, <2>2 DEF EscrowBacksAccusation
<1>1. PICK e \in pending[c] : SlashOf(paying, c, g, e)
  BY BlockMovesSlashes
<1> DEFINE p == g.addr
<1>2. p \in Addrs /\ e.addr \in Addrs /\ p = Moved(c, e.addr) /\ owner[e.addr] # NoVal
  BY <1>1 DEF SlashOf
<1>3. g.maturesAt = e.maturesAt /\ e.maturesAt \in Nat /\ now' < e.maturesAt
  BY <1>1 DEF SlashOf
<1>4. withheld'[c][p] = IF Docks(paying, c, p) THEN now' + params.challenge
                        ELSE IF Forfeited(MigratedRecords(c, pending[c]), p) THEN 0
                        ELSE Unexpired(MigratedWithheld(c)[p])
  BY <1>2, <1>w, Zenon
<1>5. CASE Docks(paying, c, p)
  <2>1. g.docked = (now' + params.challenge >= e.maturesAt)
    BY <1>1, <1>5, Zenon DEF SlashOf
  <2>2. now' + params.challenge >= e.maturesAt
    BY <2>1, Zenon
  <2> QED BY <1>3, <1>4, <1>5, <2>2
<1>6. CASE ~Docks(paying, c, p)
  <2>1. e.docked
    <3>1. g.docked = e.docked
      BY <1>1, <1>6, Zenon DEF SlashOf
    <3> QED BY <3>1, Zenon
  <2>2. ~Forfeited(MigratedRecords(c, pending[c]), p)
    BY BlockMovesSlashes DEF Forfeited, KeptSlashes, SameKey
  <2>3. withheld'[c][p] = Unexpired(MigratedWithheld(c)[p])
    BY <1>4, <1>6, <2>2
  <2>4. owner'[p] = owner[e.addr] /\ owner[e.addr] \in Validators
    BY <1>0, <1>1, <1>2 DEF SlashOf, IInv, TypeOK
  <2>5. withheld[c] \in [Addrs -> Nat]
    BY DEF RecordsInv, RecordsAreSound, DTTypeOK
  <2>6. ASSUME LiveAddr(e.addr) = e.addr PROVE withheld[c][e.addr] >= e.maturesAt
    BY <2>1, <2>6 DEF RecordsInv, EscrowBacksAccusation
  <2>7. CASE KeepsIdentity(c, e.addr)
    <3>1. PICK v \in Rotating : live[v] = e.addr
      BY <2>7 DEF KeepsIdentity, Leaving
    <3>2. owner[live[v]] = v
      BY <1>0, RotationsApplied
    <3>3. withheld[c][e.addr] >= e.maturesAt
      BY <2>6, <3>1, <3>2 DEF LiveAddr
    <3>4. p = RotatedTo(e.addr) /\ owner[p] = NoVal /\ Arriving(p) /\ RotatedFrom(p) = e.addr
      BY <1>0, <1>2, <2>7, AddressesMoved DEF Moved
    <3>5. withheld[c][p] = 0
      BY <1>2, <3>4 DEF RecordsInv, RecordsAreSound, EscrowIsOwned
    <3>6. ~Leaving(p)
      BY <1>0, <3>4, RotationsApplied, ConstantsAssumption DEF Leaving, Rotating
    <3>7. phase[c] # "DELETED"
      BY <1>0, <1>2, <2>7, DeletedKeepsNothing
    <3>8. MigratedWithheld(c)[p] = withheld[c][e.addr]
      BY <1>2, <3>4, <3>5, <3>6, <3>7 DEF MigratedWithheld
    <3> QED BY <1>0, <1>2, <1>3, <2>3, <2>5, <3>3, <3>8 DEF Unexpired
  <2>8. CASE ~KeepsIdentity(c, e.addr)
    <3>1. p = e.addr
      BY <1>2, <2>8 DEF Moved
    <3> DEFINE v == owner[p]
    <3>2. v \in Validators /\ live'[v] = p
      BY <2>4, <3>1
    <3>3. v \notin Rotating
      BY <1>0, <3>2, RotationsApplied, ConstantsAssumption
    <3>4. live[v] = p
      BY <1>0, <3>2, <3>3, RotationsApplied
    <3>5. ~Leaving(p) /\ ~Arriving(p)
      <4>1. ~Leaving(p)
        BY <1>0, <3>3, RotationsApplied DEF Leaving
      <4>2. ~Arriving(p)
        BY <1>0, <1>2, <3>1, AddressesMoved
      <4> QED BY <4>1, <4>2
    <3>6. MigratedWithheld(c)[p] = withheld[c][p]
      BY <1>2, <3>5 DEF MigratedWithheld
    <3>7. withheld[c][p] >= e.maturesAt
      BY <1>2, <2>6, <3>1, <3>4 DEF LiveAddr
    <3> QED BY <1>0, <1>2, <1>3, <2>3, <2>5, <3>6, <3>7 DEF Unexpired
  <2> QED BY <2>7, <2>8
<1> QED BY <1>5, <1>6

LEMMA BlockKeepsTypes ==
  ASSUME RecordsInv, EntriesInv', NEW paying \in SUBSET Consumers, NextBlock(paying)
  PROVE  DTTypeOK'
<1>0. DTTypeOK
  BY DEF RecordsInv, RecordsAreSound
<1>1. params' \in ParamChoices /\ accused' \in [Consumers -> SUBSET Accusation]
  BY <1>0, BlockSteps DEF DTTypeOK
<1>2. valset' \in [Consumers -> SUBSET Addrs] /\ marks' \in [Consumers -> SUBSET Addrs]
  BY DEF EntriesInv
<1>3. pending' \in [Consumers -> SUBSET PendingSlash]
  <2>1. pending' = [c \in Consumers |-> pending'[c]]
    BY DEF NextBlock
  <2>2. \A c \in Consumers : pending'[c] \in SUBSET PendingSlash
    BY BlockMovesSlashes
  <2> QED BY <2>1, <2>2
<1>4. accepted' \in [Consumers -> SUBSET AcceptedWindow]
  <2>1. accepted' = [c \in Consumers |-> accepted'[c]]
    BY DEF NextBlock
  <2>2. \A c \in Consumers : accepted'[c] \in SUBSET AcceptedWindow
    BY BlockMovesWindows, BlockSteps
  <2> QED BY <2>1, <2>2
<1>5. floor' \in [Consumers -> [Addrs -> Nat]]
  <2>1. floor' = [c \in Consumers |-> [p \in Addrs |-> floor'[c][p]]]
    BY DEF NextBlock
  <2>2. \A c \in Consumers, p \in Addrs : floor'[c][p] \in Nat
    BY BlockRaisesFloor
  <2> QED BY <2>1, <2>2
<1>6. withheld' \in [Consumers -> [Addrs -> Nat]]
  <2>1. withheld' = [c \in Consumers |-> [p \in Addrs |-> withheld'[c][p]]]
    BY DEF NextBlock
  <2>2. \A c \in Consumers, p \in Addrs : withheld'[c][p] \in Nat
    BY BlockKeepsEscrowOwned DEF EntriesInv
  <2> QED BY <2>1, <2>2
<1>7. paidAt' \in [Consumers -> Nat]
  <2>1. now' \in Nat /\ paidAt \in [Consumers -> Nat]
    BY <1>0, BlockSteps DEF DTTypeOK
  <2>2. \A c \in Consumers : paidAt'[c] \in {now', 0, paidAt[c]}
    BY DEF NextBlock
  <2>3. paidAt' = [c \in Consumers |-> paidAt'[c]]
    BY DEF NextBlock
  <2> QED BY <2>1, <2>2, <2>3
<1> QED BY <1>1, <1>2, <1>3, <1>4, <1>5, <1>6, <1>7 DEF DTTypeOK

LEMMA BlockKeepsRecords ==
  ASSUME UnbondingOutlastsRecords, RecordsInv, EntriesInv', NEW paying \in SUBSET Consumers,
         NextBlock(paying)
  PROVE  RecordsInv'
<1>1. IInv' /\ MarksAreOfThisEpoch'
  BY DEF EntriesInv
<1> QED BY <1>1, BlockKeepsTypes, BlockKeepsImportable, BlockKeepsOpen, BlockKeepsRecent,
           BlockKeepsSet, BlockKeepsAnswered, BlockKeepsFloors, BlockKeepsEscrowOwned,
           BlockKeepsEscrow DEF RecordsInv, RecordsAreSound

(***************************************************************************)
(* The theorems.                                                           *)
(***************************************************************************)
LEMMA StepKeepsRecords ==
  UnbondingOutlastsRecords /\ RecordsInv /\ [DTNext]_dtVars => RecordsInv'
<1> SUFFICES ASSUME UnbondingOutlastsRecords, RecordsInv, [DTNext]_dtVars PROVE RecordsInv'
  OBVIOUS
<1>i. EntriesInv'
  BY StepKeepsEntriesLive DEF RecordsInv
<1>p. params \in ParamChoices
  BY DEF RecordsInv, RecordsAreSound, DTTypeOK
<1>1. ASSUME NEW paying \in SUBSET Consumers, NextBlock(paying) PROVE RecordsInv'
  BY <1>1, <1>i, BlockKeepsRecords
<1>2. ASSUME NEW c \in Consumers, ConsumerDowntimes(c) PROVE RecordsInv'
  BY <1>2, <1>i, EvidenceKeepsRecords
<1>3. ASSUME NEW c \in Consumers, \/ Challenges(c) \/ PauseWithDowntime(c)
                                  \/ StopWithDowntime(c) \/ DeleteWithDowntime(c)
      PROVE  RecordsInv'
  BY <1>3, <1>i, EndingKeepsRecords
<1>4. ASSUME NEW c \in Consumers, StartWithDowntime(c) PROVE RecordsInv'
  BY <1>4, <1>i, StartKeepsRecords
<1>5. CASE \/ RestartProvider \/ UNCHANGED dtVars
           \/ \E q \in ParamChoices : UpdateInfractionParams(q)
  <2>1. /\ params' \in ParamChoices /\ (valset' = valset \/ valset' = [c \in Consumers |-> {}])
        /\ UNCHANGED <<now, phase, owner, live, leftAt, pending, accepted, floor, marks, withheld,
                       paidAt, accused>>
    BY <1>5, <1>p DEF RestartProvider, UpdateInfractionParams, dtVars, daVars, kaVars, stakingVars
  <2> QED BY <1>i, <2>1, QuietStepKeepsRecords
<1>6. CASE KeyStep
  <2>0. UNCHANGED daVars
    BY <1>6 DEF KeyStep
  <2>v. Leavers \subseteq Validators
    BY ConstantsAssumption
  <2>1. ASSUME UNCHANGED <<now, phase, owner, live, leftAt>> PROVE RecordsInv'
    <3>1. UNCHANGED <<params, valset, pending, accepted, floor, marks, withheld, paidAt, accused>>
      BY <2>0 DEF daVars
    <3> QED BY <1>i, <1>p, <2>1, <3>1, QuietStepKeepsRecords
  <2>2. ASSUME NEW v \in Assigners, NEW c \in Consumers, NEW k \in Addrs, AssignConsumerKey(v, c, k)
        PROVE  RecordsInv'
    BY <2>1, <2>2 DEF AssignConsumerKey, stakingVars
  <2>3. ASSUME NEW v \in Rotators, NEW a \in Addrs, RotateConsPubKey(v, a) PROVE RecordsInv'
    BY <2>1, <2>3 DEF RotateConsPubKey
  <2>4. ASSUME NEW v \in Leavers, BeginUnbonding(v) PROVE RecordsInv'
    BY <1>i, <2>0, <2>4, <2>v, UnbondingKeepsRecords
  <2>5. ASSUME NEW v \in Leavers, RemoveValidator(v) PROVE RecordsInv'
    BY <1>i, <2>0, <2>5, <2>v, RemovalKeepsRecords
  <2>6. ASSUME NEW v \in Leavers, NEW a \in Addrs, CreateValidator(v, a) PROVE RecordsInv'
    BY <1>i, <2>0, <2>6, <2>v, CreationKeepsRecords
  <2> QED BY <1>6, <2>2, <2>3, <2>4, <2>5, <2>6 DEF KeyStep
<1> QED BY <1>1, <1>2, <1>3, <1>4, <1>5, <1>6 DEF DTNext

LEMMA InitEstablishesRecords == DTInit => RecordsInv
<1> SUFFICES ASSUME DTInit PROVE RecordsInv
  OBVIOUS
<1>1. IInv
  BY InitEstablishesIInv DEF DTInit
<1>2. EntriesInv
  BY <1>1 DEF DTInit, EntriesInv, MarksAreOfThisEpoch, EntriesAreLive
<1>3. DTTypeOK
  BY DowntimeAssumption DEF DTInit, DTTypeOK, NoneSince
<1>4. ImportableState /\ PendingIsOpen /\ AcceptedIsRecent /\ AcceptedIsAnswered
  BY DEF DTInit, ImportableState, PendingIsOpen, AcceptedIsRecent, AcceptedIsAnswered
<1>5. SetIsCurrent /\ FloorsAreOld /\ EscrowIsOwned /\ EscrowBacksAccusation
  BY DEF DTInit, SetIsCurrent, FloorsAreOld, EscrowIsOwned, EscrowBacksAccusation, NoneSince
<1> QED BY <1>2, <1>3, <1>4, <1>5 DEF RecordsInv, RecordsAreSound, EntriesInv

LEMMA RecordsInvariance == UnbondingOutlastsRecords /\ DTSpec => []RecordsInv
<1>1. UnbondingOutlastsRecords => UnbondingOutlastsRecords'
  BY DEF UnbondingOutlastsRecords
<1> QED BY <1>1, InitEstablishesRecords, StepKeepsRecords, PTL DEF DTSpec

\* The escrow of a docked share outlasts the accusation it was withheld for, wherever
\* the validator's rotations take both.
THEOREM EscrowOutlastsAccusation ==
  UnbondingOutlastsRecords /\ DTSpec => []EscrowBacksAccusation
<1>1. RecordsInv => EscrowBacksAccusation
  BY DEF RecordsInv
<1> QED BY <1>1, RecordsInvariance, PTL

\* Until it matures, a queued slash can be challenged: under the consumer address it was
\* made for an accusation is found, the header after its last height is verified, and
\* the consumer is one that can be paused.
THEOREM SlashesStayChallengeable == UnbondingOutlastsRecords /\ DTSpec => []ChallengeReachesSlash
<1>1. ASSUME RecordsInv PROVE ChallengeReachesSlash
  <2> SUFFICES ASSUME NEW c \in Consumers, NEW e \in pending[c]
               PROVE  /\ findPendingDowntimeSlashContaining(c, e.cons, e.end) # {}
                      /\ Verifiable(e.end) /\ phase[c] = "LAUNCHED"
    BY DEF ChallengeReachesSlash
  <2>1. PICK f \in accepted[c] : SameKey(e, f) /\ e.start = f.start
    BY <1>1 DEF RecordsInv, RecordsAreSound, ImportableState
  <2>2. PICK w \in Windows : w.start = f.start /\ w.end = f.end
    BY <1>1 DEF RecordsInv, RecordsAreSound, AcceptedIsRecent
  <2>3. Claims(e, e.end)
    BY <2>1, <2>2, DowntimeAssumption DEF Claims, SameKey
  <2>4. phase[c] = "LAUNCHED" /\ now <= e.maturesAt /\ e.maturesAt < e.end + Trusting
    BY <1>1 DEF RecordsInv, RecordsAreSound, PendingIsOpen
  <2>5. now \in Nat /\ e.maturesAt \in Nat /\ e.end \in Nat /\ Trusting \in Nat
    BY <1>1, DowntimeAssumption DEF RecordsInv, RecordsAreSound, EntriesInv, IInv, TypeOK, DTTypeOK, PendingSlash
  <2>6. Verifiable(e.end)
    BY <2>4, <2>5 DEF Verifiable
  <2> QED BY <2>3, <2>4, <2>6 DEF findPendingDowntimeSlashContaining
<1> QED BY <1>1, RecordsInvariance, PTL

\* The floor that replaces pruned windows turns no fresh evidence down, except for heights
\* its validator was accused of already.
THEOREM FloorsHideNothingFresh == UnbondingOutlastsRecords /\ DTSpec => []FloorHidesNothingFresh
<1>1. ASSUME UnbondingOutlastsRecords, RecordsInv PROVE FloorHidesNothingFresh
  <2> SUFFICES ASSUME NEW c \in Consumers, NEW p \in Addrs, NEW w \in Windows,
                      NEW anchor \in Anchors(w), w.start <= floor[c][p],
                      \A q \in ParamChoices : now - anchor <= q.maxAge
               PROVE  \E a \in Addrs, h \in w.start .. w.end : <<owner[p], a, h>> \in accused[c]
    BY DEF FloorHidesNothingFresh
  <2> DEFINE h == floor[c][p]
  <2>1. /\ now \in Nat /\ h \in Nat /\ Unbonding \in Nat /\ BlocksPerEpoch \in Nat
        /\ w.start \in Nat \ {0} /\ w.end \in Nat /\ anchor \in Nat /\ anchor <= w.end
    BY <1>1, ConstantsAssumption, DowntimeAssumption
       DEF RecordsInv, RecordsAreSound, EntriesInv, IInv, TypeOK, DTTypeOK, Anchors
  <2>2. /\ \E q \in ParamChoices : h + q.challenge + q.maxAge < now
        /\ h + Unbonding <= now + BlocksPerEpoch \/ AnsweredFor(c, p, h)
    BY <1>1, <2>1 DEF RecordsInv, RecordsAreSound, FloorsAreOld
  <2>3. PICK q \in ParamChoices : h + q.challenge + q.maxAge < now
    BY <2>2
  <2>4. q.challenge \in Nat /\ q.maxAge \in Nat /\ now - anchor <= q.maxAge
    BY DowntimeAssumption
  <2>5. h \in w.start .. w.end
    BY <2>1, <2>3, <2>4
  <2>6. (w.end - w.start) + q.maxAge + q.challenge + q.maxAge + BlocksPerEpoch < Unbonding
    BY <1>1 DEF UnbondingOutlastsRecords
  <2> HIDE DEF h
  <2>7. ~(h + Unbonding <= now + BlocksPerEpoch)
    BY <2>1, <2>4, <2>5, <2>6
  <2> QED BY <2>2, <2>5, <2>7 DEF AnsweredFor
<1>2. UnbondingOutlastsRecords => UnbondingOutlastsRecords'
  BY DEF UnbondingOutlastsRecords
<1>3. UnbondingOutlastsRecords /\ RecordsInv => FloorHidesNothingFresh
  BY <1>1
<1> QED BY <1>2, <1>3, InitEstablishesRecords, StepKeepsRecords, PTL DEF DTSpec

(***************************************************************************)
(* What was accepted is remembered.                                        *)
(***************************************************************************)
\* What resolves is migrated together with the key of its validator, and dropped with it
\* unless it was replaced before.
LEMMA BlockKeepsOrphans ==
  ASSUME IInv, OrphansAreNoted, EndBlock, UNCHANGED orphaned
  PROVE  OrphansAreNoted'
<1> USE ConstantsAssumption
<1>1. ASSUME NEW c \in Consumers, NEW a \in Addrs, byAddr'[c][a] # NoAddr, a \notin orphaned[c]
      PROVE  key'[c][byAddr'[c][a]] # NoAddr
  <2>1. CASE \E v \in Rotating : /\ byAddr[c][a] = live[v] /\ key[c][live[v]] # NoAddr
                                 /\ byAddr'[c][a] = rotations[v]
    BY <2>1, KeysMigrated
  <2>2. CASE /\ \A v \in Rotating : byAddr[c][a] = live[v] => key[c][live[v]] = NoAddr
             /\ byAddr'[c][a] = byAddr[c][a]
    <3>1. byAddr[c][a] \in Addrs /\ key[c][byAddr[c][a]] # NoAddr
      BY <1>1, <2>2 DEF IInv, TypeOK, OrphansAreNoted
    <3>2. ~Leaving(byAddr[c][a])
      BY <2>2, <3>1 DEF Leaving
    <3>3. byAddr[c][a] \notin Claimed
      BY <3>1, KeysMigrated
    <3> QED BY <2>2, <3>1, <3>2, <3>3, KeysMigrated
  <2> QED BY <1>1, <2>1, <2>2, ResolutionMigrated
<1> QED BY <1>1 DEF OrphansAreNoted

LEMMA StepKeepsOrphans ==
  ASSUME IInv, OrphansAreNoted, [DTNext]_dtVars
  PROVE  OrphansAreNoted'
<1> USE ConstantsAssumption
<1>t. /\ key \in [Consumers -> [Addrs -> Addrs \cup {NoAddr}]]
      /\ byAddr \in [Consumers -> [Addrs -> Addrs \cup {NoAddr}]]
      /\ owner \in [Addrs -> Validators \cup {NoVal}] /\ live \in [Validators -> Addrs \cup {NoAddr}]
      /\ \A v \in Validators : Exists(v) => live[v] \in Addrs /\ owner[live[v]] = v
  BY BondedAreLive DEF IInv, TypeOK
<1>1. ASSUME NEW paying \in SUBSET Consumers, NextBlock(paying) PROVE OrphansAreNoted'
  BY <1>1, BlockKeepsOrphans DEF NextBlock
<1>2. ASSUME key' = key, byAddr' = byAddr, orphaned' = orphaned PROVE OrphansAreNoted'
  BY <1>2 DEF OrphansAreNoted
<1>3. ASSUME NEW c \in Consumers,
             \/ ConsumerDowntimes(c) \/ Challenges(c) \/ StartWithDowntime(c)
             \/ PauseWithDowntime(c) \/ StopWithDowntime(c)
      PROVE  OrphansAreNoted'
  <2>1. UNCHANGED <<key, byAddr, orphaned>>
    BY <1>3 DEF ConsumerDowntimes, ConsumerDowntime, Challenges, ChallengeConsumerDowntime,
                StartWithDowntime, PauseWithDowntime, StopWithDowntime, LaunchConsumer,
                ResumeConsumer, PauseConsumer, StopConsumer, kaVars, keyVars
  <2> QED BY <1>2, <2>1
<1>4. ASSUME NEW c \in Consumers, DeleteWithDowntime(c) PROVE OrphansAreNoted'
  <2>1. /\ orphaned' = orphaned
        /\ \A d \in Consumers : key'[d] = (IF d = c THEN NoKeys ELSE key[d])
        /\ \A d \in Consumers : byAddr'[d] = (IF d = c THEN NoKeys ELSE byAddr[d])
    BY <1>t, <1>4 DEF DeleteWithDowntime, DeleteConsumer, DeleteKeyAssignments
  <2> QED BY <2>1 DEF OrphansAreNoted, NoKeys
<1>5. ASSUME NEW v \in Assigners, NEW c \in Consumers, NEW k \in Addrs, AssignConsumerKey(v, c, k),
             UNCHANGED orphaned
      PROVE  OrphansAreNoted'
  <2>1. live[v] \in Addrs
    BY <1>t, <1>5 DEF AssignConsumerKey
  <2>2. \A d \in Consumers, p \in Addrs :
          key'[d][p] = IF d = c /\ p = live[v] THEN k ELSE key[d][p]
    BY <1>t, <1>5 DEF AssignConsumerKey
  <2>3. \A d \in Consumers, a \in Addrs : \/ byAddr'[d][a] = byAddr[d][a]
                                          \/ byAddr'[d][a] = NoAddr
                                          \/ d = c /\ byAddr'[d][a] = live[v]
    BY <1>t, <1>5 DEF AssignConsumerKey
  <2>4. ASSUME NEW d \in Consumers, NEW a \in Addrs, byAddr'[d][a] # NoAddr, a \notin orphaned[d]
        PROVE  key'[d][byAddr'[d][a]] # NoAddr
    <3>1. CASE byAddr'[d][a] = byAddr[d][a]
      <4>1. byAddr[d][a] \in Addrs /\ key[d][byAddr[d][a]] # NoAddr
        BY <1>t, <2>4, <3>1 DEF OrphansAreNoted
      <4> QED BY <2>2, <3>1, <4>1
    <3>2. CASE d = c /\ byAddr'[d][a] = live[v]
      BY <2>1, <2>2, <3>2
    <3> QED BY <2>3, <2>4, <3>1, <3>2
  <2> QED BY <1>5, <2>4 DEF OrphansAreNoted
<1>6. ASSUME NEW v \in Leavers, RemoveValidator(v), Orphans(v) PROVE OrphansAreNoted'
  <2>1. live[v] \in Addrs
    BY <1>t, <1>6 DEF RemoveValidator
  <2>2. \A c \in Consumers, a \in Addrs :
          /\ key'[c][a] = IF a = live[v] THEN NoAddr ELSE key[c][a]
          /\ byAddr'[c][a] = IF a = key[c][live[v]] THEN NoAddr ELSE byAddr[c][a]
    BY <1>t, <1>6, <2>1 DEF RemoveValidator, AfterValidatorRemoved
  <2>3. \A c \in Consumers : orphaned'[c] = orphaned[c] \cup LeftOver(c, live[v])
    BY <1>6 DEF Orphans
  <2>4. orphaned' \in [Consumers -> SUBSET Addrs]
    BY <1>6 DEF Orphans, LeftOver, OrphansAreNoted
  <2>5. ASSUME NEW c \in Consumers, NEW a \in Addrs, byAddr'[c][a] # NoAddr, a \notin orphaned'[c]
        PROVE  key'[c][byAddr'[c][a]] # NoAddr
    <3>1. /\ byAddr'[c][a] = byAddr[c][a] /\ byAddr[c][a] \in Addrs /\ a # key[c][live[v]]
          /\ a \notin orphaned[c] /\ a \notin LeftOver(c, live[v])
      BY <1>t, <2>2, <2>3, <2>5
    <3>2. byAddr[c][a] # live[v]
      BY <3>1 DEF LeftOver
    <3> QED BY <2>2, <2>5, <3>1, <3>2 DEF OrphansAreNoted
  <2> QED BY <2>4, <2>5 DEF OrphansAreNoted
<1>7. CASE KeyStep
  <2>1. ASSUME \/ \E v \in Rotators, a \in Addrs : RotateConsPubKey(v, a)
               \/ \E v \in Leavers : BeginUnbonding(v)
               \/ \E v \in Leavers, a \in Addrs : CreateValidator(v, a),
               UNCHANGED orphaned
        PROVE  OrphansAreNoted'
    <3>1. UNCHANGED <<key, byAddr>>
      BY <2>1 DEF RotateConsPubKey, BeginUnbonding, CreateValidator, keyVars
    <3> QED BY <1>2, <2>1, <3>1
  <2> QED BY <1>5, <1>6, <1>7, <2>1 DEF KeyStep
<1>8. CASE RestartProvider \/ UNCHANGED dtVars \/ \E q \in ParamChoices : UpdateInfractionParams(q)
  <2>1. UNCHANGED <<key, byAddr, orphaned>>
    BY <1>8 DEF RestartProvider, UpdateInfractionParams, dtVars, kaVars, keyVars
  <2> QED BY <1>2, <2>1
<1> QED BY <1>1, <1>3, <1>4, <1>7, <1>8 DEF DTNext

\* No step takes a left over address back.
LEMMA StepKeepsOrphaned ==
  ASSUME [DTNext]_dtVars
  PROVE  \A c \in Consumers : orphaned[c] \subseteq orphaned'[c]
<1>1. CASE orphaned' = orphaned
  BY <1>1
<1>2. ASSUME NEW v \in Leavers, Orphans(v) PROVE \A c \in Consumers : orphaned[c] \subseteq orphaned'[c]
  BY <1>2 DEF Orphans
<1>3. CASE KeyStep
  BY <1>1, <1>2, <1>3 DEF KeyStep
<1>4. CASE \E paying \in SUBSET Consumers : NextBlock(paying)
  BY <1>1, <1>4 DEF NextBlock
<1>5. ASSUME NEW c \in Consumers,
             \/ ConsumerDowntimes(c) \/ Challenges(c) \/ StartWithDowntime(c)
             \/ PauseWithDowntime(c) \/ StopWithDowntime(c) \/ DeleteWithDowntime(c)
      PROVE  orphaned' = orphaned
  BY <1>5 DEF ConsumerDowntimes, ConsumerDowntime, Challenges, ChallengeConsumerDowntime,
     StartWithDowntime, PauseWithDowntime, StopWithDowntime, DeleteWithDowntime
<1>6. CASE RestartProvider \/ UNCHANGED dtVars \/ \E q \in ParamChoices : UpdateInfractionParams(q)
  BY <1>1, <1>6 DEF UpdateInfractionParams, RestartProvider, dtVars
<1> QED BY <1>1, <1>3, <1>4, <1>5, <1>6 DEF DTNext

\* What was accused long enough ago stays so.
LEMMA StaleStays ==
  ASSUME now \in Nat, now' \in Nat, now <= now', NEW h \in Nat, Stale(h)
  PROVE  Stale(h)'
<1> SUFFICES ASSUME NEW w \in Windows, NEW q \in ParamChoices
             PROVE  h + (w.end - w.start) + q.maxAge < now'
  BY DEF Stale
<1>1. h + (w.end - w.start) + q.maxAge < now
  BY DEF Stale
<1> QED BY <1>1, DowntimeAssumption

\* A step that leaves the validators, the windows and the floors of c alone and takes
\* nobody's key away.
LEMMA QuietStepRemembers ==
  ASSUME NEW c \in Consumers, NEW v \in Validators, NEW a \in Addrs, NEW h \in Nat,
         Remembered(c, v, a, h), UNCHANGED <<now, live, owner, leftAt>>,
         accepted'[c] = accepted[c], floor'[c] = floor[c],
         key'[c][live[v]] = NoAddr => key[c][live[v]] = NoAddr
  PROVE  Remembered(c, v, a, h)'
  BY DEF Remembered, Stale, Covered

\* A validator that leaves was accused before, so the height is within an epoch of that.
LEMMA UnbondingRemembers ==
  ASSUME RecordsInv, NEW u \in Validators, BeginUnbonding(u), UNCHANGED daVars,
         NEW c \in Consumers, NEW v \in Validators, NEW a \in Addrs, NEW h \in Nat,
         Remembered(c, v, a, h)
  PROVE  Remembered(c, v, a, h)'
<1>0. /\ UNCHANGED <<now, live, owner, key, accepted, floor>>
      /\ leftAt' = [leftAt EXCEPT ![u] = now]
  BY DEF BeginUnbonding, daVars, keyVars
<1>1. now \in Nat /\ leftAt \in [Validators -> Nat] /\ BlocksPerEpoch \in Nat
  BY ConstantsAssumption, DowntimeAssumption DEF RecordsInv, EntriesInv, IInv, TypeOK, Times
<1>2. h <= now /\ (leftAt[v] = 0 \/ h <= leftAt[v] + BlocksPerEpoch) =>
        leftAt'[v] = 0 \/ h <= leftAt'[v] + BlocksPerEpoch
  BY <1>0, <1>1
<1>3. CASE Stale(h)
  BY <1>0, <1>3 DEF Remembered, Stale
<1>4. CASE ~Stale(h)
  BY <1>0, <1>2, <1>4 DEF Remembered, Covered
<1> QED BY <1>3, <1>4

\* What a removed validator was accused of is out of reach of every window by then.
LEMMA RemovalRemembers ==
  ASSUME UnbondingOutlastsRecords, RecordsInv, NEW u \in Validators, RemoveValidator(u),
         UNCHANGED daVars,
         NEW c \in Consumers, NEW v \in Validators, NEW a \in Addrs, NEW h \in Nat,
         Remembered(c, v, a, h)
  PROVE  Remembered(c, v, a, h)'
<1> USE ConstantsAssumption, DowntimeAssumption
<1>0. UNCHANGED <<now, leftAt, accepted, floor>>
  BY DEF RemoveValidator, daVars
<1>1. /\ now \in Nat /\ leftAt \in [Validators -> Nat] /\ BlocksPerEpoch \in Nat /\ Unbonding \in Nat
      /\ owner \in [Addrs -> Validators \cup {NoVal}] /\ live \in [Validators -> Addrs \cup {NoAddr}]
      /\ key \in [Consumers -> [Addrs -> Addrs \cup {NoAddr}]] /\ IInv
  BY DEF RecordsInv, EntriesInv, IInv, TypeOK, Times
<1>2. \A w \in Validators : Exists(w) => live[w] \in Addrs /\ owner[live[w]] = w
  BY <1>1, BondedAreLive
<1>3. CASE Stale(h)
  BY <1>0, <1>3 DEF Remembered, Stale
<1>4. CASE ~Stale(h) /\ v = u
  <2>1. leftAt[v] # 0 /\ leftAt[v] + Unbonding <= now
    BY <1>4 DEF RemoveValidator, Bonded
  <2>2. h <= leftAt[v] + BlocksPerEpoch
    BY <1>4, <2>1 DEF Remembered
  <2>3. ASSUME NEW w \in Windows, NEW q \in ParamChoices
        PROVE  h + (w.end - w.start) + q.maxAge < now
    <3>1. (w.end - w.start) + q.maxAge + q.challenge + q.maxAge + BlocksPerEpoch < Unbonding
      BY DEF UnbondingOutlastsRecords
    <3> QED BY <1>1, <2>1, <2>2, <3>1
  <2> QED BY <1>4, <2>3 DEF Stale
<1>5. CASE ~Stale(h) /\ v # u
  <2>1. /\ Exists(v) /\ h <= now /\ (leftAt[v] = 0 \/ h <= leftAt[v] + BlocksPerEpoch)
        /\ (\A p \in Addrs : owner[p] = v => p = live[v]) => Covered(c, live[v], h)
        /\ key[c][live[v]] = NoAddr => owner[a] = v /\ Covered(c, a, h)
    BY <1>5 DEF Remembered
  <2>2. live'[v] = live[v] /\ \A p \in Addrs : owner'[p] = v <=> owner[p] = v
    BY <1>1, <1>5 DEF RemoveValidator
  <2>3. live[u] # live[v]
    BY <1>2, <1>5, <2>1 DEF RemoveValidator
  <2>4. key'[c][live[v]] = key[c][live[v]]
    BY <1>1, <1>2, <2>1, <2>3 DEF RemoveValidator, AfterValidatorRemoved
  <2> QED BY <1>0, <2>1, <2>2, <2>4 DEF Remembered, Covered
<1> QED BY <1>3, <1>4, <1>5

\* A validator that is created was not there to be remembered.
LEMMA CreationRemembers ==
  ASSUME RecordsInv, NEW u \in Validators, NEW b \in Addrs, CreateValidator(u, b),
         UNCHANGED daVars,
         NEW c \in Consumers, NEW v \in Validators, NEW a \in Addrs, NEW h \in Nat,
         Remembered(c, v, a, h)
  PROVE  Remembered(c, v, a, h)'
<1> USE ConstantsAssumption
<1>0. UNCHANGED <<now, key, accepted, floor>>
  BY DEF CreateValidator, daVars, keyVars
<1>1. /\ leftAt \in [Validators -> Nat] /\ owner \in [Addrs -> Validators \cup {NoVal}]
      /\ live \in [Validators -> Addrs \cup {NoAddr}]
  BY DEF RecordsInv, EntriesInv, IInv, TypeOK, Times
<1>3. CASE Stale(h)
  BY <1>0, <1>3 DEF Remembered, Stale
<1>4. CASE ~Stale(h)
  <2>1. /\ Exists(v) /\ h <= now /\ (leftAt[v] = 0 \/ h <= leftAt[v] + BlocksPerEpoch)
        /\ (\A p \in Addrs : owner[p] = v => p = live[v]) => Covered(c, live[v], h)
        /\ key[c][live[v]] = NoAddr => owner[a] = v /\ Covered(c, a, h)
    BY <1>4 DEF Remembered
  <2>2. v # u
    BY <2>1 DEF CreateValidator
  <2>3. /\ live'[v] = live[v] /\ leftAt'[v] = leftAt[v]
        /\ \A p \in Addrs : owner'[p] = v <=> owner[p] = v
    BY <1>1, <2>2 DEF CreateValidator
  <2> QED BY <1>0, <2>1, <2>3 DEF Remembered, Covered
<1> QED BY <1>3, <1>4

\* Where a validator without a key is looked up: at the address evidence names.
LEMMA KeylessIsNamed ==
  ASSUME IInv, OrphansAreNoted, NEW c \in Consumers, NEW a \in Addrs, a \notin orphaned[c],
         LET p == GetProviderAddrFromConsumerAddr(c, a)
         IN  owner[p] # NoVal /\ key[c][live[owner[p]]] = NoAddr
  PROVE  GetProviderAddrFromConsumerAddr(c, a) = a
<1> SUFFICES ASSUME byAddr[c][a] # NoAddr PROVE FALSE
  BY DEF GetProviderAddrFromConsumerAddr
<1>1. byAddr[c][a] \in Addrs /\ key[c][byAddr[c][a]] # NoAddr
  BY DEF OrphansAreNoted, IInv, TypeOK
<1>2. live[owner[byAddr[c][a]]] = byAddr[c][a]
  BY <1>1 DEF IInv, IndexesAgree
<1> QED BY <1>1, <1>2 DEF GetProviderAddrFromConsumerAddr

\* Accepting evidence adds a window that covers what it claims, and takes none away.
LEMMA EvidenceRemembers ==
  ASSUME RecordsInv, OrphansAreNoted, AccusedIsRemembered, NEW d \in Consumers,
         ConsumerDowntimes(d)
  PROVE  AccusedIsRemembered'
<1>e. PICK b \in Addrs, w \in Windows, tokens \in Amounts :
         \E anchor \in Anchors(w) : ConsumerDowntime(d, b, w, anchor, tokens)
  BY DEF ConsumerDowntimes
<1>0. PICK anchor \in Anchors(w) : ConsumerDowntime(d, b, w, anchor, tokens)
  BY <1>e
<1> DEFINE p == GetProviderAddrFromConsumerAddr(d, b)
           window == [addr |-> p, start |-> w.start, end |-> w.end, at |-> now]
<1>1. /\ Fresh(w, anchor) /\ NewWindow(d, p, w)
      /\ accepted' = [accepted EXCEPT ![d] = Put(@, window)]
      /\ accused' = [accused EXCEPT ![d] = @ \cup ({owner[p]} \X {b} \X (w.start .. w.end))]
      /\ UNCHANGED <<now, phase, owner, live, leftAt, key, byAddr, floor, orphaned>>
  BY <1>0 DEF ConsumerDowntime, kaVars, keyVars, stakingVars
<1>2. /\ p \in Addrs /\ owner[p] \in Validators
      /\ leftAt[owner[p]] = 0 \/ now <= leftAt[owner[p]] + BlocksPerEpoch
  BY <1>0, EvidenceIsOfTheSet
<1>3. /\ IInv /\ DTTypeOK /\ now \in Nat /\ leftAt \in [Validators -> Nat] /\ BlocksPerEpoch \in Nat
      /\ w.start \in Nat /\ w.end \in Nat /\ w.start <= w.end /\ w.end <= now
      /\ NoVal \notin Validators
  BY <1>1, ConstantsAssumption, DowntimeAssumption
     DEF RecordsInv, RecordsAreSound, EntriesInv, IInv, TypeOK, Times, Fresh
<1>4. b \notin orphaned[d] /\ key[d][live[owner[p]]] = NoAddr => p = b
  BY <1>2, <1>3, KeylessIsNamed
<1> HIDE DEF p
<1>5. window.addr = p /\ window.start = w.start /\ window.end = w.end
  OBVIOUS
<1> HIDE DEF window
<1>6. ASSUME NEW f \in accepted[d] PROVE ~SameKey(window, f)
  <2>1. f \in AcceptedWindow /\ \E x \in Windows : x.start = f.start /\ x.end = f.end
    BY <1>3 DEF RecordsInv, RecordsAreSound, DTTypeOK, AcceptedIsRecent
  <2>2. f.start \in Nat /\ f.end \in Nat /\ f.start <= f.end
    BY <2>1, DowntimeAssumption DEF AcceptedWindow
  <2>3. f.addr = p => ~Intersect(f, w)
    BY <1>1 DEF NewWindow
  <2> QED BY <1>3, <1>5, <2>2, <2>3 DEF SameKey, Intersect
<1>7. /\ accepted'[d] = accepted[d] \cup {window}
      /\ \A c \in Consumers : accepted[c] \subseteq accepted'[c]
  <2>1. accepted'[d] = {f \in accepted[d] : ~SameKey(window, f)} \cup {window}
    BY <1>1, <1>3 DEF DTTypeOK, Put
  <2>2. \A c \in Consumers : c # d => accepted'[c] = accepted[c]
    BY <1>1, <1>3 DEF DTTypeOK
  <2> QED BY <1>6, <2>1, <2>2
<1>8. ASSUME NEW c \in Consumers, NEW v \in Validators, NEW a \in Addrs, NEW h \in Nat,
             Remembered(c, v, a, h)
      PROVE  Remembered(c, v, a, h)'
  BY <1>1, <1>7, <1>8 DEF Remembered, Stale, Covered
<1>9. ASSUME NEW v \in Validators, v = owner[p], NEW h \in w.start .. w.end, b \notin orphaned[d]
      PROVE  Remembered(d, v, b, h)'
  <2>1. h \in Nat /\ h <= now /\ h <= w.end /\ w.start <= h
    BY <1>3
  <2>2. Exists(v) /\ (leftAt[v] = 0 \/ h <= leftAt[v] + BlocksPerEpoch)
    BY <1>2, <1>3, <1>9, <2>1 DEF IInv, AddressesHaveOneOwner
  <2>3. window \in accepted'[d] /\ Claims(window, h) /\ window.addr = p
    BY <1>5, <1>7, <2>1 DEF Claims
  <2>4. (\A x \in Addrs : owner[x] = v => x = live[v]) => p = live[v]
    BY <1>2, <1>9
  <2> QED BY <1>1, <1>2, <1>4, <1>9, <2>1, <2>2, <2>3, <2>4 DEF Remembered, Covered
<1>10. ASSUME NEW c \in Consumers, NEW x \in accused'[c], phase[c] # "DELETED",
              x[2] \notin orphaned[c]
       PROVE  Remembered(c, x[1], x[2], x[3])'
  <2>1. CASE x \in accused[c]
    <3>1. x[1] \in Validators /\ x[2] \in Addrs /\ x[3] \in Nat
      BY <1>3, <2>1 DEF DTTypeOK, Accusation
    <3>2. Remembered(c, x[1], x[2], x[3])
      BY <1>10, <2>1 DEF AccusedIsRemembered, nonDeletedConsumerIds
    <3> QED BY <1>8, <3>1, <3>2
  <2>2. CASE x \notin accused[c]
    <3>1. c = d /\ x \in {owner[p]} \X {b} \X (w.start .. w.end)
      BY <1>1, <1>3, <1>10, <2>2 DEF DTTypeOK
    <3>2. x[1] = owner[p] /\ x[2] = b /\ x[3] \in w.start .. w.end
      BY <3>1
    <3>3. x[1] \in Validators
      BY <1>2, <3>2
    <3> QED BY <1>9, <1>10, <3>1, <3>2, <3>3
  <2> QED BY <2>1, <2>2
<1> QED BY <1>1, <1>10 DEF AccusedIsRemembered, nonDeletedConsumerIds

\* Where a validator's records do not move, what they covered stays covered: a window that
\* is pruned leaves the floor at its end or higher.
LEMMA CoverStays ==
  ASSUME RecordsInv, NEW paying \in SUBSET Consumers, NextBlock(paying),
         NEW c \in Consumers, NEW a \in Addrs, NEW h \in Nat,
         owner[a] # NoVal, ~KeepsIdentity(c, a), Covered(c, a, h)
  PROVE  Covered(c, a, h)'
<1>0. IInv /\ EndBlock /\ floor[c] \in [Addrs -> Nat]
  BY BlockSteps DEF RecordsInv, RecordsAreSound, DTTypeOK
<1>1. /\ floor'[c][a] \in Nat /\ MigratedFloor(c)[a] <= floor'[c][a]
      /\ \A g \in GoneWindows(c) : g.addr = a => g.end <= floor'[c][a]
  BY BlockRaisesFloor
<1>2. CASE h <= floor[c][a]
  <2>1. ~Arriving(a)
    BY <1>0, AddressesMoved
  <2>2. MigratedFloor(c)[a] = floor[c][a]
    BY <2>1 DEF MigratedFloor
  <2> QED BY <1>0, <1>1, <1>2, <2>2 DEF Covered
<1>3. CASE \E e \in accepted[c] : e.addr = a /\ Claims(e, h)
  <2>1. PICK e \in accepted[c] : e.addr = a /\ Claims(e, h)
    BY <1>3
  <2>2. PICK g \in MigratedAccepted(c) : WindowOf(c, g, e)
    BY BlockMovesWindows
  <2>3. g.addr = a /\ Claims(g, h) /\ g.end \in Nat
    BY <2>1, <2>2 DEF WindowOf, Moved, Claims
  <2>4. CASE g \in GoneWindows(c)
    <3>1. h <= g.end /\ g.end <= floor'[c][a]
      BY <1>1, <2>3, <2>4 DEF Claims
    <3> QED BY <1>1, <2>3, <3>1 DEF Covered
  <2>5. CASE g \notin GoneWindows(c)
    <3>1. g \in accepted'[c]
      BY <2>5, BlockSteps
    <3> QED BY <2>3, <3>1 DEF Covered
  <2> QED BY <2>4, <2>5
<1> QED BY <1>2, <1>3 DEF Covered

\* A block: whoever rotates has two addresses from then on, and if it has no key its
\* records stay where they are.
LEMMA BlockRemembers ==
  ASSUME RecordsInv, NEW paying \in SUBSET Consumers, NextBlock(paying),
         NEW c \in Consumers, NEW v \in Validators, NEW a \in Addrs, NEW h \in Nat,
         Remembered(c, v, a, h)
  PROVE  Remembered(c, v, a, h)'
<1> USE ConstantsAssumption
<1>0. IInv /\ EndBlock /\ leftAt' = leftAt /\ now \in Nat /\ now' \in Nat /\ now <= now'
  BY BlockSteps
<1>1. CASE Stale(h)
  BY <1>0, <1>1, StaleStays DEF Remembered
<1>2. CASE ~Stale(h)
  <2>1. /\ Exists(v) /\ h <= now /\ (leftAt[v] = 0 \/ h <= leftAt[v] + BlocksPerEpoch)
        /\ (\A p \in Addrs : owner[p] = v => p = live[v]) => Covered(c, live[v], h)
        /\ key[c][live[v]] = NoAddr => owner[a] = v /\ Covered(c, a, h)
    BY <1>2 DEF Remembered
  <2>2. live[v] \in Addrs /\ owner[live[v]] = v
    BY <1>0, <2>1, BondedAreLive
  <2>3. /\ \A u \in Rotating : /\ live[u] \in Addrs /\ owner[live[u]] = u
                               /\ rotations[u] \in Addrs /\ owner[rotations[u]] = NoVal
        /\ live'[v] = IF v \in Rotating THEN rotations[v] ELSE live[v]
    BY <1>0, RotationsApplied
  <2>4. \A p \in Addrs : owner[p] # NoVal => owner'[p] = owner[p]
    BY <1>0, AddressesMoved
  <2>5. \A p \in Addrs : Leaving(p) => owner[p] \in Rotating /\ p = live[owner[p]]
    BY <2>3 DEF Leaving
  <2>6. Exists(v)' /\ h <= now'
    BY <1>0, <2>1, <2>2, <2>3
  <2>7. ASSUME \A p \in Addrs : owner'[p] = v => p = live'[v]
        PROVE  v \notin Rotating /\ live'[v] = live[v] /\ Covered(c, live[v], h)
    <3>1. v \notin Rotating
      BY <2>2, <2>3, <2>4, <2>7
    <3> QED BY <2>1, <2>3, <2>4, <2>7, <3>1
  <2>8. ASSUME key'[c][live'[v]] = NoAddr PROVE key[c][live[v]] = NoAddr
    <3>1. CASE v \in Rotating
      BY <1>0, <2>3, <2>8, <3>1, KeysMigrated
    <3>2. CASE v \notin Rotating
      <4>1. ~Leaving(live[v]) /\ live[v] \notin Claimed
        BY <2>2, <2>3, <2>5, <3>2
      <4> QED BY <1>0, <2>2, <2>3, <2>8, <3>2, <4>1, KeysMigrated
    <3> QED BY <3>1, <3>2
  <2>9. ASSUME NEW x \in Addrs, owner[x] = v, v \notin Rotating \/ key[c][live[v]] = NoAddr,
               Covered(c, x, h)
        PROVE  Covered(c, x, h)'
    <3>1. ~KeepsIdentity(c, x)
      BY <2>5, <2>9 DEF KeepsIdentity
    <3> QED BY <2>9, <3>1, CoverStays
  <2>10. ASSUME \A p \in Addrs : owner'[p] = v => p = live'[v] PROVE Covered(c, live[v], h)'
    <3> DEFINE x == live[v]
    <3>1. v \notin Rotating /\ live'[v] = x /\ Covered(c, x, h)
      BY <2>7, <2>10
    <3>2. x \in Addrs /\ owner[x] = v
      BY <2>2
    <3> HIDE DEF x
    <3> QED BY <2>9, <3>1, <3>2 DEF Covered
  <2>11. ASSUME key'[c][live'[v]] = NoAddr PROVE owner'[a] = v /\ Covered(c, a, h)'
    BY <2>1, <2>4, <2>8, <2>9, <2>11
  <2> QED BY <1>0, <2>1, <2>6, <2>10, <2>11 DEF Remembered
<1> QED BY <1>1, <1>2

LEMMA StepRemembers ==
  ASSUME UnbondingOutlastsRecords, RecordsInv, OrphansAreNoted, AccusedIsRemembered,
         [DTNext]_dtVars
  PROVE  AccusedIsRemembered'
<1> USE ConstantsAssumption
<1>t. /\ IInv /\ DTTypeOK /\ phase \in [Consumers -> Phases]
      /\ key \in [Consumers -> [Addrs -> Addrs \cup {NoAddr}]]
      /\ \A v \in Validators : Exists(v) => live[v] \in Addrs
  BY BondedAreLive DEF RecordsInv, RecordsAreSound, EntriesInv, IInv, TypeOK
<1>o. \A c \in Consumers : orphaned[c] \subseteq orphaned'[c]
  BY StepKeepsOrphaned
<1>1. ASSUME NEW c \in Consumers, NEW x \in accused[c], phase[c] # "DELETED", x[2] \notin orphaned'[c]
      PROVE  /\ x[1] \in Validators /\ x[2] \in Addrs /\ x[3] \in Nat
             /\ Remembered(c, x[1], x[2], x[3])
  <2>1. x[2] \notin orphaned[c] /\ c \in nonDeletedConsumerIds
    BY <1>1, <1>o DEF nonDeletedConsumerIds
  <2>2. Remembered(c, x[1], x[2], x[3])
    BY <1>1, <2>1 DEF AccusedIsRemembered
  <2>3. x \in Accusation
    BY <1>1, <1>t DEF DTTypeOK
  <2> QED BY <2>2, <2>3 DEF Accusation
<1>2. ASSUME accused' = accused,
             \A c \in Consumers : phase[c] = "DELETED" => phase'[c] = "DELETED",
             \A c \in Consumers, v \in Validators, a \in Addrs, h \in Nat :
               phase'[c] # "DELETED" /\ Remembered(c, v, a, h) => Remembered(c, v, a, h)'
      PROVE  AccusedIsRemembered'
  BY <1>1, <1>2 DEF AccusedIsRemembered, nonDeletedConsumerIds
<1>3. ASSUME UNCHANGED <<now, live, owner, leftAt, accused>>,
             \A c \in Consumers : phase[c] = "DELETED" => phase'[c] = "DELETED",
             \A c \in Consumers : phase'[c] # "DELETED" =>
               /\ accepted'[c] = accepted[c] /\ floor'[c] = floor[c]
               /\ \A v \in Validators : key'[c][live[v]] = NoAddr => key[c][live[v]] = NoAddr
      PROVE  AccusedIsRemembered'
  BY <1>2, <1>3, QuietStepRemembers
<1>4. ASSUME NEW paying \in SUBSET Consumers, NextBlock(paying) PROVE AccusedIsRemembered'
  <2>1. accused' = accused /\ phase' = phase
    BY <1>4, BlockSteps
  <2>2. \A c \in Consumers, v \in Validators, a \in Addrs, h \in Nat :
          Remembered(c, v, a, h) => Remembered(c, v, a, h)'
    BY <1>4, BlockRemembers
  <2> QED BY <1>2, <2>1, <2>2
<1>5. ASSUME NEW c \in Consumers, ConsumerDowntimes(c) PROVE AccusedIsRemembered'
  BY <1>5, EvidenceRemembers
<1>6. ASSUME NEW c \in Consumers, \/ Challenges(c) \/ PauseWithDowntime(c)
                                  \/ StopWithDowntime(c) \/ StartWithDowntime(c)
      PROVE  AccusedIsRemembered'
  <2>1. /\ UNCHANGED <<now, live, owner, leftAt, accused, key, accepted, floor>>
        /\ phase[c] # "DELETED" /\ \E p \in Phases : phase' = [phase EXCEPT ![c] = p]
    BY <1>6 DEF Challenges, ChallengeConsumerDowntime, PauseWithDowntime, StopWithDowntime,
                StartWithDowntime, PauseConsumer, StopConsumer, LaunchConsumer, ResumeConsumer,
                MovesTo, stakingVars, keyVars, Phases
  <2> QED BY <1>3, <1>t, <2>1
<1>7. ASSUME NEW c \in Consumers, DeleteWithDowntime(c) PROVE AccusedIsRemembered'
  <2>1. /\ UNCHANGED <<now, live, owner, leftAt, accused>>
        /\ phase' = [phase EXCEPT ![c] = "DELETED"]
        /\ key' = [key EXCEPT ![c] = NoKeys]
        /\ accepted' = [accepted EXCEPT ![c] = {}] /\ floor' = [floor EXCEPT ![c] = NoneSince]
    BY <1>7 DEF DeleteWithDowntime, DeleteConsumer, DeleteKeyAssignments, MovesTo, stakingVars
  <2>2. \A d \in Consumers : d # c =>
          key'[d] = key[d] /\ accepted'[d] = accepted[d] /\ floor'[d] = floor[d]
    BY <1>t, <2>1 DEF DTTypeOK
  <2>3. phase'[c] = "DELETED" /\ \A d \in Consumers : d # c => phase'[d] = phase[d]
    BY <1>t, <2>1
  <2> QED BY <1>3, <2>1, <2>2, <2>3
<1>8. CASE \/ RestartProvider \/ UNCHANGED dtVars
           \/ \E q \in ParamChoices : UpdateInfractionParams(q)
  <2>1. UNCHANGED <<now, phase, live, owner, leftAt, accused, key, accepted, floor>>
    BY <1>8 DEF RestartProvider, UpdateInfractionParams, dtVars, daVars, kaVars, stakingVars, keyVars
  <2> QED BY <1>3, <2>1
<1>9. CASE KeyStep
  <2>0. UNCHANGED daVars /\ UNCHANGED <<accused, accepted, floor>> /\ Leavers \subseteq Validators
    BY <1>9 DEF KeyStep, daVars
  <2>1. ASSUME NEW v \in Assigners, NEW c \in Consumers, NEW k \in Addrs, AssignConsumerKey(v, c, k)
        PROVE  AccusedIsRemembered'
    <3>1. UNCHANGED <<now, phase, live, owner, leftAt>>
      BY <2>1 DEF AssignConsumerKey, stakingVars
    <3>2. live[v] \in Addrs /\ k # NoAddr /\ key' = [key EXCEPT ![c][live[v]] = k]
      BY <1>t, <2>1 DEF AssignConsumerKey
    <3>3. \A d \in Consumers, p \in Addrs \cup {NoAddr} :
            key'[d][p] = NoAddr => key[d][p] = NoAddr
      <4>1. \A d \in Consumers : \A p : d # c \/ p # live[v] => key'[d][p] = key[d][p]
        BY <1>t, <3>2
      <4>2. key'[c][live[v]] = k
        BY <1>t, <3>2
      <4> QED BY <3>2, <4>1, <4>2
    <3>4. \A u \in Validators : live[u] \in Addrs \cup {NoAddr}
      BY <1>t DEF IInv, TypeOK
    <3> QED BY <1>3, <2>0, <3>1, <3>3, <3>4
  <2>2. ASSUME NEW v \in Rotators, NEW a \in Addrs, RotateConsPubKey(v, a) PROVE AccusedIsRemembered'
    <3>1. UNCHANGED <<now, phase, live, owner, leftAt, key>>
      BY <2>2 DEF RotateConsPubKey, keyVars
    <3> QED BY <1>3, <2>0, <3>1
  <2>3. ASSUME NEW v \in Leavers, BeginUnbonding(v) PROVE AccusedIsRemembered'
    <3>1. phase' = phase
      BY <2>3 DEF BeginUnbonding
    <3> QED BY <1>2, <2>0, <2>3, <3>1, UnbondingRemembers
  <2>4. ASSUME NEW v \in Leavers, RemoveValidator(v) PROVE AccusedIsRemembered'
    <3>1. phase' = phase
      BY <2>4 DEF RemoveValidator
    <3> QED BY <1>2, <2>0, <2>4, <3>1, RemovalRemembers
  <2>5. ASSUME NEW v \in Leavers, NEW a \in Addrs, CreateValidator(v, a) PROVE AccusedIsRemembered'
    <3>1. phase' = phase
      BY <2>5 DEF CreateValidator
    <3> QED BY <1>2, <2>0, <2>5, <3>1, CreationRemembers
  <2> QED BY <1>9, <2>1, <2>2, <2>3, <2>4, <2>5 DEF KeyStep
<1> QED BY <1>4, <1>5, <1>6, <1>7, <1>8, <1>9 DEF DTNext

(***************************************************************************)
(* The theorems about what was accepted.                                   *)
(***************************************************************************)
LEMMA StepKeepsInv ==
  UnbondingOutlastsRecords /\ RecordsInv /\ DTInv /\ [DTNext]_dtVars => DTInv'
<1> SUFFICES ASSUME UnbondingOutlastsRecords, RecordsInv, DTInv, [DTNext]_dtVars PROVE DTInv'
  OBVIOUS
<1>1. RecordsAreSound'
  BY StepKeepsRecords DEF RecordsInv
<1>2. IInv /\ AccusedIsRemembered /\ OrphansAreNoted
  BY DEF RecordsInv, EntriesInv, DTInv
<1>3. OrphansAreNoted'
  BY <1>2, StepKeepsOrphans
<1>4. AccusedIsRemembered'
  BY <1>2, StepRemembers
<1> QED BY <1>1, <1>3, <1>4 DEF DTInv

LEMMA InvInvariance == UnbondingOutlastsRecords /\ DTSpec => [](RecordsInv /\ DTInv)
<1>1. UnbondingOutlastsRecords => UnbondingOutlastsRecords'
  BY DEF UnbondingOutlastsRecords
<1>2. DTInit => RecordsInv /\ DTInv
  <2> SUFFICES ASSUME DTInit PROVE RecordsInv /\ DTInv
    OBVIOUS
  <2>1. RecordsInv
    BY InitEstablishesRecords
  <2>2. AccusedIsRemembered /\ OrphansAreNoted
    BY DEF DTInit, Init, AccusedIsRemembered, nonDeletedConsumerIds, OrphansAreNoted, NoKeys
  <2> QED BY <2>1, <2>2 DEF RecordsInv, DTInv
<1> QED BY <1>1, <1>2, StepKeepsRecords, StepKeepsInv, PTL DEF DTSpec

\* With an unbonding time that outlasts the records of a window, the downtime state can
\* be exported and imported at any block: whatever is accepted, pruned, rotated away,
\* removed and created again, the windows of a pair stay disjoint and above its floor and
\* every queued slash has its window; and what was accepted is remembered where evidence
\* about it is looked up, unless the validator has a key and rotates.
THEOREM StateIsImportable == UnbondingOutlastsRecords /\ DTSpec => []DTInv
BY InvInvariance, PTL

\* "No window is ever accepted twice" holds for every validator that does not both have a
\* consumer key and rotate its provider key, in every sequence of pruning, pausing,
\* resuming, restarting, leaving and coming back, and of changes of the parameters; but
\* for evidence under a key that a validator had replaced before it was removed.
THEOREM NoneIsAcceptedAgain == UnbondingOutlastsRecords /\ DTSpec => WindowAcceptedOnce
<1>1. ASSUME RecordsInv, AccusedIsRemembered, OrphansAreNoted,
             NEW c \in Consumers, NEW a \in Addrs, NEW w \in Windows,
             ~RotatedWithKey(c, a), a \notin orphaned[c], AcceptsAgain(c, a, w)
      PROVE  FALSE
  <2> USE ConstantsAssumption, DowntimeAssumption
  <2> DEFINE p == GetProviderAddrFromConsumerAddr(c, a)
             v == owner[p]
  <2>1. PICK h \in w.start .. w.end : <<v, a, h>> \in accused[c]
    BY <1>1 DEF AcceptsAgain
  <2>2. PICK anchor \in Anchors(w), tokens \in Amounts : ConsumerDowntime(c, a, w, anchor, tokens)
    BY <1>1 DEF AcceptsAgain
  <2>3. phase[c] = "LAUNCHED" /\ Fresh(w, anchor) /\ NewWindow(c, p, w)
    BY <2>2 DEF ConsumerDowntime
  <2>4. p \in Addrs /\ v \in Validators
    BY <1>1, <2>2, EvidenceIsOfTheSet
  <2>5. /\ IInv /\ now \in Nat /\ w.start \in Nat /\ w.end \in Nat /\ h \in Nat
        /\ w.start <= h /\ h <= w.end /\ floor[c][p] \in Nat
        /\ params \in ParamChoices /\ params.maxAge \in Nat
        /\ anchor \in Nat /\ anchor <= w.end /\ now - anchor <= params.maxAge
    BY <1>1, <2>1, <2>3, <2>4
       DEF RecordsInv, RecordsAreSound, EntriesInv, IInv, TypeOK, DTTypeOK, Anchors, Fresh
  <2>6. Remembered(c, v, a, h)
    BY <1>1, <2>1, <2>3 DEF AccusedIsRemembered, nonDeletedConsumerIds
  <2>7. ~Stale(h)
    <3>1. ~(h + (w.end - w.start) + params.maxAge < now)
      BY <2>5
    <3> QED BY <2>5, <3>1 DEF Stale
  <2>8. key[c][live[v]] = NoAddr \/ \A x \in Addrs : owner[x] = v => x = live[v]
    BY <1>1, <2>4 DEF RotatedWithKey
  <2>9. key[c][live[v]] = NoAddr => p = a
    BY <1>1, <2>4, <2>5, KeylessIsNamed
  <2>10. Covered(c, p, h)
    <3>1. CASE key[c][live[v]] = NoAddr
      BY <2>6, <2>7, <2>9, <3>1 DEF Remembered
    <3>2. CASE \A x \in Addrs : owner[x] = v => x = live[v]
      <4>1. p = live[v]
        BY <2>4, <3>2
      <4> QED BY <2>6, <2>7, <3>2, <4>1 DEF Remembered
    <3> QED BY <2>8, <3>1, <3>2
  <2> HIDE DEF p
  <2>11. CASE h <= floor[c][p]
    BY <2>3, <2>5, <2>11 DEF NewWindow
  <2>12. CASE \E e \in accepted[c] : e.addr = p /\ Claims(e, h)
    <3>1. PICK e \in accepted[c] : e.addr = p /\ Claims(e, h)
      BY <2>12
    <3>2. e.start \in Nat /\ e.end \in Nat
      BY <1>1 DEF RecordsInv, RecordsAreSound, DTTypeOK, AcceptedWindow
    <3> QED BY <2>3, <2>5, <3>1, <3>2 DEF NewWindow, Intersect, Claims
  <2> QED BY <2>10, <2>11, <2>12 DEF Covered
<1>2. RecordsInv /\ AccusedIsRemembered /\ OrphansAreNoted =>
        [\A c \in Consumers, a \in Addrs, w \in Windows :
           ~RotatedWithKey(c, a) /\ a \notin orphaned[c] => ~AcceptsAgain(c, a, w)]_dtVars
  BY <1>1
<1>3. DTInv => AccusedIsRemembered /\ OrphansAreNoted
  BY DEF DTInv
<1> QED BY <1>2, <1>3, InvInvariance, PTL DEF WindowAcceptedOnce
===============================================================================

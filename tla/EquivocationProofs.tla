------------------------- MODULE EquivocationProofs -------------------------
(***************************************************************************)
(* Proofs about Equivocation, for every number of consumers, validators,   *)
(* chain ids and heights, every policy and every unbonding time.           *)
(*                                                                         *)
(* The keys are KeyAssignment's: every step here is one of its steps, or   *)
(* only moves a validator in or out of the bonded set, so the inductive    *)
(* invariant of KeyAssignmentProofs carries over.  On top of it, a         *)
(* punishment leaves something that stops the next one, and that follows   *)
(* the validator through its rotations.                                    *)
(***************************************************************************)
EXTENDS Equivocation, KeyAssignmentProofs, FiniteSetTheorems

USE DEF Exists, IsTombstoned

\* What this module's own state satisfies.
Accounts ==
  /\ EQTypeOK /\ PunishmentIsRemembered /\ SlashesAreAccounted /\ EvidencePunishesSigner

EQIInv == IInv /\ VotesResolve /\ Accounts

\* A validator is jailed, or comes back.
BondChange(v) ==
  /\ \E t \in {0, now, leftAt[v]} : leftAt' = [leftAt EXCEPT ![v] = t]
  /\ UNCHANGED <<now, phase, live, owner, rotations, keyVars, checked, historyVars>>

\* A consumer that has been launched never changes its chain id, and one that is
\* deleted stays so.
PhasesAdvance ==
  \A c \in Consumers :
    /\ phase[c] # "REGISTERED" => phase'[c] # "REGISTERED" /\ chain'[c] = chain[c]
    /\ phase[c] = "DELETED" => phase'[c] = "DELETED"

(***************************************************************************)
(* The keys.                                                               *)
(***************************************************************************)
\* Every step is a step of the keys, or moves one validator in or out.
LEMMA StepsOfKeys ==
  ASSUME EQIInv, [EQNext]_allVars
  PROVE  [Next]_kaVars \/ \E v \in Validators : BondChange(v)
<1> USE ConstantsAssumption, EquivocationAssumption
<1>1. CASE EQEndBlock
  BY <1>1 DEF EQEndBlock, Next
<1>2. CASE EQKeyStep
  BY <1>2 DEF EQKeyStep, Next
<1>3. ASSUME NEW c \in Consumers, EQLifecycle(c) PROVE [Next]_kaVars
  BY <1>3 DEF EQLifecycle, Next
<1>4. ASSUME NEW c \in Consumers, NEW x \in ChainIds, CreateConsumer(c, x) \/ UpdateConsumer(c, x)
      PROVE  [Next]_kaVars
  BY <1>4 DEF CreateConsumer, UpdateConsumer, SetConsumerChainId
<1>5. ASSUME NEW x \in seen, NEW h \in Heights, DoubleSign(x, h)
      PROVE  [Next]_kaVars
  BY <1>5 DEF DoubleSign
<1>6. ASSUME NEW c \in Consumers, NEW e \in votes, ConsumerDoubleVoting(c, e)
      PROVE  [Next]_kaVars \/ \E v \in Validators : BondChange(v)
  <2> DEFINE p == GetProviderAddrFromConsumerAddr(c, e.addr)
  <2>1. UNCHANGED <<now, phase, live, owner, rotations, keyVars, checked, historyVars>>
    BY <1>6 DEF ConsumerDoubleVoting
  <2>2. CASE UNCHANGED leftAt
    BY <2>1, <2>2 DEF kaVars, stakingVars
  <2>3. CASE Slashable(p) /\ leftAt' = [leftAt EXCEPT ![owner[p]] = IF @ = 0 THEN now ELSE @]
    <3>1. p \in Addrs /\ owner[p] \in Validators
      BY <2>3 DEF EQIInv, Accounts, EQTypeOK, DoubleVote, IInv, TypeOK,
         GetProviderAddrFromConsumerAddr, Slashable
    <3> QED BY <2>1, <2>3, <3>1 DEF BondChange
  <2> QED BY <1>6, <2>2, <2>3 DEF ConsumerDoubleVoting, Punish
<1>7. ASSUME NEW v \in Validators, Unjail(v) PROVE BondChange(v)
  BY <1>7 DEF Unjail, BondChange
<1>8. ASSUME NEW t \in Policies, UpdateInfractionParams(t) PROVE [Next]_kaVars
  BY <1>8 DEF UpdateInfractionParams
<1>9. CASE UNCHANGED allVars
  BY <1>9 DEF allVars
<1> QED BY <1>1, <1>2, <1>3, <1>4, <1>5, <1>6, <1>7, <1>8, <1>9 DEF EQNext

LEMMA StepsKeepIInv ==
  ASSUME EQIInv, [EQNext]_allVars
  PROVE  IInv'
<1>1. CASE [Next]_kaVars
  BY <1>1, NextKeepsIInv DEF EQIInv
<1>2. ASSUME NEW v \in Validators, BondChange(v) PROVE IInv'
  <2>1. checked' \subseteq Addrs
    BY <1>2 DEF BondChange, EQIInv, IInv, TypeOK
  <2> QED BY <1>2, <2>1, BondChangeKeepsIInv DEF EQIInv, BondChange
<1> QED BY <1>1, <1>2, StepsOfKeys

LEMMA StepsKeepResolution ==
  ASSUME EQIInv, [EQNext]_allVars,
         NEW c \in Consumers, phase[c] # "REGISTERED", phase'[c] # "DELETED",
         NEW a \in Addrs, NEW w \in Validators, NEW t \in Nat,
         WasBonded(w, t), StillResolves(c, a, w, t)
  PROVE  WasBonded(w, t)' /\ StillResolves(c, a, w, t)'
<1>1. CASE [Next]_kaVars
  BY <1>1, NextKeepsResolution DEF EQIInv
<1>2. ASSUME NEW v \in Validators, BondChange(v)
      PROVE  WasBonded(w, t)' /\ StillResolves(c, a, w, t)'
  BY <1>2, ConstantsAssumption DEF BondChange, EQIInv, IInv, TypeOK, Times, keyVars,
     WasBonded, StillResolves, GetProviderAddrFromConsumerAddr
<1> QED BY <1>1, <1>2, StepsOfKeys

\* No step takes an address back from those that slipped.
LEMMA StepsKeepSlipped ==
  ASSUME EQIInv, [EQNext]_allVars
  PROVE  slipped \subseteq slipped'
<1>1. CASE [Next]_kaVars
  BY <1>1 DEF Next, kaVars, historyVars, EndBlock, Lifecycle, LaunchConsumer, PauseConsumer,
     ResumeConsumer, StopConsumer, DeleteConsumer, MovesTo, AssignConsumerKey, RotateConsPubKey,
     BeginUnbonding, RemoveValidator, CreateValidator
<1>2. ASSUME NEW v \in Validators, BondChange(v) PROVE slipped \subseteq slipped'
  BY <1>2 DEF BondChange, historyVars
<1> QED BY <1>1, <1>2, StepsOfKeys

LEMMA StepsKeepBonded ==
  ASSUME EQIInv, [EQNext]_allVars, NEW w \in Validators, NEW t \in Nat, WasBonded(w, t)
  PROVE  WasBonded(w, t)'
<1> USE DEF WasBonded
<1>t. now \in Nat /\ leftAt \in [Validators -> Nat]
  BY ConstantsAssumption DEF EQIInv, IInv, TypeOK, Times
<1>1. CASE [Next]_kaVars
  <2>1. \/ now' >= now /\ now' \in Nat /\ leftAt' = leftAt
        \/ now' = now /\ \E v \in Validators, s \in {0, now} : leftAt' = [leftAt EXCEPT ![v] = s]
    <3>1. CASE EndBlock
      BY <3>1, <1>t, ConstantsAssumption DEF EndBlock
    <3>2. CASE \/ \E c \in Consumers : Lifecycle(c)
               \/ \E v \in Assigners, c \in Consumers, k \in Addrs : AssignConsumerKey(v, c, k)
               \/ \E v \in Rotators, a \in Addrs : RotateConsPubKey(v, a)
               \/ UNCHANGED kaVars
      <4>1. UNCHANGED <<now, leftAt>>
        BY <3>2 DEF kaVars, stakingVars, Lifecycle, LaunchConsumer, PauseConsumer, ResumeConsumer,
           StopConsumer, DeleteConsumer, MovesTo, AssignConsumerKey, RotateConsPubKey
      <4> QED BY <4>1, <1>t
    <3>3. ASSUME NEW v \in Leavers, BeginUnbonding(v) \/ RemoveValidator(v) \/
                                    \E a \in Addrs : CreateValidator(v, a)
          PROVE  \/ now' >= now /\ now' \in Nat /\ leftAt' = leftAt
                 \/ /\ now' = now
                    /\ \E w2 \in Validators, s \in {0, now} : leftAt' = [leftAt EXCEPT ![w2] = s]
      BY <3>3, <1>t, ConstantsAssumption DEF BeginUnbonding, RemoveValidator, CreateValidator
    <3> QED BY <1>1, <3>1, <3>2, <3>3 DEF Next
  <2> QED BY <2>1, <1>t
<1>2. ASSUME NEW v \in Validators, BondChange(v) PROVE WasBonded(w, t)'
  BY <1>2, <1>t DEF BondChange
<1> QED BY <1>1, <1>2, StepsOfKeys

LEMMA StepsAdvancePhases ==
  ASSUME EQIInv, [EQNext]_allVars
  PROVE  PhasesAdvance
<1> USE DEF PhasesAdvance, EQIInv, IInv, TypeOK, Accounts, EQTypeOK
<1>1. CASE EQEndBlock
  BY <1>1 DEF EQEndBlock, EndBlock
<1>2. CASE EQKeyStep
  BY <1>2 DEF EQKeyStep, eqVars, AssignConsumerKey, RotateConsPubKey, BeginUnbonding,
     RemoveValidator, CreateValidator
<1>3. ASSUME NEW c \in Consumers, EQLifecycle(c) PROVE PhasesAdvance
  BY <1>3 DEF EQLifecycle, Lifecycle, LaunchConsumer, PauseConsumer, ResumeConsumer,
     StopConsumer, DeleteConsumer, MovesTo
<1>4. ASSUME NEW c \in Consumers, NEW x \in ChainIds, CreateConsumer(c, x) \/ UpdateConsumer(c, x)
      PROVE  PhasesAdvance
  BY <1>4 DEF CreateConsumer, UpdateConsumer, SetConsumerChainId, kaVars
<1>5. ASSUME NEW x \in seen, NEW h \in Heights, DoubleSign(x, h)
      PROVE  PhasesAdvance
  BY <1>5 DEF DoubleSign, kaVars
<1>6. ASSUME NEW c \in Consumers, NEW e \in votes, ConsumerDoubleVoting(c, e) PROVE PhasesAdvance
  BY <1>6 DEF ConsumerDoubleVoting
<1>7. ASSUME NEW v \in Validators, Unjail(v) PROVE PhasesAdvance
  BY <1>7 DEF Unjail
<1>8. ASSUME NEW t \in Policies, UpdateInfractionParams(t) PROVE PhasesAdvance
  BY <1>8 DEF UpdateInfractionParams, kaVars
<1>9. CASE UNCHANGED allVars
  BY <1>9 DEF allVars, kaVars, eqVars
<1> QED BY <1>1, <1>2, <1>3, <1>4, <1>5, <1>6, <1>7, <1>8, <1>9 DEF EQNext

(***************************************************************************)
(* The votes.                                                              *)
(***************************************************************************)
\* A vote is cast with an address of a set, which resolves; no step cuts off the
\* earlier ones.
LEMMA StepsKeepVotes ==
  ASSUME EQIInv, [EQNext]_allVars
  PROVE  VotesResolve'
<1> USE ConstantsAssumption, EquivocationAssumption
<1>1. \A e \in votes : /\ e.con \in Consumers /\ e.addr \in Addrs /\ e.val \in Validators
                       /\ e.at \in Nat /\ e.height \in Heights
  BY DEF EQIInv, Accounts, EQTypeOK, DoubleVote, Times
<1>2. ASSUME NEW e \in votes
      PROVE  /\ phase'[e.con] # "REGISTERED" /\ e.height >= MinHeight[e.con]
             /\ WasBonded(e.val, e.at)'
             /\ phase'[e.con] # "DELETED" /\ e.addr \notin slipped' =>
                  StillResolves(e.con, e.addr, e.val, e.at)'
  <2>1. /\ phase[e.con] # "REGISTERED" /\ e.height >= MinHeight[e.con]
        /\ WasBonded(e.val, e.at)
        /\ phase[e.con] # "DELETED" /\ e.addr \notin slipped =>
             StillResolves(e.con, e.addr, e.val, e.at)
    BY DEF EQIInv, VotesResolve
  <2>2. phase'[e.con] # "REGISTERED" /\ (phase[e.con] = "DELETED" => phase'[e.con] = "DELETED")
    BY <1>1, <2>1, StepsAdvancePhases DEF PhasesAdvance
  <2>3. WasBonded(e.val, e.at)'
    BY <1>1, <2>1, StepsKeepBonded
  <2>4. ASSUME phase'[e.con] # "DELETED", e.addr \notin slipped'
        PROVE  StillResolves(e.con, e.addr, e.val, e.at)'
    BY <1>1, <2>1, <2>2, <2>4, StepsKeepResolution, StepsKeepSlipped
  <2> QED BY <2>1, <2>2, <2>3, <2>4
<1>3. CASE votes' = votes
  BY <1>2, <1>3 DEF VotesResolve
<1>4. ASSUME NEW x \in seen, NEW h \in Heights, DoubleSign(x, h)
      PROVE  VotesResolve'
  <2>0. PICK e : e = [con |-> x.con, addr |-> x.addr, height |-> h, val |-> x.val, at |-> x.at]
    OBVIOUS
  <2>1. votes' = votes \cup {e} /\ UNCHANGED kaVars /\ h >= MinHeight[x.con]
    BY <1>4, <2>0 DEF DoubleSign
  <2>2. SetsResolve'
    BY StepsKeepIInv DEF IInv
  <2>3. /\ phase'[e.con] # "REGISTERED" /\ WasBonded(e.val, e.at)'
        /\ phase'[e.con] # "DELETED" /\ e.addr \notin slipped' =>
             StillResolves(e.con, e.addr, e.val, e.at)'
    <3> HIDE DEF StillResolves, WasBonded
    <3>1. x \in seen' /\ x.con \in Consumers
      BY <2>1 DEF kaVars, historyVars, EQIInv, IInv, TypeOK, SetEntry
    <3> QED BY <2>0, <2>2, <3>1 DEF SetsResolve, nonDeletedConsumerIds
  <2> QED BY <1>2, <2>0, <2>1, <2>3 DEF VotesResolve
<1>5. votes' = votes \/ \E x \in seen, h \in Heights : DoubleSign(x, h)
  BY DEF EQNext, EQEndBlock, EQKeyStep, eqVars, EQLifecycle, CreateConsumer, UpdateConsumer,
     SetConsumerChainId, ConsumerDoubleVoting, Unjail, UpdateInfractionParams, allVars
<1> QED BY <1>3, <1>4, <1>5

(***************************************************************************)
(* The accounts.                                                           *)
(***************************************************************************)
\* What a step that touches no address, record or punishment leaves as it is.
LEMMA QuietStepsKeepAccounts ==
  ASSUME EQIInv, PhasesAdvance,
         UNCHANGED <<live, owner, tombstoned, records, taken, punished, slashes>>
  PROVE  PunishmentIsRemembered' /\ SlashesAreAccounted' /\ EvidencePunishesSigner'
<1> USE DEF EQIInv, Accounts, PhasesAdvance
<1>1. PunishmentIsRemembered'
  BY DEF PunishmentIsRemembered, IsTombstoned, HasRotated, EQTypeOK, Infraction
<1>2. SlashesAreAccounted'
  <2>1. \A i \in punished : \E c \in Consumers : phase'[c] # "REGISTERED" /\ chain'[c] = i.chain
    BY DEF SlashesAreAccounted
  <2>2. \A v \in Validators : Exists(v) =>
          \/ slashes[v] = Cardinality({i \in punished : i.val = v})
          \/ /\ HasRotated(v)
             /\ \E c, d \in Consumers : /\ c # d /\ chain'[c] = chain'[d]
                                        /\ phase'[c] # "REGISTERED" /\ phase'[d] # "REGISTERED"
    BY DEF SlashesAreAccounted
  <2> QED BY <2>1, <2>2 DEF SlashesAreAccounted, HasRotated
<1>3. EvidencePunishesSigner'
  <2>1. \A e \in taken : e.con \in Consumers /\ chain'[e.con] = chain[e.con]
                         /\ (phase[e.con] = "DELETED" => phase'[e.con] = "DELETED")
    BY DEF VotesResolve, EQTypeOK, DoubleVote
  <2> QED BY <2>1 DEF EvidencePunishesSigner, Settled
<1> QED BY <1>1, <1>2, <1>3

\* A validator that is gone accounts for nothing.
LEMMA RemovalKeepsAccounts ==
  ASSUME EQIInv, NEW v \in Validators, RemoveValidator(v), UNCHANGED eqVars
  PROVE  Accounts'
<1> USE DEF EQIInv, Accounts, RemoveValidator, eqVars
<1>1. \A w \in Validators : live'[w] = IF w = v THEN NoAddr ELSE live[w]
  BY DEF IInv, TypeOK
<1>2. \A w \in Validators \ {v}, a \in Addrs : owner[a] = w => owner'[a] = w
  BY DEF IInv, TypeOK
<1>3. \A w \in Validators \ {v} : HasRotated(w) => HasRotated(w)'
  BY <1>1, <1>2 DEF HasRotated
<1>4. EQTypeOK'
  BY DEF EQTypeOK
<1>5. PunishmentIsRemembered'
  BY <1>1, <1>3 DEF PunishmentIsRemembered, IsTombstoned, EQTypeOK, Infraction
<1>6. SlashesAreAccounted'
  BY <1>1, <1>3 DEF SlashesAreAccounted
<1>7. EvidencePunishesSigner'
  <2>1. \A e \in taken : e.val \in Validators
    BY DEF EQTypeOK, DoubleVote
  <2>2. ASSUME NEW e \in taken, e.val # v, Settled(e) PROVE Settled(e)'
    BY <1>1, <1>2, <2>1, <2>2 DEF Settled
  <2> QED BY <1>1, <2>1, <2>2 DEF EvidencePunishesSigner
<1> QED BY <1>4, <1>5, <1>6, <1>7

\* A new validator starts with an empty account.
LEMMA CreationKeepsAccounts ==
  ASSUME EQIInv, NEW v \in Validators, NEW a \in Addrs, CreateValidator(v, a),
         jailedUntil' = [jailedUntil EXCEPT ![v] = 0],
         taken' = {e \in taken : e.val # v},
         punished' = {i \in punished : i.val # v},
         slashes' = [slashes EXCEPT ![v] = 0],
         UNCHANGED <<chain, tombstone, tombstoned, records, votes>>
  PROVE  Accounts'
<1> USE DEF EQIInv, Accounts, CreateValidator
<1>1. \A w \in Validators \ {v} : live'[w] = live[w]
  BY DEF IInv, TypeOK
<1>2. \A w \in Validators \ {v}, b \in Addrs : owner[b] = w => owner'[b] = w
  BY ConstantsAssumption DEF IInv, TypeOK
<1>3. \A w \in Validators \ {v} : HasRotated(w) => HasRotated(w)'
  BY <1>1, <1>2 DEF HasRotated
<1>4. EQTypeOK'
  <2>1. IsFiniteSet(punished')
    BY FS_Subset DEF EQTypeOK
  <2> QED BY <2>1 DEF EQTypeOK
<1>5. PunishmentIsRemembered'
  BY <1>1, <1>3 DEF PunishmentIsRemembered, IsTombstoned, EQTypeOK, Infraction
<1>6. SlashesAreAccounted'
  <2>1. {i \in punished' : i.val = v} = {} /\ slashes'[v] = 0
    BY DEF EQTypeOK
  <2>2. ASSUME NEW w \in Validators \ {v}
        PROVE  {i \in punished' : i.val = w} = {i \in punished : i.val = w} /\ slashes'[w] = slashes[w]
    BY DEF EQTypeOK
  <2>3. \A i \in punished' : \E c \in Consumers : phase'[c] # "REGISTERED" /\ chain'[c] = i.chain
    BY DEF SlashesAreAccounted
  <2>4. slashes'[v] = Cardinality({i \in punished' : i.val = v})
    BY <2>1, FS_EmptySet
  <2>5. ASSUME NEW w \in Validators \ {v}, Exists(w)'
        PROVE  \/ slashes'[w] = Cardinality({i \in punished' : i.val = w})
               \/ /\ HasRotated(w)'
                  /\ \E c, d \in Consumers : /\ c # d /\ chain'[c] = chain'[d]
                                             /\ phase'[c] # "REGISTERED" /\ phase'[d] # "REGISTERED"
    BY <1>1, <1>3, <2>2, <2>5 DEF SlashesAreAccounted
  <2> QED BY <2>3, <2>4, <2>5 DEF SlashesAreAccounted
<1>7. EvidencePunishesSigner'
  <2>1. \A e \in taken' : e \in taken /\ e.val \in Validators \ {v}
    BY DEF EQTypeOK, DoubleVote
  <2>2. ASSUME NEW e \in taken, e.val \in Validators \ {v}, Settled(e) PROVE Settled(e)'
    <3>1. CASE [val |-> e.val, chain |-> chain[e.con], height |-> e.height] \in punished
      BY <2>2, <3>1 DEF Settled
    <3>2. CASE IsTombstoned(e.val)
      BY <1>1, <2>2, <3>2 DEF Settled
    <3>3. ASSUME NEW b \in Addrs,
                 owner[b] = e.val /\ (b = live[e.val] \/ phase[e.con] = "DELETED"),
                 [chain |-> chain[e.con], height |-> e.height, addr |-> b] \in records
          PROVE  Settled(e)'
      BY <1>1, <1>2, <2>2, <3>3 DEF Settled
    <3> QED BY <2>2, <3>1, <3>2, <3>3 DEF Settled
  <2> QED BY <1>1, <2>1, <2>2 DEF EvidencePunishesSigner
<1> QED BY <1>4, <1>5, <1>6, <1>7

\* A rotation moves the validator's tombstone, and its records of every chain id that
\* a consumer has now.
LEMMA EndBlockKeepsAccounts ==
  ASSUME EQIInv, EQEndBlock
  PROVE  Accounts'
<1> USE ConstantsAssumption DEF EQIInv, Accounts, EQEndBlock
<1>1. /\ \A v \in Validators : live'[v] = IF v \in Rotating THEN rotations[v] ELSE live[v]
      /\ \A v \in Rotating : /\ live[v] \in Addrs /\ owner[live[v]] = v /\ Leaving(live[v])
                             /\ rotations[v] \in Addrs /\ owner[rotations[v]] = NoVal
                             /\ RotatedTo(live[v]) = rotations[v] /\ owner'[rotations[v]] = v
      /\ \A a \in Addrs : Leaving(a) => \E v \in Rotating : live[v] = a
      /\ \A a \in Addrs : owner[a] # NoVal => owner'[a] = owner[a]
  <2>1. IInv /\ EndBlock
    OBVIOUS
  <2>2. \A v \in Rotating : Leaving(live[v])
    BY DEF Leaving
  <2>3. \A a \in Addrs : Leaving(a) => \E v \in Rotating : live[v] = a
    BY DEF Leaving
  <2>4. \A a \in Addrs : owner[a] # NoVal => owner'[a] = owner[a]
    BY <2>1, RotationsApplied DEF Claimed
  <2> QED BY <2>1, <2>2, <2>3, <2>4, RotationsApplied
<1>2. \A v \in Validators : Exists(v) => live[v] \in Addrs /\ owner[live[v]] = v
  BY DEF IInv, TypeOK, AddressesHaveOneOwner
<1>3. \A v \in Validators : Exists(v)' => Exists(v)
  BY <1>1
<1>4. \A v \in Validators : v \in Rotating \/ HasRotated(v) => HasRotated(v)'
  <2> SUFFICES ASSUME NEW v \in Validators, v \in Rotating \/ HasRotated(v) PROVE HasRotated(v)'
    OBVIOUS
  <2>1. CASE v \in Rotating
    <3>1. live[v] \in Addrs \ {live'[v]} /\ owner'[live[v]] = v
      BY <1>1, <2>1
    <3> QED BY <3>1 DEF HasRotated
  <2>2. CASE v \notin Rotating
    <3>1. PICK a \in Addrs \ {live[v]} : owner[a] = v
      BY <2>2 DEF HasRotated
    <3>2. a \in Addrs \ {live'[v]} /\ owner'[a] = v
      BY <1>1, <2>2, <3>1
    <3> QED BY <3>2 DEF HasRotated
  <2> QED BY <2>1, <2>2
<1>5. \A v \in Validators : Exists(v) /\ IsTombstoned(v) => IsTombstoned(v)'
  <2> SUFFICES ASSUME NEW v \in Validators, Exists(v), IsTombstoned(v) PROVE IsTombstoned(v)'
    OBVIOUS
  <2>1. CASE v \in Rotating
    BY <1>1, <2>1
  <2>2. CASE v \notin Rotating
    <3>1. ~Leaving(live[v])
      BY <1>1, <1>2, <2>2
    <3> QED BY <1>1, <2>2, <3>1
  <2> QED BY <2>1, <2>2
<1>6. ASSUME NEW r \in records PROVE r \in Record
  BY DEF EQTypeOK
<1>7. ASSUME NEW r \in records, ~(Leaving(r.addr) /\ \E c \in nonDeletedConsumerIds : chain[c] = r.chain)
      PROVE  r \in records'
  BY <1>7 DEF MigratedPunishedEquivocations
<1>8. ASSUME NEW r \in records, NEW v \in Rotating, r.addr = live[v],
             \E c \in nonDeletedConsumerIds : chain[c] = r.chain
      PROVE  [chain |-> r.chain, height |-> r.height, addr |-> rotations[v]] \in records'
  <2>1. [r EXCEPT !.addr = RotatedTo(@)] = [chain |-> r.chain, height |-> r.height, addr |-> rotations[v]]
    BY <1>1, <1>6, <1>8 DEF Record
  <2>2. [r EXCEPT !.addr = RotatedTo(@)] \in records'
    <3>1. Leaving(r.addr)
      BY <1>1, <1>8
    <3>2. records' = MigratedPunishedEquivocations
      OBVIOUS
    <3> QED BY <1>8, <3>1, <3>2 DEF MigratedPunishedEquivocations
  <2> QED BY <2>1, <2>2
<1>9. EQTypeOK'
  <2>1. tombstoned' \subseteq Addrs
    <3> SUFFICES ASSUME NEW a \in tombstoned, Leaving(a) PROVE RotatedTo(a) \in Addrs
      BY DEF EQTypeOK
    <3> QED BY <1>1 DEF EQTypeOK
  <2>2. records' \subseteq Record
    <3> SUFFICES ASSUME NEW r \in records, Leaving(r.addr)
                 PROVE  [r EXCEPT !.addr = RotatedTo(@)] \in Record
      BY <1>6 DEF MigratedPunishedEquivocations
    <3> QED BY <1>1, <1>6 DEF Record
  <2> QED BY <2>1, <2>2 DEF EQTypeOK, EndBlock
<1>10. PunishmentIsRemembered'
  <2> SUFFICES ASSUME NEW i \in punished, Exists(i.val)'
               PROVE  \/ IsTombstoned(i.val)'
                      \/ [chain |-> i.chain, height |-> i.height, addr |-> live'[i.val]] \in records'
                      \/ /\ HasRotated(i.val)'
                         /\ \E c \in Consumers : phase'[c] = "DELETED" /\ chain'[c] = i.chain
    BY DEF PunishmentIsRemembered
  <2> DEFINE r == [chain |-> i.chain, height |-> i.height, addr |-> live[i.val]]
  <2>1. i.val \in Validators /\ Exists(i.val)
    BY <1>3 DEF EQTypeOK, Infraction
  <2>2. UNCHANGED <<phase, chain>>
    BY DEF EndBlock
  <2>3. PICK c \in Consumers : chain[c] = i.chain
    BY DEF SlashesAreAccounted
  <2>4. CASE IsTombstoned(i.val)
    BY <1>5, <2>1, <2>4
  <2>5. CASE HasRotated(i.val) /\ \E d \in Consumers : phase[d] = "DELETED" /\ chain[d] = i.chain
    BY <1>4, <2>1, <2>2, <2>5
  <2>6. CASE r \in records /\ i.val \notin Rotating
    <3>1. ~Leaving(live[i.val]) /\ live'[i.val] = live[i.val]
      BY <1>1, <1>2, <2>1, <2>6
    <3> QED BY <1>7, <2>6, <3>1
  <2>7. CASE r \in records /\ i.val \in Rotating
    <3>1. CASE phase[c] = "DELETED"
      BY <1>4, <2>1, <2>2, <2>3, <2>7, <3>1
    <3>2. CASE phase[c] # "DELETED"
      <4>1. r.addr = live[i.val] /\ r.chain = i.chain /\ r.height = i.height
        OBVIOUS
      <4>2. c \in nonDeletedConsumerIds /\ chain[c] = r.chain
        BY <2>3, <3>2 DEF nonDeletedConsumerIds
      <4>3. live'[i.val] = rotations[i.val]
        BY <1>1, <2>1, <2>7
      <4> HIDE DEF r
      <4> QED BY <1>8, <2>7, <4>1, <4>2, <4>3
    <3> QED BY <3>1, <3>2
  <2> QED BY <2>1, <2>4, <2>5, <2>6, <2>7 DEF PunishmentIsRemembered
<1>11. SlashesAreAccounted'
  BY <1>3, <1>4 DEF SlashesAreAccounted, EndBlock
<1>12. EvidencePunishesSigner'
  <2> SUFFICES ASSUME NEW e \in taken, Exists(e.val)' PROVE Settled(e)'
    BY DEF EvidencePunishesSigner
  <2>1. e.val \in Validators /\ e.con \in Consumers
    BY DEF EQTypeOK, DoubleVote
  <2>2. UNCHANGED <<phase, chain, punished>>
    BY DEF EndBlock
  <2>3. Exists(e.val) /\ Settled(e)
    BY <1>3, <2>1 DEF EvidencePunishesSigner
  <2>4. CASE [val |-> e.val, chain |-> chain[e.con], height |-> e.height] \in punished
    BY <2>2, <2>4 DEF Settled
  <2>5. CASE IsTombstoned(e.val)
    BY <1>5, <2>1, <2>3, <2>5 DEF Settled
  <2>6. ASSUME NEW a \in Addrs,
               owner[a] = e.val /\ (a = live[e.val] \/ phase[e.con] = "DELETED"),
               [chain |-> chain[e.con], height |-> e.height, addr |-> a] \in records
        PROVE  Settled(e)'
    <3>1. PICK r \in records : r = [chain |-> chain[e.con], height |-> e.height, addr |-> a]
      BY <2>6
    <3>2. CASE Leaving(a) /\ \E c \in nonDeletedConsumerIds : chain[c] = r.chain
      <4>1. e.val \in Rotating /\ live[e.val] = a
        BY <1>1, <2>6, <3>2
      <4>2. [chain |-> chain[e.con], height |-> e.height, addr |-> rotations[e.val]] \in records'
        BY <1>8, <3>1, <3>2, <4>1
      <4>3. /\ rotations[e.val] \in Addrs /\ owner'[rotations[e.val]] = e.val
            /\ live'[e.val] = rotations[e.val]
        BY <1>1, <2>1, <4>1
      <4> QED BY <2>2, <4>2, <4>3 DEF Settled
    <3>3. CASE ~(Leaving(a) /\ \E c \in nonDeletedConsumerIds : chain[c] = r.chain)
      <4>1. [chain |-> chain[e.con], height |-> e.height, addr |-> a] \in records'
        BY <1>7, <3>1, <3>3
      <4>2. owner'[a] = e.val
        BY <1>1, <2>1, <2>6
      <4>3. a = live'[e.val] \/ phase[e.con] = "DELETED"
        <5> SUFFICES ASSUME a = live[e.val], phase[e.con] # "DELETED", e.val \in Rotating
                     PROVE FALSE
          BY <1>1, <2>1, <2>6
        <5>1. Leaving(a) /\ e.con \in nonDeletedConsumerIds /\ chain[e.con] = r.chain
          BY <1>1, <2>1, <3>1 DEF nonDeletedConsumerIds
        <5> QED BY <3>3, <5>1
      <4> QED BY <2>2, <4>1, <4>2, <4>3 DEF Settled
    <3> QED BY <3>2, <3>3
  <2> QED BY <2>3, <2>4, <2>5, <2>6 DEF Settled
<1> QED BY <1>9, <1>10, <1>11, <1>12

\* Evidence is handed in: what was remembered or settled stays so, since a record is
\* only dropped of a tombstoned validator; a slash is for an infraction not punished
\* before, or the chain id had another consumer and the validator rotated.
LEMMA EvidenceKeepsAccounts ==
  ASSUME EQIInv, NEW c \in Consumers, NEW e \in votes, ConsumerDoubleVoting(c, e)
  PROVE  Accounts'
<1> USE ConstantsAssumption, EquivocationAssumption DEF EQIInv, Accounts
<1> DEFINE p == GetProviderAddrFromConsumerAddr(c, e.addr)
           v == owner[p]
           k == PunishedKey(c, e)
           i == [val |-> v, chain |-> k.chain, height |-> k.height]
<1>1. /\ UNCHANGED <<now, phase, live, owner, chain, tombstone, votes>>
      /\ phase[c] = "LAUNCHED" /\ chain[e.con] = chain[c]
      /\ taken' = IF e.con = c /\ Accountable(e) THEN taken \cup {e} ELSE taken
  BY DEF ConsumerDoubleVoting, Receivable, Verifies
<1>2. /\ e.con \in Consumers /\ e.addr \in Addrs /\ e.height \in Heights /\ e.val \in Validators
      /\ e.at \in Nat /\ p \in Addrs /\ chain[c] \in ChainIds /\ v \in Validators \cup {NoVal}
  BY <1>1 DEF EQTypeOK, DoubleVote, IInv, TypeOK, Times, GetProviderAddrFromConsumerAddr
<1>3. k.chain = chain[c] /\ k.height = e.height /\ k = [chain |-> chain[c], height |-> e.height, addr |-> k.addr]
  BY DEF PunishedKey
<1>4. v # NoVal => /\ v \in Validators /\ Exists(v)
                   /\ live[v] \in Addrs /\ owner[live[v]] = v /\ k.addr = live[v]
  BY <1>2 DEF PunishedKey, liveProviderConsAddr, IInv, TypeOK, AddressesHaveOneOwner
<1>5. e.con = c /\ Accountable(e) => v = e.val
  BY <1>1 DEF VotesResolve, StillResolves, Accountable
<1>6. \/ /\ k \in records
         /\ UNCHANGED <<tombstoned, jailedUntil, records, punished, slashes>>
      \/ /\ v # NoVal /\ IsTombstoned(v) /\ records' = Forget(k)
         /\ UNCHANGED <<tombstoned, jailedUntil, punished, slashes>>
      \/ k \notin records /\ v # NoVal /\ ~IsTombstoned(v) /\ Punish(v, k) /\ records' = Remember(k)
  BY DEF ConsumerDoubleVoting, AlreadyPunished, Slashable, AlreadyTombstoned
<1>7. /\ i.val = v /\ i.chain = chain[c] /\ i.height = e.height
      /\ v # NoVal => i \in Infraction /\ k \in Record
  BY <1>2, <1>3, <1>4 DEF Infraction, Record
<1> HIDE DEF p, v, k, i
<1>8. Punish(v, k) => /\ slashes' = [slashes EXCEPT ![v] = @ + 1] /\ punished' = punished \cup {i}
                      /\ jailedUntil' = [jailedUntil EXCEPT ![v] = now + JailDuration]
                      /\ tombstoned' = IF tombstone THEN tombstoned \cup {live[v]} ELSE tombstoned
  BY DEF Punish, i
<1>9. /\ punished \subseteq punished' /\ tombstoned \subseteq tombstoned'
      /\ \/ records \subseteq records'
         \/ v # NoVal /\ live[v] \in tombstoned' /\ records' = Forget(k)
  <2>1. CASE Punish(v, k) /\ v # NoVal /\ records' = Remember(k)
    <3>1. CASE tombstone
      BY <1>8, <2>1, <3>1 DEF Remember
    <3>2. CASE ~tombstone
      BY <1>8, <2>1, <3>2 DEF Remember
    <3> QED BY <3>1, <3>2
  <2> QED BY <1>6, <2>1
<1>10. ASSUME NEW r \in records, r \notin records' PROVE v # NoVal /\ r.addr = live[v]
  BY <1>4, <1>9, <1>10 DEF Forget
<1>11. EQTypeOK'
  <2>1. records' \subseteq Record
    BY <1>6, <1>7 DEF EQTypeOK, Remember, Forget
  <2>2. punished' \subseteq Infraction /\ IsFiniteSet(punished')
    BY <1>6, <1>7, <1>8, FS_AddElement DEF EQTypeOK
  <2>3. jailedUntil' \in [Validators -> Nat] /\ slashes' \in [Validators -> Nat]
    BY <1>4, <1>6, <1>8 DEF EQTypeOK, IInv, TypeOK
  <2>4. tombstoned' \subseteq Addrs
    BY <1>4, <1>6, <1>8 DEF EQTypeOK
  <2> QED BY <1>1, <2>1, <2>2, <2>3, <2>4 DEF EQTypeOK
<1>12. PunishmentIsRemembered'
  <2> SUFFICES ASSUME NEW j \in punished', Exists(j.val)
               PROVE  \/ IsTombstoned(j.val)'
                      \/ [chain |-> j.chain, height |-> j.height, addr |-> live[j.val]] \in records'
                      \/ /\ HasRotated(j.val)
                         /\ \E d \in Consumers : phase[d] = "DELETED" /\ chain[d] = j.chain
    BY <1>1 DEF PunishmentIsRemembered, HasRotated
  <2>1. j.val \in Validators /\ owner[live[j.val]] = j.val
    BY <1>11 DEF EQTypeOK, Infraction, IInv, AddressesHaveOneOwner
  <2>2. CASE j \in punished
    <3> DEFINE r == [chain |-> j.chain, height |-> j.height, addr |-> live[j.val]]
    <3>1. CASE r \in records /\ r \notin records'
      <4>1. v # NoVal /\ live[j.val] = live[v] /\ live[v] \in tombstoned'
        BY <1>9, <1>10, <3>1
      <4>2. j.val = v
        BY <1>4, <2>1, <4>1
      <4> QED BY <1>1, <4>1, <4>2
    <3> QED BY <1>1, <1>9, <2>2, <3>1 DEF PunishmentIsRemembered
  <2>3. CASE j = i /\ Punish(v, k) /\ records' = Remember(k)
    <3>1. j.val = v /\ k = [chain |-> j.chain, height |-> j.height, addr |-> live[j.val]]
      BY <1>2, <1>3, <1>4, <1>7, <2>1, <2>3
    <3>2. CASE tombstone
      BY <1>1, <1>8, <2>3, <3>1, <3>2
    <3>3. CASE ~tombstone
      BY <2>3, <3>1, <3>3 DEF Remember
    <3> QED BY <3>2, <3>3
  <2> QED BY <1>6, <1>8, <2>2, <2>3
<1>13. SlashesAreAccounted'
  <2>1. \A j \in punished' : \E d \in Consumers : phase'[d] # "REGISTERED" /\ chain'[d] = j.chain
    BY <1>1, <1>6, <1>7, <1>8 DEF SlashesAreAccounted
  <2>2. CASE UNCHANGED <<punished, slashes>>
    BY <1>1, <2>1, <2>2 DEF SlashesAreAccounted, HasRotated
  <2>3. CASE k \notin records /\ v # NoVal /\ ~IsTombstoned(v) /\ Punish(v, k)
    <3> SUFFICES ASSUME NEW w \in Validators, Exists(w)
                 PROVE  \/ slashes'[w] = Cardinality({j \in punished' : j.val = w})
                        \/ /\ HasRotated(w)
                           /\ \E a, b \in Consumers : /\ a # b /\ chain[a] = chain[b]
                                                      /\ phase[a] # "REGISTERED" /\ phase[b] # "REGISTERED"
      BY <1>1, <2>1 DEF SlashesAreAccounted, HasRotated
    <3>1. CASE w # v
      <4>1. {j \in punished' : j.val = w} = {j \in punished : j.val = w} /\ slashes'[w] = slashes[w]
        BY <1>4, <1>7, <1>8, <2>3, <3>1 DEF EQTypeOK
      <4> QED BY <4>1 DEF SlashesAreAccounted
    <3>2. CASE w = v /\ i \in punished
      <4>1. k = [chain |-> i.chain, height |-> i.height, addr |-> live[i.val]]
        BY <1>3, <1>4, <1>7, <2>3
      <4>2. HasRotated(v) /\ \E d \in Consumers : phase[d] = "DELETED" /\ chain[d] = chain[c]
        BY <1>4, <1>7, <2>3, <3>2, <4>1 DEF PunishmentIsRemembered
      <4> QED BY <1>1, <3>2, <4>2
    <3>3. CASE w = v /\ i \notin punished
      <4>1. {j \in punished' : j.val = v} = {j \in punished : j.val = v} \cup {i}
        BY <1>7, <1>8, <2>3
      <4>2. IsFiniteSet({j \in punished : j.val = v})
        BY FS_Subset DEF EQTypeOK
      <4>3. Cardinality({j \in punished' : j.val = v}) = Cardinality({j \in punished : j.val = v}) + 1
        BY <3>3, <4>1, <4>2, FS_AddElement
      <4>4. slashes'[v] = slashes[v] + 1
        BY <1>4, <1>8, <2>3 DEF EQTypeOK
      <4> QED BY <3>3, <4>3, <4>4 DEF SlashesAreAccounted
    <3> QED BY <3>1, <3>2, <3>3
  <2> QED BY <1>6, <2>2, <2>3
<1>14. EvidencePunishesSigner'
  <2> SUFFICES ASSUME NEW f \in taken', Exists(f.val) PROVE Settled(f)'
    BY <1>1 DEF EvidencePunishesSigner
  <2>1. CASE f \in taken
    <3>1. Settled(f)
      BY <2>1 DEF EvidencePunishesSigner
    <3>2. ASSUME NEW a \in Addrs,
                 owner[a] = f.val /\ (a = live[f.val] \/ phase[f.con] = "DELETED"),
                 [chain |-> chain[f.con], height |-> f.height, addr |-> a] \in records
          PROVE  Settled(f)'
      <4>1. PICK r \in records : r = [chain |-> chain[f.con], height |-> f.height, addr |-> a]
        BY <3>2
      <4>2. CASE r \in records'
        BY <1>1, <3>2, <4>1, <4>2 DEF Settled
      <4>3. CASE r \notin records'
        <5>1. v # NoVal /\ a = live[v] /\ live[v] \in tombstoned'
          BY <1>9, <1>10, <4>1, <4>3
        <5>2. f.val = v
          BY <1>4, <3>2, <5>1
        <5> QED BY <1>1, <5>1, <5>2 DEF Settled
      <4> QED BY <4>2, <4>3
    <3>3. CASE IsTombstoned(f.val)
      BY <1>1, <1>9, <3>3 DEF Settled
    <3>4. CASE [val |-> f.val, chain |-> chain[f.con], height |-> f.height] \in punished
      BY <1>1, <1>9, <3>4 DEF Settled
    <3> QED BY <3>1, <3>2, <3>3, <3>4 DEF Settled
  <2>2. CASE f \notin taken
    <3>1. f = e /\ v = e.val /\ v # NoVal /\ e.con = c
      BY <1>1, <1>2, <1>5, <2>2
    <3>2. CASE k \in records /\ UNCHANGED records
      BY <1>1, <1>3, <1>4, <3>1, <3>2 DEF Settled
    <3>3. CASE IsTombstoned(v) /\ UNCHANGED tombstoned
      BY <1>1, <3>1, <3>3 DEF Settled
    <3>4. CASE Punish(v, k)
      <4>1. i = [val |-> e.val, chain |-> chain[e.con], height |-> e.height]
        BY <1>3, <3>1 DEF i
      <4> QED BY <1>1, <1>8, <3>1, <3>4, <4>1 DEF Settled
    <3> QED BY <1>6, <3>2, <3>3, <3>4
  <2> QED BY <2>1, <2>2
<1> QED BY <1>11, <1>12, <1>13, <1>14

(***************************************************************************)
(* The theorems.                                                           *)
(***************************************************************************)
LEMMA StepsKeepAccounts ==
  ASSUME EQIInv, [EQNext]_allVars
  PROVE  Accounts'
<1> USE ConstantsAssumption, EquivocationAssumption
<1>0. PhasesAdvance
  BY StepsAdvancePhases
<1>q. ASSUME UNCHANGED <<live, owner, tombstoned, records, taken, punished, slashes>>, EQTypeOK'
      PROVE  Accounts'
  BY <1>0, <1>q, QuietStepsKeepAccounts DEF Accounts
<1>t. EQTypeOK /\ phase \in [Consumers -> Phases] /\ now \in Nat
  BY DEF EQIInv, Accounts, IInv, TypeOK
<1>1. CASE EQEndBlock
  BY <1>1, EndBlockKeepsAccounts
<1>2. CASE EQKeyStep
  <2>1. ASSUME NEW v \in Leavers, RemoveValidator(v), UNCHANGED eqVars PROVE Accounts'
    BY <2>1, RemovalKeepsAccounts
  <2>2. CASE /\ \/ \E v \in Assigners, c \in Consumers, k \in Addrs :
                     chain[c] # NoChain /\ AssignConsumerKey(v, c, k)
                \/ \E v \in Rotators, a \in Addrs : RotateConsPubKey(v, a)
                \/ \E v \in Leavers : BeginUnbonding(v)
             /\ UNCHANGED eqVars
    <3>1. UNCHANGED <<live, owner, phase>>
      BY <2>2 DEF AssignConsumerKey, RotateConsPubKey, BeginUnbonding, stakingVars
    <3> QED BY <1>q, <1>t, <2>2, <3>1 DEF eqVars, EQTypeOK
  <2>3. ASSUME NEW v \in Leavers, NEW a \in Addrs, CreateValidator(v, a),
               jailedUntil' = [jailedUntil EXCEPT ![v] = 0],
               taken' = {e \in taken : e.val # v},
               punished' = {i \in punished : i.val # v},
               slashes' = [slashes EXCEPT ![v] = 0],
               UNCHANGED <<chain, tombstone, tombstoned, records, votes>>
        PROVE  Accounts'
    BY <2>3, CreationKeepsAccounts
  <2> QED BY <1>2, <2>1, <2>2, <2>3 DEF EQKeyStep
<1>3. ASSUME NEW c \in Consumers, EQLifecycle(c) PROVE Accounts'
  <2>1. UNCHANGED <<live, owner, tombstoned, records, taken, punished, slashes,
                    chain, tombstone, jailedUntil, votes>>
    BY <1>3 DEF EQLifecycle, RecordsKept, Lifecycle, LaunchConsumer, PauseConsumer, ResumeConsumer,
       StopConsumer, DeleteConsumer, MovesTo, stakingVars
  <2>2. \A d \in Consumers : d # c => phase'[d] = phase[d]
    BY <1>3, <1>t DEF EQLifecycle, Lifecycle, LaunchConsumer, PauseConsumer, ResumeConsumer,
       StopConsumer, DeleteConsumer, MovesTo
  <2>3. chain[c] # NoChain
    BY <1>3 DEF EQLifecycle
  <2>4. EQTypeOK'
    BY <1>t, <2>1, <2>2, <2>3 DEF EQTypeOK
  <2> QED BY <1>q, <2>1, <2>4
<1>4. ASSUME NEW c \in Consumers, NEW x \in ChainIds, CreateConsumer(c, x) \/ UpdateConsumer(c, x)
      PROVE  Accounts'
  BY <1>q, <1>t, <1>4 DEF CreateConsumer, UpdateConsumer, SetConsumerChainId, kaVars, stakingVars, EQTypeOK
<1>5. ASSUME NEW x \in seen, NEW h \in Heights, DoubleSign(x, h)
      PROVE  Accounts'
  <2> DEFINE e == [con |-> x.con, addr |-> x.addr, height |-> h, val |-> x.val, at |-> x.at]
  <2>1. e \in DoubleVote
    BY DEF DoubleVote, EQIInv, IInv, TypeOK, SetEntry
  <2>2. votes' = votes \cup {e}
    BY <1>5 DEF DoubleSign
  <2> HIDE DEF e
  <2>3. EQTypeOK'
    BY <1>5, <1>t, <2>1, <2>2 DEF DoubleSign, kaVars, EQTypeOK
  <2> QED BY <1>q, <1>5, <2>3 DEF DoubleSign, kaVars, stakingVars
<1>6. ASSUME NEW c \in Consumers, NEW e \in votes, ConsumerDoubleVoting(c, e) PROVE Accounts'
  BY <1>6, EvidenceKeepsAccounts
<1>7. ASSUME NEW v \in Validators, Unjail(v) PROVE Accounts'
  BY <1>q, <1>t, <1>7 DEF Unjail, EQTypeOK
<1>8. ASSUME NEW t \in Policies, UpdateInfractionParams(t) PROVE Accounts'
  <2>1. tombstone' \in BOOLEAN
    BY <1>8 DEF UpdateInfractionParams
  <2> QED BY <1>q, <1>t, <1>8, <2>1 DEF UpdateInfractionParams, kaVars, stakingVars, EQTypeOK
<1>9. CASE UNCHANGED allVars
  BY <1>q, <1>t, <1>9 DEF allVars, kaVars, stakingVars, eqVars, EQTypeOK
<1> QED BY <1>1, <1>2, <1>3, <1>4, <1>5, <1>6, <1>7, <1>8, <1>9 DEF EQNext

LEMMA EquivocationInvariance == EQSpec => []EQIInv
<1>1. EQInit => EQIInv
  <2> SUFFICES ASSUME EQInit PROVE EQIInv
    OBVIOUS
  <2> USE ConstantsAssumption, EquivocationAssumption DEF EQInit
  <2>1. IInv
    BY InitEstablishesIInv
  <2>2. VotesResolve /\ PunishmentIsRemembered /\ EvidencePunishesSigner
    BY DEF VotesResolve, PunishmentIsRemembered, EvidencePunishesSigner
  <2>3. EQTypeOK
    <3>1. tombstone \in BOOLEAN
      OBVIOUS
    <3>2. IsFiniteSet(punished)
      BY FS_EmptySet
    <3> QED BY <3>1, <3>2 DEF EQTypeOK, Init
  <2>4. SlashesAreAccounted
    <3>1. \A v \in Validators : {i \in punished : i.val = v} = {}
      OBVIOUS
    <3> QED BY <3>1, FS_EmptySet DEF SlashesAreAccounted
  <2> QED BY <2>1, <2>2, <2>3, <2>4 DEF EQIInv, Accounts
<1>2. EQIInv /\ [EQNext]_allVars => EQIInv'
  <2> SUFFICES ASSUME EQIInv, [EQNext]_allVars PROVE EQIInv'
    OBVIOUS
  <2> QED BY StepsKeepIInv, StepsKeepVotes, StepsKeepAccounts DEF EQIInv
<1> QED BY <1>1, <1>2, PTL DEF EQSpec

\* No infraction is punished twice: a validator is slashed as often as there are
\* infractions it was slashed for, unless it rotated and a consumer took the chain id
\* of a deleted one.
THEOREM NeverPunishedTwice == EQSpec => []EQInv
<1>1. EQIInv => EQInv
  <2> SUFFICES ASSUME EQIInv PROVE PunishedOnce
    BY DEF EQIInv, Accounts, EQInv
  <2> SUFFICES ASSUME NEW v \in Validators, Exists(v), ~(Reused /\ HasRotated(v))
               PROVE  slashes[v] = Cardinality({i \in punished : i.val = v})
    BY DEF PunishedOnce
  <2>1. ASSUME NEW c \in Consumers, NEW d \in Consumers, c # d, chain[c] = chain[d],
               phase[c] # "REGISTERED"
        PROVE  Reused
    BY <2>1 DEF Reused, EQIInv, Accounts, EQTypeOK
  <2> QED BY <2>1 DEF EQIInv, Accounts, SlashesAreAccounted
<1> QED BY <1>1, EquivocationInvariance, PTL

\* Whoever signed twice on a running consumer can be punished for it for an unbonding
\* period: the address leads to the signer, who has not finished unbonding.
THEOREM ProvenStaysPunishable == EQSpec => []ProvenIsPunishable
<1>1. EQIInv => ProvenIsPunishable
  <2> USE ConstantsAssumption, EquivocationAssumption DEF EQIInv, Accounts
  <2> SUFFICES ASSUME EQIInv, NEW e \in votes, phase[e.con] = "LAUNCHED", Accountable(e)
               PROVE  /\ Receivable(e.con, e)
                      /\ owner[GetProviderAddrFromConsumerAddr(e.con, e.addr)] = e.val
                      /\ Slashable(GetProviderAddrFromConsumerAddr(e.con, e.addr))
    BY DEF ProvenIsPunishable
  <2>1. e.val \in Validators /\ e.at \in Nat /\ now \in Nat /\ leftAt[e.val] \in Nat
    BY DEF EQTypeOK, DoubleVote, Times, IInv, TypeOK
  <2>2. /\ e.height >= MinHeight[e.con] /\ WasBonded(e.val, e.at)
        /\ owner[GetProviderAddrFromConsumerAddr(e.con, e.addr)] = e.val
    BY DEF VotesResolve, StillResolves, Accountable
  <2>3. ~IsUnbonded(e.val)
    BY <2>1, <2>2 DEF IsUnbonded, WasBonded, Accountable
  <2> QED BY <2>1, <2>2, <2>3 DEF Receivable, Slashable
<1> QED BY <1>1, EquivocationInvariance, PTL

\* Evidence that was taken in time has settled the matter for good.
THEOREM EvidenceSettles == EQSpec => []EvidencePunishesSigner
<1>1. EQIInv => EvidencePunishesSigner
  BY DEF EQIInv, Accounts
<1> QED BY <1>1, EquivocationInvariance, PTL
=============================================================================

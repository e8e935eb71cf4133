------------------------- MODULE KeyAssignmentProofs -------------------------
(***************************************************************************)
(* Proofs about KeyAssignment, for every number of consumers, validators   *)
(* and addresses and every unbonding time.                                 *)
(*                                                                         *)
(* IInv is inductive: one lemma per action below.  What carries the proof  *)
(* is ResolvableIsUnclaimed: the addresses x/staking knows and those that  *)
(* resolve on a consumer only overlap within one validator, or slipped     *)
(* through the ante handler.  So the address a validator has when a set is *)
(* computed leads to it then, and what leads to it does so for as long as  *)
(* it can be slashed.                                                      *)
(***************************************************************************)
EXTENDS KeyAssignment, TLAPS

USE DEF Exists, Rotating, Claimed, nonDeletedConsumerIds, WasBonded, StillResolves

\* IndexesAgree, for one consumer.
IndexesAgreeOn(c) ==
  /\ \A p \in Addrs : key[c][p] # NoAddr =>
       byAddr[c][key[c][p]] = p /\ owner[p] # NoVal /\ live[owner[p]] = p
  /\ \A a \in Addrs : byAddr[c][a] # NoAddr =>
       (key[c][byAddr[c][a]] = a <=> \A e \in toPrune[c] : e.addr # a)
  /\ \A e \in toPrune[c] : byAddr[c][e.addr] # NoAddr
  /\ \A e, f \in toPrune[c] : e.addr = f.addr => e = f

\* What is known of the addresses at one moment, and what follows for those in use:
\* the address a validator has on a consumer leads to it and waits for no pruning.
AddressTypes ==
  /\ live \in [Validators -> Addrs \cup {NoAddr}]
  /\ owner \in [Addrs -> Validators \cup {NoVal}]
  /\ key \in [Consumers -> [Addrs -> Addrs \cup {NoAddr}]]
  /\ byAddr \in [Consumers -> [Addrs -> Addrs \cup {NoAddr}]]

AddressesAreKept ==
  AddressTypes /\ AddressesHaveOneOwner /\ ResolvableIsUnclaimed /\ IndexesAgree

AddressLeadsTo(c, a, v) ==
  /\ owner[GetProviderAddrFromConsumerAddr(c, a)] = v
  /\ \A e \in toPrune[c] : e.addr # a

AddressesInUseResolve ==
  \A c \in Consumers, v \in Validators : Exists(v) =>
    /\ ConsumerAddr(c, v) \in Addrs
    /\ ConsumerAddr(c, v) \notin slipped => AddressLeadsTo(c, ConsumerAddr(c, v), v)

LEMMA AddressInUseResolves == AddressesAreKept => AddressesInUseResolve
<1> SUFFICES ASSUME AddressesAreKept, NEW c \in Consumers, NEW v \in Validators, Exists(v)
             PROVE  /\ ConsumerAddr(c, v) \in Addrs
                    /\ ConsumerAddr(c, v) \notin slipped => AddressLeadsTo(c, ConsumerAddr(c, v), v)
  BY DEF AddressesInUseResolve
<1> USE ConstantsAssumption DEF AddressesAreKept, AddressLeadsTo
<1>1. live[v] \in Addrs /\ owner[live[v]] = v
  BY DEF AddressesHaveOneOwner, AddressTypes
<1>2. CASE key[c][live[v]] = NoAddr
  <2>1. live[v] \notin slipped => byAddr[c][live[v]] = NoAddr
    BY <1>1, <1>2 DEF ResolvableIsUnclaimed
  <2> QED BY <1>1, <1>2, <2>1 DEF ConsumerAddr, GetProviderAddrFromConsumerAddr, IndexesAgree
<1>3. CASE key[c][live[v]] # NoAddr
  <2>1. key[c][live[v]] \in Addrs /\ byAddr[c][key[c][live[v]]] = live[v]
    BY <1>1, <1>3 DEF IndexesAgree, AddressTypes
  <2> QED BY <1>1, <1>3, <2>1 DEF ConsumerAddr, GetProviderAddrFromConsumerAddr, IndexesAgree
<1> QED BY <1>2, <1>3

\* Every entry of a set computed at the end of a step leads to its validator.
LEMMA NewEntriesResolve ==
  ASSUME TypeOK, AddressesAreKept', NEW C \in SUBSET Consumers, CreateConsumerValidators(C),
         \A v \in Bonded : live'[v] # NoAddr
  PROVE  \A s \in seen' : \/ s \in seen
                          \/ /\ s \in SetEntry /\ s.con \in C /\ s.val \in Bonded /\ s.at = now
                             /\ s.addr \notin slipped' => AddressLeadsTo(s.con, s.addr, s.val)'
<1> SUFFICES ASSUME NEW s \in seen', s \notin seen
             PROVE  /\ s \in SetEntry /\ s.con \in C /\ s.val \in Bonded /\ s.at = now
                    /\ s.addr \notin slipped' => AddressLeadsTo(s.con, s.addr, s.val)'
  OBVIOUS
<1>1. AddressesInUseResolve'
  BY AddressInUseResolves, PTL
<1>2. PICK c \in C, v \in Bonded :
        s = [con |-> c, val |-> v, addr |-> ConsumerAddr(c, v)', at |-> now]
  BY DEF CreateConsumerValidators
<1>3. s.con = c /\ s.val = v /\ s.addr = ConsumerAddr(c, v)' /\ s.at = now
  BY <1>2
<1>4. /\ ConsumerAddr(c, v)' \in Addrs
      /\ ConsumerAddr(c, v)' \notin slipped' => AddressLeadsTo(c, ConsumerAddr(c, v), v)'
  BY <1>1, <1>2 DEF AddressesInUseResolve, Bonded
<1>5. now \in Times
  BY ConstantsAssumption DEF TypeOK, Times
<1>6. s \in SetEntry
  BY <1>2, <1>4, <1>5 DEF SetEntry, Bonded
<1> QED BY <1>3, <1>4, <1>6 DEF AddressLeadsTo, GetProviderAddrFromConsumerAddr

\* At the start nothing is assigned and every address has at most one owner.
LEMMA InitEstablishesIInv == Init => IInv
<1> SUFFICES ASSUME Init PROVE IInv OBVIOUS
<1> USE ConstantsAssumption DEF Init
<1>1. TypeOK
  BY DEF TypeOK, Phases, Times, NoKeys
<1>2. AddressesHaveOneOwner
  <2>1. \A v \in Validators : Exists(v) => owner[live[v]] = v
    <3> SUFFICES ASSUME NEW v \in Validators, InitialAddr[v] # NoAddr
                 PROVE owner[InitialAddr[v]] = v
      OBVIOUS
    <3> DEFINE w == CHOOSE w \in Validators : InitialAddr[w] = InitialAddr[v]
    <3>1. w \in Validators /\ InitialAddr[w] = InitialAddr[v]
      OBVIOUS
    <3>2. w = v
      BY <3>1
    <3>3. InitialAddr[v] \in Addrs
      OBVIOUS
    <3> QED BY <3>2, <3>3
  <2>2. \A a \in Addrs : owner[a] # NoVal => Exists(owner[a])
    <3> SUFFICES ASSUME NEW a \in Addrs, owner[a] # NoVal
                 PROVE InitialAddr[owner[a]] # NoAddr
      OBVIOUS
    <3>1. PICK v \in Validators : InitialAddr[v] = a
      OBVIOUS
    <3>2. InitialAddr[owner[a]] = a
      BY <3>1
    <3> QED BY <3>2
  <2> QED BY <2>1, <2>2 DEF AddressesHaveOneOwner
<1>3. ResolvableIsUnclaimed /\ DeletedIsClear /\ IndexesAgree
  BY DEF ResolvableIsUnclaimed, DeletedIsClear, IndexesAgree, NoKeys
<1>4. SetsResolve
  BY DEF SetsResolve
<1> QED BY <1>1, <1>2, <1>3, <1>4 DEF IInv

\* Recording a rotation claims an address nobody has and that resolves nowhere,
\* or notes that it slipped through.
LEMMA RotateKeepsIInv ==
  ASSUME IInv, NEW v \in Validators, NEW a \in Addrs, RotateConsPubKey(v, a)
  PROVE  IInv'
<1> USE ConstantsAssumption DEF IInv, RotateConsPubKey, keyVars
<1>0. slipped \subseteq slipped' /\ (a \notin slipped' => ~IsConsumerConsAddrInUse(a))
  BY DEF ConsumerConsAddrsInUse, checkRotation
<1>1. TypeOK'
  BY DEF TypeOK, InATransaction, ConsumerConsAddrsInUse
<1>2. AddressesHaveOneOwner'
  <2>1. \A w \in Rotating' : IF w = v THEN rotations'[w] = a
                             ELSE w \in Rotating /\ rotations'[w] = rotations[w]
    BY DEF TypeOK
  <2> QED BY <2>1 DEF AddressesHaveOneOwner, TypeOK
<1>3. ResolvableIsUnclaimed'
  <2>1. Claimed' \subseteq Claimed \cup {a}
    BY DEF TypeOK
  <2>2. \A c \in Consumers : a \notin slipped' => byAddr[c][a] = NoAddr
    BY <1>0 DEF IsConsumerConsAddrInUse, DeletedIsClear, NoKeys
  <2> QED BY <1>0, <2>1, <2>2 DEF ResolvableIsUnclaimed
<1>4. DeletedIsClear'
  BY DEF DeletedIsClear
<1>5. IndexesAgree'
  BY DEF IndexesAgree
<1>6. SetsResolve'
  BY <1>0 DEF SetsResolve, GetProviderAddrFromConsumerAddr
<1> QED BY <1>1, <1>2, <1>3, <1>4, <1>5, <1>6 DEF IInv

\* A validator that leaves the bonded set is seen until now; one that comes back
\* may be seen again.
LEMMA BondChangeKeepsIInv ==
  ASSUME IInv, NEW v \in Validators, NEW t \in {0, now, leftAt[v]},
         leftAt' = [leftAt EXCEPT ![v] = t],
         checked' \subseteq Addrs,
         UNCHANGED <<now, phase, live, owner, rotations, keyVars, historyVars>>
  PROVE  IInv'
<1> USE ConstantsAssumption DEF IInv, keyVars, historyVars
<1>1. TypeOK'
  BY DEF TypeOK, Times
<1>2. AddressesHaveOneOwner'
  BY DEF AddressesHaveOneOwner
<1>3. ResolvableIsUnclaimed'
  BY DEF ResolvableIsUnclaimed
<1>4. DeletedIsClear'
  BY DEF DeletedIsClear
<1>5. IndexesAgree'
  BY DEF IndexesAgree
<1>6. SetsResolve'
  BY DEF SetsResolve, GetProviderAddrFromConsumerAddr, TypeOK, SetEntry, Times
<1> QED BY <1>1, <1>2, <1>3, <1>4, <1>5, <1>6 DEF IInv

\* A new validator brings an address that was nobody's and resolves nowhere.
LEMMA CreateKeepsIInv ==
  ASSUME IInv, NEW v \in Validators, NEW a \in Addrs, CreateValidator(v, a)
  PROVE  IInv'
<1> USE ConstantsAssumption DEF IInv, CreateValidator, keyVars, historyVars
<1>1. TypeOK'
  BY DEF TypeOK, Times, InATransaction, ConsumerConsAddrsInUse
<1>2. \A c \in Consumers : byAddr[c][a] = NoAddr
  BY DEF IsConsumerConsAddrInUse, DeletedIsClear, NoKeys
<1>3. \A b \in Addrs : owner[b] # v
  BY DEF AddressesHaveOneOwner, TypeOK
<1>4. AddressesHaveOneOwner'
  BY DEF AddressesHaveOneOwner, TypeOK
<1>5. ResolvableIsUnclaimed'
  BY <1>2, <1>3 DEF ResolvableIsUnclaimed, TypeOK, AddressesHaveOneOwner
<1>6. DeletedIsClear'
  BY DEF DeletedIsClear
<1>7. IndexesAgree'
  BY <1>3 DEF IndexesAgree, TypeOK
<1>8. SetsResolve'
  BY DEF SetsResolve, GetProviderAddrFromConsumerAddr, TypeOK, SetEntry, Times
<1> QED BY <1>1, <1>4, <1>5, <1>6, <1>7, <1>8 DEF IInv

\* A phase change that erases nothing: no consumer is registered or deleted by it,
\* and a set may be computed for the one that is launched or resumed.
LEMMA PhaseChangeKeepsIInv ==
  ASSUME IInv, NEW c \in Consumers, NEW p \in {"LAUNCHED", "PAUSED", "STOPPED"},
         phase[c] # "DELETED", MovesTo(c, p), UNCHANGED keyVars,
         UNCHANGED seen \/ CreateConsumerValidators({c})
  PROVE  IInv'
<1> USE ConstantsAssumption DEF IInv, MovesTo, OutsideTransactions, keyVars, stakingVars
<1>1. /\ UNCHANGED <<now, live, owner, leftAt, rotations, key, byAddr, toPrune, slipped>>
      /\ phase' \in [Consumers -> Phases] /\ phase'[c] = p
      /\ \A d \in Consumers : d # c => phase'[d] = phase[d]
      /\ checked' \subseteq Addrs
  BY DEF TypeOK, Phases
<1>2. AddressesHaveOneOwner'
  BY <1>1 DEF AddressesHaveOneOwner
<1>3. ResolvableIsUnclaimed'
  BY <1>1 DEF ResolvableIsUnclaimed
<1>4. DeletedIsClear'
  BY <1>1 DEF DeletedIsClear
<1>5. IndexesAgree'
  BY <1>1 DEF IndexesAgree
<1>6. \A s \in seen' : \/ s \in seen
                      \/ /\ s \in SetEntry /\ s.con = c /\ s.val \in Bonded /\ s.at = now
                         /\ s.addr \notin slipped => AddressLeadsTo(s.con, s.addr, s.val)
  <2>1. AddressesAreKept'
    BY <1>1, <1>2, <1>3, <1>5 DEF AddressesAreKept, AddressTypes, TypeOK
  <2>2. \A v \in Bonded : live'[v] # NoAddr
    BY <1>1 DEF Bonded
  <2>3. \A s : AddressLeadsTo(s.con, s.addr, s.val)' <=> AddressLeadsTo(s.con, s.addr, s.val)
    BY <1>1 DEF AddressLeadsTo, GetProviderAddrFromConsumerAddr
  <2> HIDE DEF MovesTo
  <2> QED BY <1>1, <2>1, <2>2, <2>3, NewEntriesResolve
<1>7. TypeOK'
  <2>1. seen' \subseteq SetEntry
    BY <1>6 DEF TypeOK
  <2> QED BY <1>1, <2>1 DEF TypeOK
<1>8. SetsResolve'
  <2> SUFFICES ASSUME NEW s \in seen'
               PROVE  /\ phase'[s.con] # "REGISTERED" /\ WasBonded(s.val, s.at)
                      /\ phase'[s.con] # "DELETED" /\ s.addr \notin slipped =>
                           StillResolves(s.con, s.addr, s.val, s.at)
    BY <1>1 DEF SetsResolve, GetProviderAddrFromConsumerAddr
  <2>1. CASE s \in seen
    <3>1. s.con \in Consumers
      BY <2>1 DEF TypeOK, SetEntry
    <3> QED BY <1>1, <2>1, <3>1 DEF SetsResolve
  <2>2. CASE s \notin seen
    BY <1>1, <1>6, <2>2 DEF AddressLeadsTo, Bonded, TypeOK
  <2> QED BY <2>1, <2>2
<1> QED BY <1>2, <1>3, <1>4, <1>5, <1>7, <1>8 DEF IInv

\* Erasing a consumer drops everything that resolved on it.
LEMMA DeleteKeepsIInv ==
  ASSUME IInv, NEW c \in Consumers, DeleteConsumer(c)
  PROVE  IInv'
<1> USE ConstantsAssumption
    DEF IInv, DeleteConsumer, DeleteKeyAssignments, MovesTo, OutsideTransactions, stakingVars
<1>1. TypeOK'
  BY DEF TypeOK, Phases, NoKeys
<1>2. AddressesHaveOneOwner'
  BY DEF AddressesHaveOneOwner
<1>3. ResolvableIsUnclaimed'
  BY DEF ResolvableIsUnclaimed, TypeOK, NoKeys
<1>4. DeletedIsClear'
  BY DEF DeletedIsClear, TypeOK
<1>5. IndexesAgree'
  BY DEF IndexesAgree, TypeOK, NoKeys
<1>6. SetsResolve'
  BY DEF SetsResolve, GetProviderAddrFromConsumerAddr, TypeOK, SetEntry
<1> QED BY <1>1, <1>2, <1>3, <1>4, <1>5, <1>6 DEF IInv

\* Nothing recent resolves to a validator whose unbonding period is over.
LEMMA RemovalKeepsResolution ==
  ASSUME IInv, NEW v \in Validators, RemoveValidator(v),
         NEW c \in Consumers, NEW a \in Addrs, NEW w \in Validators, NEW t \in Nat,
         WasBonded(w, t), StillResolves(c, a, w, t)
  PROVE  StillResolves(c, a, w, t)'
<1> USE ConstantsAssumption DEF IInv, RemoveValidator, AfterValidatorRemoved, OutsideTransactions, historyVars
<1> SUFFICES ASSUME now < t + Unbonding
             PROVE  owner'[GetProviderAddrFromConsumerAddr(c, a)'] = w
  OBVIOUS
<1>1. live[v] \in Addrs /\ owner[live[v]] = v
  BY DEF TypeOK, AddressesHaveOneOwner
<1>2. w # v
  BY DEF Bonded, TypeOK, Times
<1>3. key[c][live[v]] # a
  <2> SUFFICES ASSUME key[c][live[v]] = a PROVE FALSE
    OBVIOUS
  <2>1. byAddr[c][a] = live[v]
    BY <1>1 DEF IndexesAgree
  <2> QED BY <1>1, <1>2, <2>1 DEF GetProviderAddrFromConsumerAddr
<1>4. byAddr'[c][a] = byAddr[c][a]
  BY <1>3
<1> QED BY <1>2, <1>4 DEF GetProviderAddrFromConsumerAddr, TypeOK

\* A validator is removed an unbonding period after it was last seen, so nothing
\* recent resolved to it; its keys go with it.
LEMMA RemoveKeepsIInv ==
  ASSUME IInv, NEW v \in Validators, RemoveValidator(v)
  PROVE  IInv'
<1> USE ConstantsAssumption DEF IInv, RemoveValidator, AfterValidatorRemoved, OutsideTransactions, historyVars
<1>0. live[v] \in Addrs /\ owner[live[v]] = v
  BY DEF TypeOK, AddressesHaveOneOwner
<1>1. TypeOK'
  BY <1>0 DEF TypeOK
<1>2. AddressesHaveOneOwner'
  BY <1>0 DEF AddressesHaveOneOwner, TypeOK
<1>3. ResolvableIsUnclaimed'
  BY <1>0 DEF ResolvableIsUnclaimed, TypeOK, AddressesHaveOneOwner
<1>4. DeletedIsClear'
  BY <1>0 DEF DeletedIsClear, TypeOK, NoKeys
<1>5. IndexesAgree'
  <2> SUFFICES ASSUME NEW c \in Consumers PROVE IndexesAgreeOn(c)'
    BY DEF IndexesAgree, IndexesAgreeOn
  <2>0. IndexesAgreeOn(c)
    BY DEF IndexesAgree, IndexesAgreeOn
  <2>1. \A a \in Addrs : byAddr'[c][a] = IF a = key[c][live[v]] THEN NoAddr ELSE byAddr[c][a]
    OBVIOUS
  <2>2. \A p \in Addrs : key'[c][p] = IF p = live[v] THEN NoAddr ELSE key[c][p]
    BY DEF TypeOK
  <2>3. \A p \in Addrs : key'[c][p] # NoAddr =>
          byAddr'[c][key'[c][p]] = p /\ owner'[p] # NoVal /\ live'[owner'[p]] = p
    BY <1>0, <2>0, <2>1, <2>2 DEF IndexesAgreeOn, TypeOK
  <2>4. \A a \in Addrs : byAddr'[c][a] # NoAddr =>
          (key'[c][byAddr'[c][a]] = a <=> \A e \in toPrune[c] : e.addr # a)
    BY <1>0, <2>0, <2>1, <2>2 DEF IndexesAgreeOn, TypeOK
  <2>5. \A e \in toPrune[c] : byAddr'[c][e.addr] # NoAddr
    <3> SUFFICES ASSUME NEW e \in toPrune[c] PROVE e.addr \in Addrs /\ e.addr # key[c][live[v]]
      BY <2>0, <2>1 DEF IndexesAgreeOn
    <3>1. e.addr \in Addrs
      BY DEF TypeOK, PruneEntry
    <3>2. ASSUME e.addr = key[c][live[v]] PROVE FALSE
      <4>1. byAddr[c][e.addr] = live[v]
        BY <1>0, <2>0, <3>1, <3>2 DEF IndexesAgreeOn
      <4> QED BY <1>0, <2>0, <3>1, <3>2, <4>1 DEF IndexesAgreeOn
    <3> QED BY <3>1, <3>2
  <2> QED BY <2>0, <2>3, <2>4, <2>5 DEF IndexesAgreeOn
<1>6. SetsResolve'
  <2>1. ASSUME NEW s \in seen, phase[s.con] # "DELETED", s.addr \notin slipped
        PROVE  StillResolves(s.con, s.addr, s.val, s.at)'
    <3>1. s.con \in Consumers /\ s.val \in Validators /\ s.addr \in Addrs /\ s.at \in Nat
      BY DEF TypeOK, SetEntry, Times
    <3>2. WasBonded(s.val, s.at) /\ StillResolves(s.con, s.addr, s.val, s.at)
      BY <2>1, <3>1 DEF SetsResolve
    <3> HIDE DEF WasBonded, StillResolves, RemoveValidator
    <3> QED BY <3>1, <3>2, RemovalKeepsResolution
  <2> HIDE DEF StillResolves
  <2> QED BY <2>1 DEF SetsResolve
<1> QED BY <1>1, <1>2, <1>3, <1>4, <1>5, <1>6 DEF IInv

\* An assignment takes an address that resolves nowhere on the consumer, and keeps
\* the one it replaces once the consumer runs.
LEMMA AssignmentKeepsResolution ==
  ASSUME IInv, NEW v \in Validators, NEW c \in Consumers, NEW k \in Addrs,
         AssignConsumerKey(v, c, k),
         NEW d \in Consumers, phase[d] # "REGISTERED",
         NEW a \in Addrs, NEW w \in Validators, NEW t \in Nat,
         WasBonded(w, t), StillResolves(d, a, w, t)
  PROVE  StillResolves(d, a, w, t)'
<1> USE ConstantsAssumption DEF IInv
<1> SUFFICES ASSUME now < t + Unbonding
             PROVE  /\ owner[GetProviderAddrFromConsumerAddr(d, a)'] = w
                    /\ \A e \in toPrune'[d] : e.addr = a => t + Unbonding <= e.at
  BY DEF AssignConsumerKey, stakingVars
<1>1. /\ live[v] \in Addrs /\ owner[live[v]] = v /\ now \in Nat
      /\ owner[k] \in {NoVal, v} /\ byAddr[c][k] = NoAddr
  BY DEF TypeOK, AddressesHaveOneOwner, AssignConsumerKey, Assignable
<1>2. d = c => ReplacedIsKept(c)
  BY DEF ReplacedIsKept, AssignConsumerKey
<1>3. byAddr'[d][a] = IF d = c /\ a = k THEN live[v] ELSE byAddr[d][a]
  BY <1>1, <1>2 DEF AssignConsumerKey, TypeOK
<1>4. owner[GetProviderAddrFromConsumerAddr(d, a)'] = w
  BY <1>1, <1>3 DEF GetProviderAddrFromConsumerAddr
<1>5. \A e \in toPrune'[d] : e \in toPrune[d] \/ e.at = now + Unbonding
  BY DEF AssignConsumerKey, TypeOK
<1>6. \A e \in toPrune'[d] : e.addr = a => t + Unbonding <= e.at
  BY <1>1, <1>5
<1> QED BY <1>4, <1>6

\* An assignment takes an address that resolves nowhere on the consumer and is no
\* other validator's; the key it replaces stays, scheduled, or goes unseen.
LEMMA AssignKeepsIInv ==
  ASSUME IInv, NEW v \in Validators, NEW c \in Consumers, NEW k \in Addrs,
         AssignConsumerKey(v, c, k)
  PROVE  IInv'
<1> USE ConstantsAssumption DEF IInv
<1> DEFINE old == key[c][live[v]]
           entry == [at |-> now + Unbonding, addr |-> old]
<1>0. /\ live[v] \in Addrs /\ owner[live[v]] = v
      /\ k \notin Claimed /\ owner[k] \in {NoVal, v} /\ byAddr[c][k] = NoAddr
      /\ old \in Addrs \cup {NoAddr}
      /\ UNCHANGED <<now, phase, live, owner, leftAt, rotations, slipped, seen>>
      /\ checked' \subseteq Addrs
  BY DEF InATransaction, ConsumerConsAddrsInUse, historyVars, TypeOK, AddressesHaveOneOwner, AssignConsumerKey, Assignable, stakingVars
<1>1. \A d \in Consumers, p \in Addrs :
        key'[d][p] = IF d = c /\ p = live[v] THEN k ELSE key[d][p]
  BY <1>0 DEF AssignConsumerKey, TypeOK
<1>2. \A d \in Consumers, a \in Addrs :
        byAddr'[d][a] = IF d = c /\ a = k THEN live[v]
                        ELSE IF d = c /\ a = old /\ ~ReplacedIsKept(c) THEN NoAddr
                        ELSE byAddr[d][a]
  BY <1>0 DEF AssignConsumerKey, TypeOK, Replaced
<1>3. \A d \in Consumers :
        toPrune'[d] = IF d = c /\ old # NoAddr /\ ReplacedIsKept(c)
                      THEN toPrune[d] \cup {entry} ELSE toPrune[d]
  <2> DEFINE entries == {[at |-> now + Unbonding, addr |-> o] : o \in Replaced(v, c)}
  <2>1. entries = IF old = NoAddr THEN {} ELSE {entry}
    BY DEF Replaced
  <2>2. \A d \in Consumers :
          toPrune'[d] = IF d = c /\ ReplacedIsKept(c) THEN toPrune[d] \cup entries ELSE toPrune[d]
    BY DEF AssignConsumerKey, TypeOK
  <2> HIDE DEF entries, entry
  <2> QED BY <2>1, <2>2
<1>e. entry.at = now + Unbonding /\ entry.addr = old /\ (old # NoAddr => entry \in PruneEntry)
  BY <1>0 DEF PruneEntry, Times, TypeOK
<1> HIDE DEF entry
<1>m. \A d \in Consumers : \A e :
        e \in toPrune'[d] <=> \/ e \in toPrune[d]
                              \/ d = c /\ old # NoAddr /\ ReplacedIsKept(c) /\ e = entry
  BY <1>3
<1>5. old # NoAddr => byAddr[c][old] = live[v] /\ old # k /\ \A e \in toPrune[c] : e.addr # old
  BY <1>0 DEF IndexesAgree
<1>6. TypeOK'
  <2>1. key' \in [Consumers -> [Addrs -> Addrs \cup {NoAddr}]]
    BY <1>0 DEF AssignConsumerKey, TypeOK
  <2>2. byAddr' \in [Consumers -> [Addrs -> Addrs \cup {NoAddr}]]
    BY <1>0 DEF AssignConsumerKey, TypeOK
  <2>3. toPrune' \in [Consumers -> SUBSET PruneEntry]
    <3>1. \A d \in Consumers : toPrune'[d] \subseteq PruneEntry
      BY <1>m, <1>e DEF TypeOK
    <3>2. toPrune' = [d \in Consumers |-> toPrune'[d]]
      BY DEF AssignConsumerKey, TypeOK
    <3> QED BY <3>1, <3>2
  <2> QED BY <1>0, <2>1, <2>2, <2>3 DEF TypeOK
<1>7. AddressesHaveOneOwner'
  BY <1>0 DEF AddressesHaveOneOwner
<1>8. ResolvableIsUnclaimed'
  <2> SUFFICES ASSUME NEW d \in Consumers, NEW a \in Addrs \ slipped, byAddr'[d][a] # NoAddr
               PROVE  /\ a \notin Claimed
                      /\ owner[a] # NoVal => /\ owner[byAddr'[d][a]] = owner[a]
                                             /\ key'[d][live[owner[a]]] # NoAddr
    BY <1>0 DEF ResolvableIsUnclaimed
  <2>1. CASE d = c /\ a = k
    BY <1>0, <1>1, <1>2, <2>1
  <2>2. CASE ~(d = c /\ a = k)
    <3>1. byAddr'[d][a] = byAddr[d][a]
      BY <1>2, <2>2
    <3>2. owner[a] # NoVal => live[owner[a]] \in Addrs
      BY DEF AddressesHaveOneOwner, TypeOK
    <3> QED BY <1>0, <1>1, <3>1, <3>2 DEF ResolvableIsUnclaimed
  <2> QED BY <2>1, <2>2
<1>9. DeletedIsClear'
  <2>1. \A d \in Consumers : d # c => key'[d] = key[d] /\ byAddr'[d] = byAddr[d] /\ toPrune'[d] = toPrune[d]
    BY DEF AssignConsumerKey, TypeOK
  <2>2. phase[c] # "DELETED"
    BY DEF AssignConsumerKey
  <2> QED BY <1>0, <2>1, <2>2 DEF DeletedIsClear, NoKeys
<1>10. IndexesAgree'
  <2> SUFFICES ASSUME NEW d \in Consumers PROVE IndexesAgreeOn(d)'
    BY DEF IndexesAgree, IndexesAgreeOn
  <2>0. IndexesAgreeOn(d)
    BY DEF IndexesAgree, IndexesAgreeOn
  <2>1. CASE d # c
    <3>1. key'[d] = key[d] /\ byAddr'[d] = byAddr[d] /\ toPrune'[d] = toPrune[d]
      BY <2>1 DEF AssignConsumerKey, TypeOK
    <3> QED BY <1>0, <2>0, <3>1 DEF IndexesAgreeOn
  <2>2. CASE d = c
    <3>1. \A p \in Addrs : key'[c][p] # NoAddr =>
            byAddr'[c][key'[c][p]] = p /\ owner[p] # NoVal /\ live[owner[p]] = p
      <4> SUFFICES ASSUME NEW p \in Addrs, key[c][p] # NoAddr, p # live[v]
                   PROVE  byAddr'[c][key[c][p]] = p /\ owner[p] # NoVal /\ live[owner[p]] = p
        BY <1>0, <1>1, <1>2
      <4>1. byAddr[c][key[c][p]] = p /\ owner[p] # NoVal /\ live[owner[p]] = p
        BY <2>0, <2>2 DEF IndexesAgreeOn
      <4>2. key[c][p] \in Addrs /\ key[c][p] # k /\ key[c][p] # old
        BY <1>0, <1>5, <4>1 DEF TypeOK
      <4> QED BY <1>2, <4>1, <4>2
    <3>2. \A e \in toPrune[c] : e.addr \in Addrs /\ e.addr # k /\ e.addr # old
      BY <1>0, <1>5, <2>0, <2>2 DEF IndexesAgreeOn, TypeOK, PruneEntry
    <3>3. \A a \in Addrs : byAddr'[c][a] # NoAddr =>
            (key'[c][byAddr'[c][a]] = a <=> \A e \in toPrune'[c] : e.addr # a)
      <4> SUFFICES ASSUME NEW a \in Addrs, byAddr'[c][a] # NoAddr
                   PROVE  key'[c][byAddr'[c][a]] = a <=> \A e \in toPrune'[c] : e.addr # a
        OBVIOUS
      <4>1. CASE a = k
        BY <1>0, <1>1, <1>2, <1>m, <1>e, <1>5, <3>2, <4>1
      <4>2. CASE a # k /\ a = old
        BY <1>0, <1>1, <1>2, <1>m, <1>e, <1>5, <4>2
      <4>3. CASE a # k /\ a # old
        <5>1. byAddr'[c][a] = byAddr[c][a] /\ byAddr[c][a] \in Addrs
          BY <1>2, <4>3 DEF TypeOK
        <5>2. key'[c][byAddr[c][a]] = a <=> key[c][byAddr[c][a]] = a
          BY <1>1, <4>3, <5>1
        <5>3. (\A e \in toPrune'[c] : e.addr # a) <=> (\A e \in toPrune[c] : e.addr # a)
          BY <1>m, <1>e, <4>3
        <5> QED BY <2>0, <2>2, <5>1, <5>2, <5>3 DEF IndexesAgreeOn
      <4> QED BY <4>1, <4>2, <4>3
    <3>4. \A e \in toPrune'[c] : byAddr'[c][e.addr] # NoAddr
      BY <1>0, <1>2, <1>m, <1>e, <1>5, <2>0, <2>2, <3>2 DEF IndexesAgreeOn
    <3>5. \A e, f \in toPrune'[c] : e.addr = f.addr => e = f
      BY <1>m, <1>e, <1>5, <2>0, <2>2 DEF IndexesAgreeOn
    <3> QED BY <1>0, <2>2, <3>1, <3>3, <3>4, <3>5 DEF IndexesAgreeOn
  <2> QED BY <2>1, <2>2
<1>11. SetsResolve'
  <2>1. ASSUME NEW s \in seen, phase[s.con] # "DELETED", s.addr \notin slipped
        PROVE  StillResolves(s.con, s.addr, s.val, s.at)'
    <3>1. /\ s.con \in Consumers /\ s.val \in Validators /\ s.addr \in Addrs /\ s.at \in Nat
          /\ phase[s.con] # "REGISTERED"
      BY DEF TypeOK, SetEntry, Times, SetsResolve
    <3>2. WasBonded(s.val, s.at) /\ StillResolves(s.con, s.addr, s.val, s.at)
      BY <2>1, <3>1 DEF SetsResolve
    <3> HIDE DEF WasBonded, StillResolves
    <3> QED BY <3>1, <3>2, AssignmentKeepsResolution
  <2> HIDE DEF StillResolves
  <2> QED BY <1>0, <2>1 DEF SetsResolve
<1> QED BY <1>6, <1>7, <1>8, <1>9, <1>10, <1>11 DEF IInv

\* What x/staking's part of EndBlock does to the addresses.
LEMMA RotationsApplied ==
  ASSUME IInv, EndBlock
  PROVE  /\ \A v \in Rotating : /\ live[v] \in Addrs /\ owner[live[v]] = v
                                /\ rotations[v] \in Addrs /\ owner[rotations[v]] = NoVal
                                /\ RotatedTo(live[v]) = rotations[v]
                                /\ RotatedFrom(rotations[v]) = live[v]
                                /\ owner'[rotations[v]] = v
         /\ \A v \in Validators : live'[v] = IF v \in Rotating THEN rotations[v] ELSE live[v]
         /\ \A a \in Addrs : a \notin Claimed => owner'[a] = owner[a]
         /\ Rotating' = {} /\ Claimed' = {}
<1> USE ConstantsAssumption DEF IInv
<1>1. \A v \in Rotating : /\ live[v] \in Addrs /\ owner[live[v]] = v
                          /\ rotations[v] \in Addrs /\ owner[rotations[v]] = NoVal
  BY DEF AddressesHaveOneOwner, TypeOK
<1>2. \A v, w \in Rotating : live[v] = live[w] \/ rotations[v] = rotations[w] => v = w
  BY <1>1 DEF AddressesHaveOneOwner
<1>3. ASSUME NEW v \in Rotating
      PROVE  /\ RotatedTo(live[v]) = rotations[v]
             /\ RotatedFrom(rotations[v]) = live[v]
             /\ owner'[rotations[v]] = v
  <2> HIDE DEF Rotating
  <2>1. (CHOOSE w \in Rotating : live[w] = live[v]) = v
    BY <1>2
  <2>2. (CHOOSE w \in Rotating : rotations[w] = rotations[v]) = v
    BY <1>2
  <2> QED BY <1>1, <2>1, <2>2 DEF RotatedTo, RotatedFrom, EndBlock
<1>4. \A v \in Validators : live'[v] = IF v \in Rotating THEN rotations[v] ELSE live[v]
  BY DEF EndBlock
<1>5. \A a \in Addrs : a \notin Claimed => owner'[a] = owner[a]
  BY DEF EndBlock
<1>6. Rotating' = {} /\ Claimed' = {}
  BY DEF EndBlock
<1> QED BY <1>1, <1>3, <1>4, <1>5, <1>6

\* The migration moves the keys of the rotating validators with them.
LEMMA KeysMigrated ==
  ASSUME IInv, EndBlock, NEW c \in Consumers
  PROVE  /\ \A v \in Rotating : /\ key'[c][rotations[v]] = key[c][live[v]]
                                /\ key'[c][live[v]] = NoAddr
                                /\ key[c][rotations[v]] = NoAddr
         /\ \A p \in Addrs : p \notin Claimed /\ ~Leaving(p) => key'[c][p] = key[c][p]
<1> USE ConstantsAssumption DEF IInv
<1>1. \A v \in Rotating : key[c][rotations[v]] = NoAddr
  BY RotationsApplied DEF IndexesAgree
<1>2. CASE phase[c] = "DELETED"
  <2>1. \A p \in Addrs : key'[c][p] = NoAddr /\ key[c][p] = NoAddr
    BY <1>2 DEF EndBlock, MigratedKey, DeletedIsClear, NoKeys
  <2> QED BY <2>1, RotationsApplied
<1>3. CASE phase[c] # "DELETED"
  <2>0. \A p \in Addrs : key'[c][p] =
          IF KeepsIdentity(c, p) THEN NoAddr
          ELSE IF Arriving(p) /\ KeepsIdentity(c, RotatedFrom(p)) THEN key[c][RotatedFrom(p)]
          ELSE key[c][p]
    BY <1>3 DEF EndBlock, MigratedKey
  <2>1. ASSUME NEW v \in Rotating
        PROVE  key'[c][rotations[v]] = key[c][live[v]] /\ key'[c][live[v]] = NoAddr
    <3>1. /\ live[v] \in Addrs /\ rotations[v] \in Addrs
          /\ RotatedFrom(rotations[v]) = live[v]
          /\ v \in Validators /\ owner[live[v]] = v /\ owner[rotations[v]] = NoVal
      BY RotationsApplied
    <3>2. Leaving(live[v]) /\ Arriving(rotations[v])
      BY DEF Leaving, Arriving
    <3>3. ~Leaving(rotations[v]) /\ ~Arriving(live[v])
      BY RotationsApplied, <3>1 DEF Leaving, Arriving
    <3> QED BY <1>1, <2>0, <3>1, <3>2, <3>3 DEF KeepsIdentity
  <2>2. \A p \in Addrs : p \notin Claimed /\ ~Leaving(p) => key'[c][p] = key[c][p]
    BY <2>0 DEF KeepsIdentity, Arriving
  <2> QED BY <1>1, <2>1, <2>2
<1> QED BY <1>2, <1>3

\* What resolved to a rotating validator with a key resolves to its new address;
\* what is due for pruning resolves no more; the rest stays.
LEMMA ResolutionMigrated ==
  ASSUME IInv, EndBlock, NEW c \in Consumers, NEW a \in Addrs
  PROVE  \/ /\ \E e \in PrunedNow(c) : e.addr = a
            /\ byAddr'[c][a] = NoAddr
         \/ /\ \A e \in PrunedNow(c) : e.addr # a
            /\ \E v \in Rotating : /\ byAddr[c][a] = live[v] /\ key[c][live[v]] # NoAddr
                                   /\ byAddr'[c][a] = rotations[v]
         \/ /\ \A e \in PrunedNow(c) : e.addr # a
            /\ \A v \in Rotating : byAddr[c][a] = live[v] => key[c][live[v]] = NoAddr
            /\ byAddr'[c][a] = byAddr[c][a]
<1> USE ConstantsAssumption DEF IInv
<1>0. byAddr'[c][a] = IF \E e \in PrunedNow(c) : e.addr = a THEN NoAddr ELSE MigratedByAddr(c)[a]
  BY DEF EndBlock
<1>1. CASE \E e \in PrunedNow(c) : e.addr = a
  BY <1>0, <1>1
<1>2. CASE (\A e \in PrunedNow(c) : e.addr # a) /\ phase[c] = "DELETED"
  <2>1. byAddr[c][a] = NoAddr /\ byAddr'[c][a] = byAddr[c][a]
    BY <1>0, <1>2 DEF MigratedByAddr, DeletedIsClear, NoKeys
  <2> QED BY <1>2, <2>1, RotationsApplied
<1>3. CASE (\A e \in PrunedNow(c) : e.addr # a) /\ phase[c] # "DELETED"
  <2>1. byAddr'[c][a] = IF byAddr[c][a] # NoAddr /\ KeepsIdentity(c, byAddr[c][a])
                        THEN RotatedTo(byAddr[c][a]) ELSE byAddr[c][a]
    BY <1>0, <1>3 DEF MigratedByAddr
  <2>2. CASE byAddr[c][a] # NoAddr /\ KeepsIdentity(c, byAddr[c][a])
    <3>1. PICK v \in Rotating : live[v] = byAddr[c][a]
      BY <2>2 DEF KeepsIdentity, Leaving
    <3> QED BY <1>3, <2>1, <2>2, <3>1, RotationsApplied DEF KeepsIdentity
  <2>3. CASE ~(byAddr[c][a] # NoAddr /\ KeepsIdentity(c, byAddr[c][a]))
    BY <1>3, <2>1, <2>3, RotationsApplied DEF KeepsIdentity, Leaving
  <2> QED BY <2>2, <2>3
<1> QED BY <1>1, <1>2, <1>3

\* A rotation takes along what resolves to its validator, and pruning waits for an
\* unbonding period.
LEMMA EndBlockKeepsResolution ==
  ASSUME IInv, EndBlock,
         NEW c \in Consumers, NEW a \in Addrs, NEW w \in Validators, NEW t \in Nat,
         StillResolves(c, a, w, t)
  PROVE  StillResolves(c, a, w, t)'
<1> USE ConstantsAssumption DEF IInv
<1> SUFFICES ASSUME now' < t + Unbonding
             PROVE  /\ owner'[GetProviderAddrFromConsumerAddr(c, a)'] = w
                    /\ \A e \in toPrune'[c] : e.addr = a => t + Unbonding <= e.at
  OBVIOUS
<1>1. now \in Nat /\ now < t + Unbonding
  BY DEF EndBlock, TypeOK
<1>2. toPrune'[c] \subseteq toPrune[c] /\ PrunedNow(c) \subseteq toPrune[c]
  BY DEF EndBlock, PrunedNow
<1>3. \A e \in PrunedNow(c) : e.addr # a
  <2>1. \A e \in PrunedNow(c) : e.at <= now /\ e.at \in Nat
    BY <1>2 DEF PrunedNow, TypeOK, PruneEntry, Times
  <2> QED BY <1>1, <1>2, <2>1
<1>4. CASE byAddr[c][a] = NoAddr
  <2>1. byAddr'[c][a] = NoAddr
    BY <1>3, <1>4, ResolutionMigrated, RotationsApplied
  <2>2. owner[a] = w /\ a \notin Claimed
    BY <1>1, <1>4, RotationsApplied DEF GetProviderAddrFromConsumerAddr
  <2> QED BY <1>1, <1>2, <2>1, <2>2, RotationsApplied DEF GetProviderAddrFromConsumerAddr
<1>5. CASE byAddr[c][a] # NoAddr
  <2>1. owner[byAddr[c][a]] = w /\ byAddr[c][a] \in Addrs /\ byAddr[c][a] \notin Claimed
    BY <1>1, <1>5, RotationsApplied DEF GetProviderAddrFromConsumerAddr, TypeOK
  <2>2. byAddr'[c][a] \in Addrs /\ owner'[byAddr'[c][a]] = w
    BY <1>3, <2>1, ResolutionMigrated, RotationsApplied
  <2> QED BY <1>1, <1>2, <2>2 DEF GetProviderAddrFromConsumerAddr
<1> QED BY <1>4, <1>5

\* A block ends: rotations are applied, their state moves along, old addresses go.
LEMMA EndBlockKeepsIInv ==
  ASSUME IInv, EndBlock
  PROVE  IInv'
<1> USE ConstantsAssumption DEF IInv
<1>0. slipped' = slipped
  BY DEF EndBlock
<1>t. /\ live' \in [Validators -> Addrs \cup {NoAddr}]
      /\ owner' \in [Addrs -> Validators \cup {NoVal}]
      /\ key' \in [Consumers -> [Addrs -> Addrs \cup {NoAddr}]]
      /\ byAddr' \in [Consumers -> [Addrs -> Addrs \cup {NoAddr}]]
  <2>2. live' \in [Validators -> Addrs \cup {NoAddr}]
    BY DEF EndBlock, TypeOK
  <2>3. owner' \in [Addrs -> Validators \cup {NoVal}]
    BY DEF EndBlock, TypeOK
  <2>5. \A c \in Consumers : MigratedKey(c) \in [Addrs -> Addrs \cup {NoAddr}]
    <3> SUFFICES ASSUME NEW c \in Consumers PROVE MigratedKey(c) \in [Addrs -> Addrs \cup {NoAddr}]
      OBVIOUS
    <3>1. \A p \in Addrs : Arriving(p) => RotatedFrom(p) \in Addrs
      BY RotationsApplied DEF Arriving
    <3> QED BY <3>1 DEF MigratedKey, TypeOK
  <2>6. ASSUME NEW c \in Consumers, NEW a \in Addrs
        PROVE  byAddr'[c][a] \in Addrs \cup {NoAddr}
    <3>1. byAddr[c][a] \in Addrs \cup {NoAddr}
      BY DEF TypeOK
    <3> QED BY <3>1, ResolutionMigrated, RotationsApplied
  <2>7. byAddr' = [c \in Consumers |-> [a \in Addrs |-> byAddr'[c][a]]]
    BY DEF EndBlock
  <2> QED BY <2>2, <2>3, <2>5, <2>6, <2>7 DEF EndBlock
<1>1. seen' \subseteq SetEntry => TypeOK'
  <2>1. now' \in 1 .. EndOfTime /\ phase' \in [Consumers -> Phases] /\ leftAt' \in [Validators -> Times]
    BY DEF EndBlock, TypeOK
  <2>4. rotations' \in [Validators -> Addrs \cup {NoAddr}]
    BY DEF EndBlock
  <2>8. toPrune' \in [Consumers -> SUBSET PruneEntry]
    BY DEF EndBlock, TypeOK
  <2>9. checked' \subseteq Addrs /\ slipped' \subseteq Addrs
    BY DEF EndBlock, OutsideTransactions, TypeOK
  <2> QED BY <1>t, <2>1, <2>4, <2>8, <2>9 DEF TypeOK
<1>2. AddressesHaveOneOwner'
  <2>1. \A v \in Validators : live'[v] # NoAddr => owner'[live'[v]] = v
    <3> SUFFICES ASSUME NEW v \in Validators, v \notin Rotating, live[v] # NoAddr
                 PROVE  live[v] \in Addrs /\ live[v] \notin Claimed /\ owner[live[v]] = v
      BY RotationsApplied
    <3> QED BY RotationsApplied DEF AddressesHaveOneOwner, TypeOK
  <2>2. \A a \in Addrs : owner'[a] # NoVal => live'[owner'[a]] # NoAddr
    BY RotationsApplied DEF AddressesHaveOneOwner, TypeOK
  <2> QED BY <2>1, <2>2, RotationsApplied DEF AddressesHaveOneOwner
<1>3. ResolvableIsUnclaimed'
  <2> SUFFICES ASSUME NEW c \in Consumers, NEW a \in Addrs \ slipped,
                      byAddr'[c][a] # NoAddr, owner'[a] # NoVal
               PROVE  owner'[byAddr'[c][a]] = owner'[a] /\ key'[c][live'[owner'[a]]] # NoAddr
    BY <1>0, RotationsApplied DEF ResolvableIsUnclaimed
  <2>1. byAddr[c][a] # NoAddr /\ byAddr[c][a] \in Addrs
    <3>1. byAddr[c][a] # NoAddr
      BY ResolutionMigrated, RotationsApplied
    <3> QED BY <3>1 DEF TypeOK
  <2>2. /\ owner'[a] = owner[a] /\ owner[byAddr[c][a]] = owner[a]
        /\ key[c][live[owner[a]]] # NoAddr /\ owner[a] \in Validators
    BY <2>1, RotationsApplied DEF ResolvableIsUnclaimed, TypeOK
  <2>3. byAddr[c][a] \notin Claimed
    BY <2>2, RotationsApplied
  <2>4. owner'[byAddr'[c][a]] = owner[a]
    BY <2>1, <2>2, <2>3, ResolutionMigrated, RotationsApplied
  <2>5. key'[c][live'[owner[a]]] = key[c][live[owner[a]]]
    <3>1. CASE owner[a] \in Rotating
      BY <3>1, RotationsApplied, KeysMigrated
    <3>2. CASE owner[a] \notin Rotating
      <4>1. live[owner[a]] \in Addrs /\ owner[live[owner[a]]] = owner[a]
        BY <2>2 DEF AddressesHaveOneOwner, TypeOK
      <4>2. live[owner[a]] \notin Claimed /\ ~Leaving(live[owner[a]])
        BY <2>2, <3>2, <4>1, RotationsApplied DEF Leaving
      <4> QED BY <2>2, <3>2, <4>1, <4>2, RotationsApplied, KeysMigrated
    <3> QED BY <3>1, <3>2
  <2> QED BY <2>2, <2>4, <2>5
<1>4. DeletedIsClear'
  <2> SUFFICES ASSUME NEW c \in Consumers, phase[c] = "DELETED"
               PROVE  key'[c] = NoKeys /\ byAddr'[c] = NoKeys /\ toPrune'[c] = {}
    BY DEF EndBlock, DeletedIsClear
  <2>1. key[c] = NoKeys /\ byAddr[c] = NoKeys /\ toPrune[c] = {}
    BY DEF DeletedIsClear
  <2>2. PrunedNow(c) = {}
    BY DEF PrunedNow
  <2> QED BY <2>1, <2>2 DEF EndBlock, MigratedKey, MigratedByAddr, NoKeys
<1>5. IndexesAgree'
  <2> SUFFICES ASSUME NEW c \in Consumers PROVE IndexesAgreeOn(c)'
    BY DEF IndexesAgree, IndexesAgreeOn
  <2>0. IndexesAgreeOn(c)
    BY DEF IndexesAgree, IndexesAgreeOn
  <2>1. /\ PrunedNow(c) \subseteq toPrune[c]
        /\ \A e : e \in toPrune'[c] <=> e \in toPrune[c] /\ e \notin PrunedNow(c)
        /\ \A e \in toPrune[c] : e.addr \in Addrs
    BY DEF EndBlock, PrunedNow, TypeOK, PruneEntry
  <2>2. \A p \in Addrs : key[c][p] # NoAddr => \A e \in toPrune[c] : e.addr # key[c][p]
    <3> SUFFICES ASSUME NEW p \in Addrs, key[c][p] # NoAddr
                 PROVE  \A e \in toPrune[c] : e.addr # key[c][p]
      OBVIOUS
    <3>1. byAddr[c][key[c][p]] = p /\ key[c][p] \in Addrs
      BY <2>0 DEF IndexesAgreeOn, TypeOK
    <3> QED BY <2>0, <3>1 DEF IndexesAgreeOn
  <2>3. ASSUME NEW p \in Addrs, key'[c][p] # NoAddr
        PROVE  byAddr'[c][key'[c][p]] = p /\ owner'[p] # NoVal /\ live'[owner'[p]] = p
    <3>1. CASE p \in Claimed
      <4>1. PICK v \in Rotating : rotations[v] = p
        BY <3>1
      <4>2. /\ v \in Validators /\ live[v] \in Addrs /\ key'[c][p] = key[c][live[v]]
            /\ owner'[p] = v /\ live'[v] = p
        BY <4>1, RotationsApplied, KeysMigrated
      <4>3. byAddr[c][key[c][live[v]]] = live[v] /\ key[c][live[v]] \in Addrs
        BY <2>0, <2>3, <4>2 DEF IndexesAgreeOn, TypeOK
      <4>4. byAddr'[c][key[c][live[v]]] = rotations[v]
        <5>1. \A e \in PrunedNow(c) : e.addr # key[c][live[v]]
          BY <2>1, <2>2, <2>3, <4>2
        <5>2. \A w \in Rotating : live[w] = live[v] => w = v
          BY RotationsApplied
        <5> QED BY <2>3, <4>2, <4>3, <5>1, <5>2, ResolutionMigrated
      <4> QED BY <4>1, <4>2, <4>4
    <3>2. CASE Leaving(p)
      BY <2>3, <3>2, KeysMigrated DEF Leaving
    <3>3. CASE p \notin Claimed /\ ~Leaving(p)
      <4>1. key'[c][p] = key[c][p] /\ owner'[p] = owner[p]
        BY <3>3, KeysMigrated, RotationsApplied
      <4>2. /\ byAddr[c][key[c][p]] = p /\ key[c][p] \in Addrs
            /\ owner[p] \in Validators /\ live[owner[p]] = p
        BY <2>0, <2>3, <4>1 DEF IndexesAgreeOn, TypeOK
      <4>3. owner[p] \notin Rotating
        BY <3>3, <4>2 DEF Leaving
      <4>4. byAddr'[c][key[c][p]] = p
        <5>1. \A e \in PrunedNow(c) : e.addr # key[c][p]
          BY <2>1, <2>2, <2>3, <4>1
        <5>2. \A v \in Rotating : live[v] # p
          BY <3>3 DEF Leaving
        <5> QED BY <4>2, <5>1, <5>2, ResolutionMigrated
      <4> QED BY <4>1, <4>2, <4>3, <4>4, RotationsApplied
    <3> QED BY <3>1, <3>2, <3>3
  <2>4. ASSUME NEW a \in Addrs, byAddr'[c][a] # NoAddr
        PROVE  key'[c][byAddr'[c][a]] = a <=> \A e \in toPrune'[c] : e.addr # a
    <3>1. /\ \A e \in PrunedNow(c) : e.addr # a
          /\ byAddr[c][a] # NoAddr /\ byAddr[c][a] \in Addrs
      <4>1. (\A e \in PrunedNow(c) : e.addr # a) /\ byAddr[c][a] # NoAddr
        BY <2>4, ResolutionMigrated, RotationsApplied
      <4> QED BY <4>1 DEF TypeOK
    <3>2. (\A e \in toPrune'[c] : e.addr # a) <=> (\A e \in toPrune[c] : e.addr # a)
      BY <2>1, <3>1
    <3>3. key'[c][byAddr'[c][a]] = a <=> key[c][byAddr[c][a]] = a
      <4>1. CASE \E v \in Rotating : /\ byAddr[c][a] = live[v] /\ key[c][live[v]] # NoAddr
                                     /\ byAddr'[c][a] = rotations[v]
        BY <4>1, KeysMigrated
      <4>2. CASE /\ \A v \in Rotating : byAddr[c][a] = live[v] => key[c][live[v]] = NoAddr
                 /\ byAddr'[c][a] = byAddr[c][a]
        <5> DEFINE r == byAddr[c][a]
        <5>1. CASE r \in Claimed
          <6>1. PICK v \in Rotating : rotations[v] = r
            BY <5>1
          <6>2. key[c][r] = NoAddr /\ key'[c][r] = key[c][live[v]] /\ live[v] \in Addrs /\ live[v] # r
            BY <6>1, KeysMigrated, RotationsApplied
          <6>3. key[c][live[v]] # a
            BY <2>0, <6>2 DEF IndexesAgreeOn
          <6> QED BY <4>2, <6>2, <6>3
        <5>2. CASE Leaving(r)
          BY <4>2, <5>2, KeysMigrated DEF Leaving
        <5>3. CASE r \notin Claimed /\ ~Leaving(r)
          BY <3>1, <4>2, <5>3, KeysMigrated
        <5> QED BY <5>1, <5>2, <5>3
      <4> QED BY <2>4, <4>1, <4>2, ResolutionMigrated
    <3> QED BY <2>0, <3>1, <3>2, <3>3 DEF IndexesAgreeOn
  <2>5. ASSUME NEW e \in toPrune'[c] PROVE byAddr'[c][e.addr] # NoAddr
    <3>1. e \in toPrune[c] /\ e.addr \in Addrs /\ byAddr[c][e.addr] # NoAddr
      BY <2>0, <2>1, <2>5 DEF IndexesAgreeOn
    <3>2. \A f \in PrunedNow(c) : f.addr # e.addr
      BY <2>0, <2>1, <2>5, <3>1 DEF IndexesAgreeOn
    <3> QED BY <3>1, <3>2, ResolutionMigrated, RotationsApplied
  <2>6. \A e, f \in toPrune'[c] : e.addr = f.addr => e = f
    BY <2>0, <2>1 DEF IndexesAgreeOn
  <2> QED BY <2>3, <2>4, <2>5, <2>6 DEF IndexesAgreeOn
<1>6. \A s \in seen' : \/ s \in seen
                      \/ /\ s \in SetEntry /\ phase[s.con] = "LAUNCHED"
                         /\ s.val \in Bonded /\ s.at = now
                         /\ s.addr \notin slipped => AddressLeadsTo(s.con, s.addr, s.val)'
  <2>1. AddressTypes'
    BY <1>t DEF AddressTypes
  <2>2. AddressesAreKept'
    BY <1>2, <1>3, <1>5, <2>1 DEF AddressesAreKept
  <2>3. \A v \in Bonded : live'[v] # NoAddr
    BY RotationsApplied DEF Bonded
  <2>4. PICK C \in SUBSET Launched : CreateConsumerValidators(C)
    BY DEF EndBlock
  <2>5. C \in SUBSET Consumers /\ \A c \in C : phase[c] = "LAUNCHED"
    BY DEF Launched
  <2> QED BY <1>0, <2>2, <2>3, <2>4, <2>5, NewEntriesResolve
<1>7. TypeOK'
  BY <1>1, <1>6 DEF TypeOK
<1>8. SetsResolve'
  <2>1. /\ now \in Nat /\ now' \in Nat /\ now <= now'
        /\ UNCHANGED <<phase, leftAt>>
        /\ \A v \in Validators : leftAt[v] \in Nat /\ leftAt[v] <= now
    BY DEF EndBlock, TypeOK, SetsResolve, Times
  <2>2. ASSUME NEW s \in seen'
        PROVE  /\ phase[s.con] # "REGISTERED" /\ WasBonded(s.val, s.at)'
               /\ phase[s.con] # "DELETED" /\ s.addr \notin slipped =>
                    StillResolves(s.con, s.addr, s.val, s.at)'
    <3>1. CASE s \in seen
      <4>1. s.con \in Consumers /\ s.val \in Validators /\ s.addr \in Addrs /\ s.at \in Nat
        BY <3>1 DEF TypeOK, SetEntry, Times
      <4>2. /\ phase[s.con] # "REGISTERED" /\ WasBonded(s.val, s.at)
            /\ phase[s.con] # "DELETED" /\ s.addr \notin slipped =>
                 StillResolves(s.con, s.addr, s.val, s.at)
        BY <3>1, <4>1 DEF SetsResolve
      <4>3. WasBonded(s.val, s.at)'
        BY <2>1, <4>1, <4>2
      <4> HIDE DEF StillResolves, WasBonded
      <4> QED BY <4>1, <4>2, <4>3, EndBlockKeepsResolution
    <3>2. CASE s \notin seen
      BY <1>6, <2>1, <2>2, <3>2 DEF AddressLeadsTo, Bonded
    <3> QED BY <3>1, <3>2
  <2> HIDE DEF StillResolves, WasBonded
  <2> QED BY <1>0, <2>1, <2>2 DEF SetsResolve
<1> QED BY <1>2, <1>3, <1>4, <1>5, <1>7, <1>8 DEF IInv

\* Every step keeps the inductive invariant.
LEMMA NextKeepsIInv == IInv /\ [Next]_kaVars => IInv'
<1> SUFFICES ASSUME IInv, [Next]_kaVars PROVE IInv'
  OBVIOUS
<1> USE ConstantsAssumption
<1>1. CASE EndBlock
  BY <1>1, EndBlockKeepsIInv
<1>2. ASSUME NEW c \in Consumers, Lifecycle(c) PROVE IInv'
  <2>1. CASE DeleteConsumer(c)
    BY <2>1, DeleteKeepsIInv
  <2>2. CASE LaunchConsumer(c) \/ PauseConsumer(c) \/ ResumeConsumer(c) \/ StopConsumer(c)
    BY <2>2, PhaseChangeKeepsIInv DEF LaunchConsumer, PauseConsumer, ResumeConsumer, StopConsumer,
      keyVars
  <2> QED BY <1>2, <2>1, <2>2 DEF Lifecycle
<1>3. ASSUME NEW v \in Assigners, NEW c \in Consumers, NEW k \in Addrs,
             AssignConsumerKey(v, c, k)
      PROVE  IInv'
  BY <1>3, AssignKeepsIInv
<1>4. ASSUME NEW v \in Rotators, NEW a \in Addrs, RotateConsPubKey(v, a) PROVE IInv'
  BY <1>4, RotateKeepsIInv
<1>5. ASSUME NEW v \in Leavers, BeginUnbonding(v) PROVE IInv'
  BY <1>5, BondChangeKeepsIInv DEF BeginUnbonding, OutsideTransactions
<1>6. ASSUME NEW v \in Leavers, RemoveValidator(v) PROVE IInv'
  BY <1>6, RemoveKeepsIInv
<1>7. ASSUME NEW v \in Leavers, NEW a \in Addrs, CreateValidator(v, a) PROVE IInv'
  BY <1>7, CreateKeepsIInv
<1>8. CASE UNCHANGED kaVars
  BY <1>8 DEF kaVars, stakingVars, keyVars, IInv, TypeOK, AddressesHaveOneOwner,
    ResolvableIsUnclaimed, DeletedIsClear, IndexesAgree, SetsResolve, historyVars,
    GetProviderAddrFromConsumerAddr
<1> QED BY <1>1, <1>2, <1>3, <1>4, <1>5, <1>6, <1>7, <1>8 DEF Next

\* Whoever was bonded when an address of a running consumer was its own remains
\* accountable for it: no step but the consumer's deletion cuts the address off
\* within an unbonding period.
LEMMA NextKeepsResolution ==
  ASSUME IInv, [Next]_kaVars,
         NEW c \in Consumers, phase[c] # "REGISTERED", phase'[c] # "DELETED",
         NEW a \in Addrs, NEW w \in Validators, NEW t \in Nat,
         WasBonded(w, t), StillResolves(c, a, w, t)
  PROVE  WasBonded(w, t)' /\ StillResolves(c, a, w, t)'
<1> USE ConstantsAssumption
<1> HIDE DEF StillResolves
<1>t. now \in Nat /\ leftAt \in [Validators -> Times] /\ owner \in [Addrs -> Validators \cup {NoVal}]
  BY DEF IInv, TypeOK
<1>1. CASE EndBlock
  BY <1>1, <1>t, EndBlockKeepsResolution DEF EndBlock
<1>2. ASSUME NEW d \in Consumers, Lifecycle(d) PROVE WasBonded(w, t)' /\ StillResolves(c, a, w, t)'
  <2> USE DEF Lifecycle, LaunchConsumer, PauseConsumer, ResumeConsumer, StopConsumer,
          DeleteConsumer, DeleteKeyAssignments, MovesTo, keyVars, stakingVars
  <2>1. byAddr'[c] = byAddr[c] /\ toPrune'[c] = toPrune[c]
    BY <1>2 DEF IInv, TypeOK
  <2>2. UNCHANGED <<now, leftAt, owner>>
    BY <1>2
  <2> QED BY <2>1, <2>2 DEF StillResolves, GetProviderAddrFromConsumerAddr
<1>3. ASSUME NEW v \in Assigners, NEW d \in Consumers, NEW k \in Addrs,
             AssignConsumerKey(v, d, k)
      PROVE  WasBonded(w, t)' /\ StillResolves(c, a, w, t)'
  BY <1>3, AssignmentKeepsResolution DEF AssignConsumerKey, stakingVars
<1>4. ASSUME NEW v \in Rotators, NEW b \in Addrs, RotateConsPubKey(v, b)
      PROVE  WasBonded(w, t)' /\ StillResolves(c, a, w, t)'
  BY <1>4 DEF RotateConsPubKey, keyVars, StillResolves, GetProviderAddrFromConsumerAddr
<1>5. ASSUME NEW v \in Leavers, BeginUnbonding(v)
      PROVE  WasBonded(w, t)' /\ StillResolves(c, a, w, t)'
  BY <1>5, <1>t DEF BeginUnbonding, keyVars, StillResolves, GetProviderAddrFromConsumerAddr
<1>6. ASSUME NEW v \in Leavers, RemoveValidator(v)
      PROVE  WasBonded(w, t)' /\ StillResolves(c, a, w, t)'
  BY <1>6, RemovalKeepsResolution DEF RemoveValidator
<1>7. ASSUME NEW v \in Leavers, NEW b \in Addrs, CreateValidator(v, b)
      PROVE  WasBonded(w, t)' /\ StillResolves(c, a, w, t)'
  BY <1>7, <1>t DEF CreateValidator, keyVars, StillResolves, GetProviderAddrFromConsumerAddr
<1>8. CASE UNCHANGED kaVars
  BY <1>8 DEF kaVars, stakingVars, keyVars, StillResolves, GetProviderAddrFromConsumerAddr
<1> QED BY <1>1, <1>2, <1>3, <1>4, <1>5, <1>6, <1>7, <1>8 DEF Next

\* The inductive invariant holds in every reachable state: the two key indexes
\* agree, what resolves on a consumer overlaps with another validator's provider
\* address only where a rotation slipped through the ante handler, and the addresses
\* of every set computed within an unbonding period resolve.
THEOREM Invariance == Spec => []IInv
<1>1. Init => IInv
  BY InitEstablishesIInv
<1>2. IInv /\ [Next]_kaVars => IInv'
  BY NextKeepsIInv
<1> QED BY <1>1, <1>2, PTL DEF Spec

\* Type correctness.
THEOREM TypeCorrect == Spec => []TypeOK
<1>1. IInv => TypeOK
  BY DEF IInv
<1> QED BY <1>1, Invariance, PTL

\* The forward and the reverse index of key_assignment.go, and the prune list,
\* always agree.
THEOREM IndexesStayTogether == Spec => []IndexesAgree
<1>1. IInv => IndexesAgree
  BY DEF IInv
<1> QED BY <1>1, Invariance, PTL

\* No sequence of assignments, rotations, arrivals and departures, also within one
\* block, gives two validators the same consensus address on a consumer, but for the
\* transaction that assigns a key and rotates to it.
THEOREM KeysStayDistinct == Spec => []ConsumerKeysAreDistinct
<1>1. IInv => ConsumerKeysAreDistinct
  <2> USE ConstantsAssumption DEF IInv
  <2> SUFFICES ASSUME IInv, NEW c \in Consumers, NEW v \in Validators, NEW w \in Validators,
                      live[v] # NoAddr, live[w] # NoAddr,
                      ConsumerAddr(c, v) = ConsumerAddr(c, w), ConsumerAddr(c, v) \notin slipped
               PROVE  v = w
    BY DEF ConsumerKeysAreDistinct
  <2>1. AddressesInUseResolve
    BY AddressInUseResolves DEF AddressesAreKept, AddressTypes, TypeOK
  <2> QED BY <2>1 DEF AddressesInUseResolve, AddressLeadsTo
<1> QED BY <1>1, Invariance, PTL

\* Evidence finds the validator it is about: by the address the validator uses now,
\* and for an unbonding period by every address it had in a set the provider computed,
\* whichever set the consumer runs with; shared addresses apart.
THEOREM EvidenceResolves == Spec => []EvidenceFindsItsValidator
<1>1. IInv => EvidenceFindsItsValidator
  <2> USE ConstantsAssumption DEF IInv
  <2> SUFFICES ASSUME IInv PROVE EvidenceFindsItsValidator
    OBVIOUS
  <2>1. AddressesInUseResolve
    BY AddressInUseResolves DEF AddressesAreKept, AddressTypes, TypeOK
  <2>2. \A c \in nonDeletedConsumerIds, v \in Validators :
          Exists(v) /\ ConsumerAddr(c, v) \notin slipped =>
            owner[GetProviderAddrFromConsumerAddr(c, ConsumerAddr(c, v))] = v
    BY <2>1 DEF AddressesInUseResolve, AddressLeadsTo
  <2>3. \A s \in seen :
          s.con \in nonDeletedConsumerIds /\ s.addr \notin slipped /\ now < s.at + Unbonding =>
            owner[GetProviderAddrFromConsumerAddr(s.con, s.addr)] = s.val
    BY DEF SetsResolve
  <2> QED BY <2>2, <2>3 DEF EvidenceFindsItsValidator
<1> QED BY <1>1, Invariance, PTL
=============================================================================

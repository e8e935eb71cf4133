---------------------------- MODULE KeyAssignment ----------------------------
(***************************************************************************)
(* Which validator a consensus address on a consumer chain belongs to.  A  *)
(* validator validates a consumer with the key it assigned there, or with  *)
(* its provider key; it may replace the one at any time and rotate the     *)
(* other, while evidence about the address it used before is on its way.   *)
(*                                                                         *)
(* x/vaas/provider/keeper: key_assignment.go, hooks.go, the key part of    *)
(* cons_pubkey_rotation.go, the prune lists of keeper.go, the addresses in *)
(* the sets of validator_set_update.go; x/vaas/provider/ante.              *)
(*                                                                         *)
(* Keys and addresses correspond one to one and are both called addresses; *)
(* provider and consumer addresses come from the same set.  x/staking is   *)
(* external.  A transaction carries any number of messages, all of which   *)
(* the ante handler checks before the first one runs.  "REGISTERED" stands *)
(* for registered and initialized, which assignment treats alike.          *)
(***************************************************************************)
EXTENDS Naturals, FiniteSets

CONSTANTS
  Consumers,    \* consumer ids
  Validators,   \* validators, by operator address
  Addrs,        \* consensus addresses
  NoAddr,       \* "no address", "not found"
  NoVal,        \* "no validator"
  InitialAddr,  \* the provider address of each validator at the start
  Unbonding,    \* the staking module's unbonding time
  EndOfTime,    \* bound: block time stops advancing here
  Rotators,     \* bound: the validators that may rotate their provider key
  Assigners,    \* bound: the validators that may assign consumer keys
  Leavers,      \* bound: the validators that may unbond, go and come back
  MaxSeen       \* bound: the entries of `seen`

ASSUME ConstantsAssumption ==
  /\ NoAddr \notin Addrs /\ NoVal \notin Validators
  /\ InitialAddr \in [Validators -> Addrs \cup {NoAddr}]
  /\ \A v, w \in Validators :
       v # w /\ InitialAddr[v] = InitialAddr[w] => InitialAddr[v] = NoAddr
  /\ Unbonding \in Nat /\ EndOfTime \in Nat \ {0}
  /\ Rotators \subseteq Validators /\ Assigners \subseteq Validators
  /\ Leavers \subseteq Validators /\ MaxSeen \in Nat

VARIABLES
  now,        \* block time
  phase,      \* lifecycle phase of each consumer
  live,       \* the provider address each validator has now (external)
  owner,      \* GetValidatorByConsAddr: who has or rotated away from an address
              \* (external)
  leftAt,     \* when a validator left the bonded set, 0 while bonded (external)
  rotations,  \* the rotations recorded in this block, not yet applied (external)
  key,        \* ValidatorConsumerPubKey, by consumer and provider address
  byAddr,     \* ValidatorByConsumerAddr, by consumer and consumer address
  toPrune,    \* ConsumerAddrsToPrune: addresses and the times they may go
  checked,    \* the addresses the ante handler found in use when it checked the
              \* transaction being run; all of them if none is being run
  slipped,    \* history: the addresses rotated to in the transaction that made them
              \* somebody's consumer key
  seen        \* history: who had which address in a set computed for a consumer,
              \* and when; an arbitrary choice of all there were

stakingVars == <<live, owner, leftAt, rotations>>
keyVars     == <<key, byAddr, toPrune>>
historyVars == <<slipped, seen>>
kaVars      == <<now, phase, stakingVars, keyVars, checked, historyVars>>

Phases   == {"REGISTERED", "LAUNCHED", "PAUSED", "STOPPED", "DELETED"}
Times    == 0 .. (EndOfTime + Unbonding)
PruneEntry == [at : Times, addr : Addrs]
SetEntry   == [con : Consumers, val : Validators, addr : Addrs, at : Times]

NoKeys == [a \in Addrs |-> NoAddr]

Init ==
  /\ now = 1
  /\ phase = [c \in Consumers |-> "REGISTERED"]
  /\ live = InitialAddr
  /\ owner = [a \in Addrs |->
       IF \E v \in Validators : InitialAddr[v] = a
       THEN CHOOSE v \in Validators : InitialAddr[v] = a ELSE NoVal]
  /\ leftAt = [v \in Validators |-> 0]
  /\ rotations = [v \in Validators |-> NoAddr]
  /\ key = [c \in Consumers |-> NoKeys]
  /\ byAddr = [c \in Consumers |-> NoKeys]
  /\ toPrune = [c \in Consumers |-> {}]
  /\ checked = Addrs /\ slipped = {} /\ seen = {}

Exists(v) == live[v] # NoAddr
Bonded    == {v \in Validators : Exists(v) /\ leftAt[v] = 0}
Rotating  == {v \in Validators : rotations[v] # NoAddr}
Claimed   == {rotations[v] : v \in Rotating}

nonDeletedConsumerIds == {c \in Consumers : phase[c] # "DELETED"}

\* The address v validates c with.
ConsumerAddr(c, v) == IF key[c][live[v]] = NoAddr THEN live[v] ELSE key[c][live[v]]

\* The provider address evidence naming the consumer address a is about.
GetProviderAddrFromConsumerAddr(c, a) == IF byAddr[c][a] = NoAddr THEN a ELSE byAddr[c][a]

IsConsumerConsAddrInUse(a) == \E c \in nonDeletedConsumerIds : byAddr[c][a] # NoAddr

ConsumerConsAddrsInUse == {a \in Addrs : IsConsumerConsAddrInUse(a)}

\* A message runs in the transaction of the one before it, or is the first of another.
InATransaction == checked' \in {ConsumerConsAddrsInUse} \cup ({checked} \ {Addrs})
OutsideTransactions == checked' = Addrs

\* Sets are computed, now, for the consumers in C.  Of validators that share an
\* address the code keeps one; any of them may be noted here.
CreateConsumerValidators(C) ==
  \E N \in SUBSET {[con |-> c, val |-> v, addr |-> ConsumerAddr(c, v)', at |-> now] :
                      c \in C, v \in Bonded} :
    /\ Cardinality(seen \cup N) <= MaxSeen
    /\ seen' = seen \cup N

(***************************************************************************)
(* Key assignment.                                                         *)
(***************************************************************************)
\* What refuses an assignment: a rotation recorded in this block, another
\* validator's provider key, the validator's own one unless it has a key there
\* already, and any address that still resolves.
AssignableDespiteRotations(v, c, k) ==
  /\ owner[k] \in {NoVal, v}
  /\ owner[k] = v => key[c][live[v]] # NoAddr
  /\ byAddr[c][k] = NoAddr
AssignableUnlessCurrent(v, c, k) ==
  /\ k \notin Claimed
  /\ owner[k] \in {NoVal, v}
  /\ owner[k] = v => key[c][live[v]] # NoAddr
  /\ \A p \in Addrs : key[c][p] # k
Assignable(v, c, k) ==
  /\ k \notin Claimed
  /\ owner[k] \in {NoVal, v}
  /\ owner[k] = v => key[c][live[v]] # NoAddr
  /\ byAddr[c][k] = NoAddr

\* The address a key replaces stays resolvable for an unbonding period once the
\* consumer runs; before that nobody has seen it.
KeptWhileLaunched(c) == phase[c] = "LAUNCHED"
ReplacedIsKept(c) == phase[c] \in {"LAUNCHED", "PAUSED"}

\* The key v has on c, if it assigned one before.
Replaced(v, c) == {key[c][live[v]]} \ {NoAddr}

AssignConsumerKey(v, c, k) ==
  /\ Exists(v)
  /\ phase[c] \in {"REGISTERED", "LAUNCHED", "PAUSED"}
  /\ Assignable(v, c, k)
  /\ key' = [key EXCEPT ![c][live[v]] = k]
  /\ toPrune' = IF ~ReplacedIsKept(c) THEN toPrune
       ELSE [toPrune EXCEPT ![c] =
               @ \cup {[at |-> now + Unbonding, addr |-> old] : old \in Replaced(v, c)}]
  /\ byAddr' = [byAddr EXCEPT ![c] = [a \in Addrs |->
       IF a = k THEN live[v]
       ELSE IF a \in Replaced(v, c) /\ ~ReplacedIsKept(c) THEN NoAddr
       ELSE byAddr[c][a]]]
  /\ InATransaction
  /\ UNCHANGED <<now, phase, stakingVars, historyVars>>

(***************************************************************************)
(* x/staking, and the hooks it calls.                                      *)
(***************************************************************************)
\* ConsPubKeyRotationDecorator: the address was nobody's consumer key when the
\* transaction was checked.
checkRotation(a) == a \notin checked'

\* MsgRotateConsPubKey is recorded now and applied in EndBlock.  x/staking wants
\* an address no validator has or had.
RotateConsPubKey(v, a) ==
  /\ Exists(v) /\ v \notin Rotating
  /\ InATransaction /\ checkRotation(a)
  /\ owner[a] = NoVal /\ a \notin Claimed
  /\ rotations' = [rotations EXCEPT ![v] = a]
  /\ slipped' = slipped \cup ({a} \cap (ConsumerConsAddrsInUse \ checked'))
  /\ UNCHANGED <<now, phase, live, owner, leftAt, keyVars, seen>>

\* AfterValidatorCreated refuses an address that resolves on some consumer.
CreateValidator(v, a) ==
  /\ ~Exists(v)
  /\ owner[a] = NoVal /\ a \notin Claimed
  /\ ~IsConsumerConsAddrInUse(a)
  /\ live' = [live EXCEPT ![v] = a]
  /\ owner' = [owner EXCEPT ![a] = v]
  /\ leftAt' = [leftAt EXCEPT ![v] = 0]
  /\ InATransaction
  /\ UNCHANGED <<now, phase, rotations, keyVars, historyVars>>

BeginUnbonding(v) ==
  /\ v \in Bonded
  /\ leftAt' = [leftAt EXCEPT ![v] = now]
  /\ OutsideTransactions
  /\ UNCHANGED <<now, phase, live, owner, rotations, keyVars, historyVars>>

\* AfterValidatorRemoved: the assigned keys go, replaced ones wait for pruning.
AfterValidatorRemoved(v) ==
  /\ key' = [c \in Consumers |-> [key[c] EXCEPT ![live[v]] = NoAddr]]
  /\ byAddr' = [c \in Consumers |-> [a \in Addrs |->
       IF a = key[c][live[v]] THEN NoAddr ELSE byAddr[c][a]]]

RemoveValidator(v) ==
  /\ Exists(v) /\ v \notin Bonded /\ v \notin Rotating
  /\ leftAt[v] + Unbonding <= now
  /\ AfterValidatorRemoved(v)
  /\ live' = [live EXCEPT ![v] = NoAddr]
  /\ owner' = [a \in Addrs |-> IF owner[a] = v THEN NoVal ELSE owner[a]]
  /\ OutsideTransactions
  /\ UNCHANGED <<now, phase, leftAt, rotations, toPrune, historyVars>>

(***************************************************************************)
(* EndBlock: x/staking applies the rotations, each migrating what is kept  *)
(* under the old address; the provider module prunes, and computes the     *)
(* sets of the launched consumers: of all at the end of an epoch, of those *)
(* that see the new key after a rotation.                                  *)
(***************************************************************************)
\* The validator whose rotation leaves the address p, or arrives at it.
Leaving(p)  == \E v \in Rotating : live[v] = p
Arriving(p) == \E v \in Rotating : rotations[v] = p
RotatedTo(p) == rotations[CHOOSE v \in Rotating : live[v] = p]
RotatedFrom(p) == live[CHOOSE v \in Rotating : rotations[v] = p]

\* The rotating validator at p keeps its identity on c, which is its assigned key.
KeepsIdentity(c, p) == Leaving(p) /\ key[c][p] # NoAddr

MigratedKey(c) ==
  IF phase[c] = "DELETED" THEN key[c] ELSE
    [p \in Addrs |->
       IF KeepsIdentity(c, p) THEN NoAddr
       ELSE IF Arriving(p) /\ KeepsIdentity(c, RotatedFrom(p)) THEN key[c][RotatedFrom(p)]
       ELSE key[c][p]]

\* Every address that resolves to the old one, replaced ones included.
MigratedByAddr(c) ==
  IF phase[c] = "DELETED" THEN byAddr[c] ELSE
    [a \in Addrs |-> IF byAddr[c][a] # NoAddr /\ KeepsIdentity(c, byAddr[c][a])
                     THEN RotatedTo(byAddr[c][a]) ELSE byAddr[c][a]]

\* PruneKeyAssignments, for launched consumers only.
PrunedNow(c) == IF phase[c] = "LAUNCHED" THEN {e \in toPrune[c] : e.at <= now} ELSE {}

Launched == {c \in Consumers : phase[c] = "LAUNCHED"}

EndBlock ==
  /\ live' = [v \in Validators |-> IF v \in Rotating THEN rotations[v] ELSE live[v]]
  /\ owner' = [a \in Addrs |-> IF \E v \in Rotating : rotations[v] = a
                               THEN CHOOSE v \in Rotating : rotations[v] = a ELSE owner[a]]
  /\ rotations' = [v \in Validators |-> NoAddr]
  /\ key' = [c \in Consumers |-> MigratedKey(c)]
  /\ byAddr' = [c \in Consumers |-> [a \in Addrs |->
       IF \E e \in PrunedNow(c) : e.addr = a THEN NoAddr ELSE MigratedByAddr(c)[a]]]
  /\ toPrune' = [c \in Consumers |-> toPrune[c] \ PrunedNow(c)]
  /\ \E C \in SUBSET Launched : CreateConsumerValidators(C)
  /\ OutsideTransactions
  /\ now' = IF now < EndOfTime THEN now + 1 ELSE now
  /\ UNCHANGED <<phase, leftAt, slipped>>

(***************************************************************************)
(* The consumers' lifecycle, as far as it matters here.                    *)
(***************************************************************************)
MovesTo(c, p) ==
  /\ phase' = [phase EXCEPT ![c] = p]
  /\ OutsideTransactions
  /\ UNCHANGED <<now, stakingVars, slipped>>

\* The genesis of a launched consumer carries its first set.
LaunchConsumer(c) ==
  /\ phase[c] = "REGISTERED" /\ MovesTo(c, "LAUNCHED")
  /\ UNCHANGED keyVars
  /\ CreateConsumerValidators({c})

\* A paused consumer is sent no set, and goes on with the one it has.
PauseConsumer(c) == phase[c] = "LAUNCHED" /\ MovesTo(c, "PAUSED") /\ UNCHANGED <<keyVars, seen>>

\* A resumed one is sent the set of today.
ResumeConsumer(c) ==
  /\ phase[c] = "PAUSED" /\ MovesTo(c, "LAUNCHED")
  /\ UNCHANGED keyVars
  /\ CreateConsumerValidators({c})

StopConsumer(c) ==
  /\ phase[c] \in {"LAUNCHED", "PAUSED"} /\ MovesTo(c, "STOPPED")
  /\ UNCHANGED <<keyVars, seen>>

DeleteKeyAssignments(c) ==
  /\ key' = [key EXCEPT ![c] = NoKeys]
  /\ byAddr' = [byAddr EXCEPT ![c] = NoKeys]
  /\ toPrune' = [toPrune EXCEPT ![c] = {}]

DeleteConsumer(c) ==
  /\ phase[c] \in {"REGISTERED", "STOPPED"}
  /\ DeleteKeyAssignments(c)
  /\ MovesTo(c, "DELETED") /\ UNCHANGED seen

Lifecycle(c) ==
  \/ LaunchConsumer(c) \/ PauseConsumer(c) \/ ResumeConsumer(c)
  \/ StopConsumer(c) \/ DeleteConsumer(c)

Next ==
  \/ EndBlock
  \/ \E c \in Consumers : Lifecycle(c)
  \/ \E v \in Assigners, c \in Consumers, k \in Addrs : AssignConsumerKey(v, c, k)
  \/ \E v \in Rotators, a \in Addrs : RotateConsPubKey(v, a)
  \/ \E v \in Leavers : BeginUnbonding(v) \/ RemoveValidator(v)
  \/ \E v \in Leavers, a \in Addrs : CreateValidator(v, a)

Spec == Init /\ [][Next]_kaVars

(***************************************************************************)
(* Properties.                                                             *)
(***************************************************************************)
\* Every variable has its type.
TypeOK ==
  /\ now \in 1 .. EndOfTime
  /\ phase \in [Consumers -> Phases]
  /\ live \in [Validators -> Addrs \cup {NoAddr}]
  /\ owner \in [Addrs -> Validators \cup {NoVal}]
  /\ leftAt \in [Validators -> Times]
  /\ rotations \in [Validators -> Addrs \cup {NoAddr}]
  /\ key \in [Consumers -> [Addrs -> Addrs \cup {NoAddr}]]
  /\ byAddr \in [Consumers -> [Addrs -> Addrs \cup {NoAddr}]]
  /\ toPrune \in [Consumers -> SUBSET PruneEntry]
  /\ checked \subseteq Addrs /\ slipped \subseteq Addrs
  /\ seen \subseteq SetEntry

\* No two validators have the same consensus address on a consumer (which would
\* halt both chains when the set is hashed or applied), whatever they assign,
\* rotate and claim in the same block; the exception is an address that one rotated
\* to in the very transaction that made it another's key.
ConsumerKeysAreDistinct ==
  \A c \in nonDeletedConsumerIds, v, w \in Validators :
    v # w /\ Exists(v) /\ Exists(w) /\ ConsumerAddr(c, v) = ConsumerAddr(c, w) =>
      ConsumerAddr(c, v) \in slipped

\* "Rejects a tx rotating a validator's provider consensus key onto a consensus key
\* that is already assigned as some validator's consumer key", and "Key assignment
\* and the provider ante handler refuse to create such a state": no exception.
NoSharedConsumerKey ==
  \A c \in nonDeletedConsumerIds, v, w \in Validators :
    v # w /\ Exists(v) /\ Exists(w) => ConsumerAddr(c, v) # ConsumerAddr(c, w)

\* The two indexes agree: an assigned key resolves to its holder, and whatever
\* else resolves was replaced and is scheduled for pruning, once, so that pruning
\* neither cuts off a key in use nor leaves an address blocked for ever.
IndexesAgree ==
  \A c \in Consumers :
    /\ \A p \in Addrs : key[c][p] # NoAddr =>
         byAddr[c][key[c][p]] = p /\ owner[p] # NoVal /\ live[owner[p]] = p
    /\ \A a \in Addrs : byAddr[c][a] # NoAddr =>
         (key[c][byAddr[c][a]] = a <=> \A e \in toPrune[c] : e.addr # a)
    /\ \A e \in toPrune[c] : byAddr[c][e.addr] # NoAddr
    /\ \A e, f \in toPrune[c] : e.addr = f.addr => e = f

\* For an unbonding period after a set with a validator's address was computed for
\* a consumer, evidence naming that address finds the validator, whether the consumer
\* has applied that set, a later one, or is paused; and for the address of today it
\* always does.  The exception is a shared address, which leads to its assigner.
EvidenceFindsItsValidator ==
  /\ \A c \in nonDeletedConsumerIds, v \in Validators :
       Exists(v) /\ ConsumerAddr(c, v) \notin slipped =>
         owner[GetProviderAddrFromConsumerAddr(c, ConsumerAddr(c, v))] = v
  /\ \A s \in seen :
       s.con \in nonDeletedConsumerIds /\ s.addr \notin slipped /\ now < s.at + Unbonding =>
         owner[GetProviderAddrFromConsumerAddr(s.con, s.addr)] = s.val

(***************************************************************************)
(* What makes these inductive.                                             *)
(***************************************************************************)
\* x/staking's view: an address has one owner, a rotation claims a free one.
AddressesHaveOneOwner ==
  /\ \A v \in Validators : Exists(v) => owner[live[v]] = v
  /\ \A a \in Addrs : owner[a] # NoVal => Exists(owner[a])
  /\ \A v \in Rotating : Exists(v) /\ owner[rotations[v]] = NoVal
  /\ \A v, w \in Rotating : rotations[v] = rotations[w] => v = w

\* An address that resolves on a consumer is claimed by no rotation, and is a
\* provider address only of the validator it resolves to, which has a key there;
\* unless it slipped through the ante handler.
ResolvableIsUnclaimed ==
  \A c \in Consumers, a \in Addrs \ slipped : byAddr[c][a] # NoAddr =>
    /\ a \notin Claimed
    /\ owner[a] # NoVal => /\ owner[byAddr[c][a]] = owner[a]
                           /\ key[c][live[owner[a]]] # NoAddr

DeletedIsClear ==
  \A c \in Consumers : phase[c] = "DELETED" =>
    key[c] = NoKeys /\ byAddr[c] = NoKeys /\ toPrune[c] = {}

\* v was bonded at time t and, if it has left, had not left before.
WasBonded(v, t) == t <= now /\ (leftAt[v] = 0 \/ t <= leftAt[v])

\* For an unbonding period from t on, the address a of c leads to v and is not pruned.
StillResolves(c, a, v, t) ==
  now < t + Unbonding =>
    /\ owner[GetProviderAddrFromConsumerAddr(c, a)] = v
    /\ \A e \in toPrune[c] : e.addr = a => t + Unbonding <= e.at

\* Whoever was in a set was bonded then; for an unbonding period its address resolves
\* to it and is not pruned.
SetsResolve ==
  /\ \A v \in Validators : leftAt[v] <= now
  /\ \A s \in seen :
       /\ phase[s.con] # "REGISTERED" /\ WasBonded(s.val, s.at)
       /\ s.con \in nonDeletedConsumerIds /\ s.addr \notin slipped =>
            StillResolves(s.con, s.addr, s.val, s.at)

\* The inductive invariant: the indexes agree, staking's addresses and the
\* consumers' do not overlap, and recent addresses resolve.
IInv ==
  /\ TypeOK
  /\ AddressesHaveOneOwner
  /\ ResolvableIsUnclaimed
  /\ DeletedIsClear
  /\ IndexesAgree
  /\ SetsResolve
=============================================================================

---------------------------- MODULE Equivocation ----------------------------
(***************************************************************************)
(* A validator signs two votes at one height of a consumer.  Whoever has   *)
(* them may hand them in, now or years later, again and again, also to     *)
(* another consumer that has taken the chain id: the validator is slashed  *)
(* and jailed for the infraction, once.  Where governance has switched     *)
(* tombstoning off, only a record of the infraction stops the next time.   *)
(*                                                                         *)
(* x/vaas/provider/keeper: consumer_equivocation.go (double votes and the  *)
(* punishment), migratePunishedEquivocations of cons_pubkey_rotation.go,   *)
(* the chain ids of msg_server.go and permissionless.go.                   *)
(*                                                                         *)
(* Built on KeyAssignment, whose steps are taken jointly with what they do *)
(* to this state.  A consumer without a chain id has not been created yet. *)
(* A consumer runs with any set computed for it, for as long as it likes:  *)
(* a double vote is cast under the address of an entry of `seen`.          *)
(* Signatures are taken as verified; the slashed amount is left out.       *)
(***************************************************************************)
EXTENDS KeyAssignment

CONSTANTS
  ChainIds,      \* chain ids a consumer may have
  NoChain,       \* "no chain id"
  MinHeight,     \* EquivocationEvidenceMinHeight of each consumer: its initial height
  Heights,       \* bound: the heights validators may sign twice at
  MaxVotes,      \* bound: the double votes cast
  JailDuration,  \* of a double sign
  Policies       \* the tombstoning policies governance may set

ASSUME EquivocationAssumption ==
  /\ NoChain \notin ChainIds
  /\ MinHeight \in [Consumers -> Nat] /\ Heights \subseteq Nat /\ MaxVotes \in Nat
  /\ JailDuration \in Nat \ {0} /\ Policies \subseteq BOOLEAN /\ Policies # {}

VARIABLES
  chain,        \* ConsumerChainId
  tombstone,    \* InfractionParams.DoubleSign.Tombstone
  tombstoned,   \* addresses tombstoned in x/slashing (external)
  jailedUntil,  \* when a jailed validator may come back, 0 for not jailed (external)
  records,      \* PunishedEquivocations
  votes,        \* history: the double votes cast, by whom and in which set
  taken,        \* history: those of which evidence came in time and was not refused
  punished,     \* history: the infractions validators were slashed for, and
  slashes       \* history: how often, since they were created

eqVars == <<chain, tombstone, tombstoned, jailedUntil, records, votes, taken, punished, slashes>>
allVars == <<kaVars, eqVars>>

EQInit ==
  /\ Init
  /\ chain = [c \in Consumers |-> NoChain]
  /\ tombstone \in Policies
  /\ tombstoned = {} /\ records = {} /\ votes = {} /\ taken = {} /\ punished = {}
  /\ jailedUntil = [v \in Validators |-> 0]
  /\ slashes = [v \in Validators |-> 0]

\* GetValidatorByConsAddr(p).GetConsAddr(): p, or what its validator rotated to.
liveProviderConsAddr(p) == IF owner[p] = NoVal THEN p ELSE live[owner[p]]
IsTombstoned(v) == live[v] \in tombstoned
IsUnbonded(v) == leftAt[v] # 0 /\ leftAt[v] + Unbonding <= now

(***************************************************************************)
(* Chain ids.                                                              *)
(***************************************************************************)
ValidateConsumerChainIdFree(c, x) == \A d \in nonDeletedConsumerIds \ {c} : chain[d] # x

SetConsumerChainId(c, x) ==
  /\ phase[c] = "REGISTERED"
  /\ ValidateConsumerChainIdFree(c, x)
  /\ chain' = [chain EXCEPT ![c] = x]
  /\ UNCHANGED <<kaVars, tombstone, tombstoned, jailedUntil, records, votes, taken, punished, slashes>>

CreateConsumer(c, x) == chain[c] = NoChain /\ SetConsumerChainId(c, x)
UpdateConsumer(c, x) == chain[c] \notin {NoChain, x} /\ SetConsumerChainId(c, x)

(***************************************************************************)
(* A double vote, and the evidence of it.                                  *)
(***************************************************************************)
\* A validator of the set x signs twice at height h of the chain, which may be paused
\* or stopped on the provider, and whose set the provider may have changed since.
DoubleSign(x, h) ==
  /\ Cardinality(votes) < MaxVotes
  /\ h >= MinHeight[x.con]
  /\ \A e \in votes : e.val # x.val \/ e.con # x.con \/ e.height # h
  /\ votes' = votes \cup {[con |-> x.con, addr |-> x.addr, height |-> h,
                           val |-> x.val, at |-> x.at]}
  /\ UNCHANGED <<kaVars, chain, tombstone, tombstoned, jailedUntil, records, taken, punished, slashes>>

\* The set of the vote was computed less than an unbonding period ago, and its address
\* is not shared.
Accountable(e) == now < e.at + Unbonding /\ e.addr \notin slipped

\* The votes are verified over the consumer's own chain id, which the one they
\* were cast on had before.
Verifies(c, e) == chain[e.con] = chain[c]

\* The consumer takes evidence, and the votes are not below its first height.
Receivable(c, e) ==
  /\ phase[c] = "LAUNCHED"
  /\ e.height >= MinHeight[c]

\* slashableStake: who is slashed for what names the provider address p.
BondedOnly(p) == owner[p] # NoVal /\ leftAt[owner[p]] = 0
Slashable(p) == owner[p] # NoVal /\ ~IsUnbonded(owner[p])

\* The tombstone is looked up under the address the validator runs now.
AlreadyTombstoned(p) == owner[p] # NoVal /\ IsTombstoned(owner[p])

PunishedKey(c, e) ==
  [chain |-> chain[c], height |-> e.height,
   addr |-> liveProviderConsAddr(GetProviderAddrFromConsumerAddr(c, e.addr))]

\* punishEquivocation and JailAndTombstoneValidator.
Punish(v, i) ==
  /\ slashes' = [slashes EXCEPT ![v] = @ + 1]
  /\ punished' = punished \cup {[val |-> v, chain |-> i.chain, height |-> i.height]}
  /\ jailedUntil' = [jailedUntil EXCEPT ![v] = now + JailDuration]
  /\ leftAt' = [leftAt EXCEPT ![v] = IF @ = 0 THEN now ELSE @]
  /\ tombstoned' = IF tombstone THEN tombstoned \cup {live[v]} ELSE tombstoned

\* What a punishment leaves: a record, or no record of a tombstoned validator.
Forget(k) == {r \in records : r.chain # k.chain \/ r.addr # k.addr}
Remember(k) == IF tombstone THEN Forget(k) ELSE records \cup {k}

\* The infraction has its record already.
PunishedAtAnyHeight(k) == \E r \in records : r.chain = k.chain /\ r.addr = k.addr
AlreadyPunished(k) == k \in records

\* HandleConsumerDoubleVoting.
ConsumerDoubleVoting(c, e) ==
  LET p == GetProviderAddrFromConsumerAddr(c, e.addr)
      k == PunishedKey(c, e)
  IN /\ Receivable(c, e) /\ Verifies(c, e)
     /\ \/ /\ AlreadyPunished(k)
           /\ UNCHANGED <<leftAt, tombstoned, jailedUntil, records, punished, slashes>>
        \/ /\ ~AlreadyPunished(k) /\ Slashable(p)
           /\ IF AlreadyTombstoned(p)
              THEN /\ records' = Forget(k)
                   /\ UNCHANGED <<leftAt, tombstoned, jailedUntil, punished, slashes>>
              ELSE Punish(owner[p], k) /\ records' = Remember(k)
     /\ taken' = IF e.con = c /\ Accountable(e) THEN taken \cup {e} ELSE taken
     /\ UNCHANGED <<now, phase, live, owner, rotations, keyVars, checked, historyVars>>
     /\ UNCHANGED <<chain, tombstone, votes>>

(***************************************************************************)
(* Around it.                                                              *)
(***************************************************************************)
\* x/slashing (external): a jailed validator comes back unless tombstoned.
Unjail(v) ==
  /\ Exists(v) /\ ~IsTombstoned(v)
  /\ jailedUntil[v] # 0 /\ jailedUntil[v] <= now
  /\ jailedUntil' = [jailedUntil EXCEPT ![v] = 0]
  /\ leftAt' = [leftAt EXCEPT ![v] = 0]
  /\ UNCHANGED <<now, phase, live, owner, rotations, keyVars, checked, historyVars>>
  /\ UNCHANGED <<chain, tombstone, tombstoned, records, votes, taken, punished, slashes>>

UpdateInfractionParams(t) ==
  /\ t # tombstone
  /\ tombstone' = t
  /\ UNCHANGED <<kaVars, chain, tombstoned, jailedUntil, records, votes, taken, punished, slashes>>

\* A rotation takes along the records of the chains that consumers have now;
\* x/slashing moves the signing info.
RecordsLeftBehind == records
MigratedPunishedEquivocations ==
  {IF Leaving(r.addr) /\ \E c \in nonDeletedConsumerIds : chain[c] = r.chain
   THEN [r EXCEPT !.addr = RotatedTo(@)] ELSE r : r \in records}

EQEndBlock ==
  /\ EndBlock
  /\ records' = MigratedPunishedEquivocations
  /\ tombstoned' = {IF Leaving(a) THEN RotatedTo(a) ELSE a : a \in tombstoned}
  /\ UNCHANGED <<chain, tombstone, jailedUntil, votes, taken, punished, slashes>>

\* The lifecycle of a created consumer; an erased one leaves its records behind.
RecordsKept(c) == records

EQLifecycle(c) ==
  /\ chain[c] # NoChain
  /\ Lifecycle(c)
  /\ records' = RecordsKept(c)
  /\ UNCHANGED <<chain, tombstone, tombstoned, jailedUntil, votes, taken, punished, slashes>>

EQKeyStep ==
  \/ /\ \/ \E v \in Assigners, c \in Consumers, k \in Addrs :
             chain[c] # NoChain /\ AssignConsumerKey(v, c, k)
        \/ \E v \in Rotators, a \in Addrs : RotateConsPubKey(v, a)
        \/ \E v \in Leavers : BeginUnbonding(v) \/ RemoveValidator(v)
     /\ UNCHANGED eqVars
  \/ \E v \in Leavers, a \in Addrs :
       /\ CreateValidator(v, a)
       /\ jailedUntil' = [jailedUntil EXCEPT ![v] = 0]
       /\ taken' = {e \in taken : e.val # v}
       /\ punished' = {i \in punished : i.val # v}
       /\ slashes' = [slashes EXCEPT ![v] = 0]
       /\ UNCHANGED <<chain, tombstone, tombstoned, records, votes>>

EQNext ==
  \/ EQEndBlock
  \/ EQKeyStep
  \/ \E c \in Consumers :
       \/ EQLifecycle(c)
       \/ \E x \in ChainIds : CreateConsumer(c, x) \/ UpdateConsumer(c, x)
       \/ \E e \in votes : ConsumerDoubleVoting(c, e)
  \/ \E x \in seen, h \in Heights : DoubleSign(x, h)
  \/ \E v \in Validators : Unjail(v)
  \/ \E t \in Policies : UpdateInfractionParams(t)

EQSpec == EQInit /\ [][EQNext]_allVars

(***************************************************************************)
(* Properties.                                                             *)
(***************************************************************************)
DoubleVote == [con : Consumers, addr : Addrs, height : Heights, val : Validators, at : Times]
Record     == [chain : ChainIds, height : Heights, addr : Addrs]
Infraction == [val : Validators, chain : ChainIds, height : Heights]

\* Every variable has its type.
EQTypeOK ==
  /\ chain \in [Consumers -> ChainIds \cup {NoChain}]
  /\ \A c \in Consumers : phase[c] # "REGISTERED" => chain[c] # NoChain
  /\ tombstone \in BOOLEAN /\ tombstoned \subseteq Addrs
  /\ jailedUntil \in [Validators -> Nat]
  /\ votes \subseteq DoubleVote /\ taken \subseteq votes
  /\ records \subseteq Record /\ punished \subseteq Infraction /\ IsFiniteSet(punished)
  /\ slashes \in [Validators -> Nat]

\* Two consumers had the same chain id; the validator rotated.
Reused == \E c, d \in Consumers : c # d /\ chain[c] = chain[d] /\ chain[c] # NoChain
HasRotated(v) == \E a \in Addrs \ {live[v]} : owner[a] = v

\* "The same infraction is never punished twice": every slash of a validator is for
\* an infraction of its own, however often the evidence comes in, under whichever
\* address, policy and consumer.  The exception is a validator that rotated, where a
\* consumer took the chain id of a deleted one: its record stayed at its old address.
PunishedOnce ==
  \A v \in Validators : Exists(v) /\ ~(Reused /\ HasRotated(v)) =>
    slashes[v] = Cardinality({i \in punished : i.val = v})

\* Whoever cast a vote was bonded when its set was computed, and answers to the address
\* it had there.
VotesResolve ==
  \A e \in votes :
    /\ phase[e.con] # "REGISTERED" /\ e.height >= MinHeight[e.con]
    /\ WasBonded(e.val, e.at)
    /\ phase[e.con] # "DELETED" /\ e.addr \notin slipped =>
         StillResolves(e.con, e.addr, e.val, e.at)

\* What stops the next punishment for an infraction: the tombstone, or the record
\* at the address of today; unless a rotation came after the consumer was deleted.
PunishmentIsRemembered ==
  \A i \in punished : Exists(i.val) =>
    \/ IsTombstoned(i.val)
    \/ [chain |-> i.chain, height |-> i.height, addr |-> live[i.val]] \in records
    \/ HasRotated(i.val) /\ \E c \in Consumers : phase[c] = "DELETED" /\ chain[c] = i.chain

\* An infraction was on a chain that ran, and a slash without an infraction of its
\* own was for one on a chain that ran twice.
SlashesAreAccounted ==
  /\ \A i \in punished : \E c \in Consumers : phase[c] # "REGISTERED" /\ chain[c] = i.chain
  /\ \A v \in Validators : Exists(v) =>
       \/ slashes[v] = Cardinality({i \in punished : i.val = v})
       \/ /\ HasRotated(v)
          /\ \E c, d \in Consumers : /\ c # d /\ chain[c] = chain[d]
                                     /\ phase[c] # "REGISTERED" /\ phase[d] # "REGISTERED"

\* "Punished whenever proven", as far as it goes: until an unbonding period after its
\* set was computed, evidence of a double vote on a launched consumer is taken, and is
\* about the validator that signed, jailed or rotated or re-keyed as it may be.
ProvenIsPunishable ==
  \A e \in votes : phase[e.con] = "LAUNCHED" /\ Accountable(e) =>
    /\ Receivable(e.con, e)
    /\ owner[GetProviderAddrFromConsumerAddr(e.con, e.addr)] = e.val
    /\ Slashable(GetProviderAddrFromConsumerAddr(e.con, e.addr))

\* The signer of e is tombstoned or has been slashed for this very infraction; if
\* it was created anew since, the record of the slash before is still its own.
Settled(e) ==
  \/ [val |-> e.val, chain |-> chain[e.con], height |-> e.height] \in punished
  \/ IsTombstoned(e.val)
  \/ \E a \in Addrs :
       /\ owner[a] = e.val /\ (a = live[e.val] \/ phase[e.con] = "DELETED")
       /\ [chain |-> chain[e.con], height |-> e.height, addr |-> a] \in records

\* Evidence that is taken settles the matter with the signer, for good: no rotation,
\* no later evidence and no change of policy reopens it.  Evidence handed in later than
\* an unbonding period after the set of the vote was computed is not claimed to: the
\* handler knows no maximum age, and the address may be pruned or another's by then.
EvidencePunishesSigner == \A e \in taken : Exists(e.val) => Settled(e)

\* The invariant of the module: the state is of its type, no infraction is punished
\* twice, and what makes this and the two above inductive.
EQInv ==
  /\ IInv /\ EQTypeOK /\ VotesResolve
  /\ PunishmentIsRemembered /\ SlashesAreAccounted /\ PunishedOnce
=============================================================================

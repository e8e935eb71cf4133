-------------------------- MODULE DowntimeAccusation --------------------------
(***************************************************************************)
(* A consumer accuses a validator of having missed a window of blocks.     *)
(* The provider accepts a window once, waits out a challenge window in     *)
(* which one signed block disproves the accusation and pauses the          *)
(* consumer, and slashes then.  Meanwhile the accused gets no fees for the *)
(* epoch; they stay in escrow, to be repaid if the accusation is false.    *)
(*                                                                         *)
(* x/vaas/provider/keeper: downtime.go, downtime_slash.go,                 *)
(* downtime_challenge.go, the records of fees.go, the downtime part of     *)
(* cons_pubkey_rotation.go; BeginBlock of x/vaas/provider/module.go.       *)
(*                                                                         *)
(* Built on KeyAssignment, whose steps are taken jointly with what they do *)
(* to the downtime state.  The block of a consumer at height h has time h; *)
(* a block of the provider takes one unit of time.  Evidence whose content *)
(* alone refutes it (echoed parameters, bitmap, missed count) is left out, *)
(* every height of a window is claimed missed, and fee amounts are only    *)
(* there or not.                                                           *)
(***************************************************************************)
EXTENDS KeyAssignment

CONSTANTS
  ParamChoices,    \* the infraction parameters governance may set
  InitialParams,   \* the ones at the start
  Trusting,        \* the trusting period of a consumer's client
  GraceEnd,        \* the end of a consumer's downtime grace period
  MinHeight,       \* EquivocationEvidenceMinHeight
  BlocksPerEpoch,
  Windows,         \* bound: the windows evidence may name
  AnchorLag,       \* bound: how far a client's consensus states may be apart
  Amounts          \* bound: the amounts a slash may be priced at

ASSUME DowntimeAssumption ==
  /\ InitialParams \in ParamChoices
  /\ \A q \in ParamChoices :
       q.maxAge \in Nat \ {0} /\ q.challenge \in Nat /\ q.maxAge <= q.challenge
  /\ \A w \in Windows : w.start \in Nat \ {0} /\ w.end \in Nat /\ w.start <= w.end
  /\ Windows # {} /\ BlocksPerEpoch \in Nat \ {0} /\ AnchorLag \in Nat /\ Amounts \subseteq Nat
  /\ Trusting \in Nat /\ GraceEnd \in Nat /\ MinHeight \in Nat

VARIABLES
  params,     \* infraction parameters: challenge window and maximal evidence age
  valset,     \* the consumer's validator set, by provider address
  pending,    \* PendingDowntimeSlashes, a set of records per consumer
  accepted,   \* AcceptedDowntimeWindows, likewise
  floor,      \* DowntimeWindowFloors, 0 for none
  marks,      \* EpochDowntime: who gets no fees this epoch
  withheld,   \* WithheldFeeRecords: when each expires, 0 for none
  paidAt,     \* the time of the consumer's latest EpochShareRecord, 0 for none
  accused,    \* history: the validators, consumer addresses and heights of what was
              \* accepted so far
  orphaned    \* history: the consumer addresses that led to a validator when that
              \* was removed

daVars == <<params, valset, pending, accepted, floor, marks, withheld, paidAt, accused>>
dtVars == <<kaVars, daVars, orphaned>>

NoneSince == [a \in Addrs |-> 0]

DTInit ==
  /\ Init
  /\ params = InitialParams
  /\ valset = [c \in Consumers |-> {}]
  /\ pending = [c \in Consumers |-> {}]
  /\ accepted = [c \in Consumers |-> {}]
  /\ floor = [c \in Consumers |-> NoneSince]
  /\ marks = [c \in Consumers |-> {}]
  /\ withheld = [c \in Consumers |-> NoneSince]
  /\ paidAt = [c \in Consumers |-> 0]
  /\ accused = [c \in Consumers |-> {}]
  /\ orphaned = [c \in Consumers |-> {}]

Higher(m, n) == IF m > n THEN m ELSE n

\* The entries of a per-window collection are keyed by address and window end.
SameKey(e, f) == e.addr = f.addr /\ e.end = f.end
Intersect(e, f) == e.start <= f.end /\ f.start <= e.end

Claims(e, h) == e.start <= h /\ h <= e.end
Put(S, e) == {f \in S : ~SameKey(e, f)} \cup {e}

BondedAddrs == {live[v] : v \in Bonded}
LiveAddr(a) == IF owner[a] = NoVal THEN a ELSE live[owner[a]]

(***************************************************************************)
(* Evidence.                                                               *)
(***************************************************************************)
\* The address the consumer's set has the accused under: the one the evidence
\* resolves to, or the one it rotated to since.
accusedConsumerValidatorAddr(c, p) == IF p \in valset[c] THEN p ELSE LiveAddr(p)

\* The time a window ended is known from below, by the closest consensus state
\* the client has at or under it.
Anchors(w) == {t \in 1 .. w.end : w.end <= t + AnchorLag}

\* A window of the wrong age, or one that could not be challenged to the end.
Fresh(w, anchor) ==
  /\ w.end >= MinHeight /\ w.end <= now
  /\ anchor >= GraceEnd
  /\ now - anchor <= params.maxAge
  /\ (now - anchor) + params.challenge < Trusting

\* Above the floor, and disjoint from what was accepted under the address.
NewWindow(c, p, w) ==
  /\ w.start > floor[c][p]
  /\ \A e \in accepted[c] : e.addr = p => ~Intersect(e, w)

\* The epoch the window ended in has not been distributed yet.
Undistributed(c, anchor) == paidAt[c] < anchor

\* HandleConsumerDowntime, for the consumer address a.
ConsumerDowntime(c, a, w, anchor, tokens) ==
  LET p == GetProviderAddrFromConsumerAddr(c, a)
      s == accusedConsumerValidatorAddr(c, p)
  IN /\ phase[c] = "LAUNCHED"
     /\ s \in valset[c]
     /\ Fresh(w, anchor)
     /\ NewWindow(c, p, w)
     /\ marks' = IF Undistributed(c, anchor) THEN [marks EXCEPT ![c] = @ \cup {s}] ELSE marks
     /\ pending' = [pending EXCEPT ![c] = Put(@,
          [addr |-> p, cons |-> a, start |-> w.start, end |-> w.end, tokens |-> tokens,
           maturesAt |-> now + params.challenge, docked |-> FALSE])]
     /\ accepted' = [accepted EXCEPT ![c] = Put(@,
          [addr |-> p, start |-> w.start, end |-> w.end, at |-> now])]
     /\ accused' = [accused EXCEPT ![c] = @ \cup ({owner[p]} \X {a} \X (w.start .. w.end))]
     /\ UNCHANGED <<kaVars, params, valset, floor, withheld, paidAt, orphaned>>

(***************************************************************************)
(* The consumer pauses, stops, resumes, goes.                              *)
(***************************************************************************)
\* What is accepted stays accepted, so that it cannot be submitted again.
CancelConsumerDowntimeState(c) ==
  /\ pending' = [pending EXCEPT ![c] = {}]
  /\ marks' = [marks EXCEPT ![c] = {}]

\* PauseConsumerChain repays every withheld share first.
PauseWithDowntime(c) ==
  /\ PauseConsumer(c)
  /\ withheld' = [withheld EXCEPT ![c] = NoneSince]
  /\ CancelConsumerDowntimeState(c)
  /\ UNCHANGED <<params, valset, accepted, floor, paidAt, accused, orphaned>>

StopWithDowntime(c) ==
  /\ StopConsumer(c)
  /\ CancelConsumerDowntimeState(c)
  /\ UNCHANGED <<params, valset, accepted, floor, withheld, paidAt, accused, orphaned>>

DeleteWithDowntime(c) ==
  /\ DeleteConsumer(c)
  /\ CancelConsumerDowntimeState(c)
  /\ valset' = [valset EXCEPT ![c] = {}]
  /\ withheld' = [withheld EXCEPT ![c] = NoneSince]
  /\ accepted' = [accepted EXCEPT ![c] = {}]
  /\ floor' = [floor EXCEPT ![c] = NoneSince]
  /\ UNCHANGED <<params, paidAt, accused, orphaned>>

\* A launch and a resume compute the set anew.
StartWithDowntime(c) ==
  /\ LaunchConsumer(c) \/ ResumeConsumer(c)
  /\ valset' = [valset EXCEPT ![c] = BondedAddrs]
  /\ UNCHANGED <<params, pending, accepted, floor, marks, withheld, paidAt, accused, orphaned>>

(***************************************************************************)
(* A challenge: a block that the accused signed at a claimed height.       *)
(***************************************************************************)
\* The accusations a challenge is judged against: those of the address the
\* consumer address resolves to, else those that were made under it.
FoundByAddress(c, a, h) ==
  {e \in pending[c] : e.addr = GetProviderAddrFromConsumerAddr(c, a) /\ Claims(e, h)}
findPendingDowntimeSlashContaining(c, a, h) ==
  LET resolved == {e \in pending[c] :
                     e.addr = GetProviderAddrFromConsumerAddr(c, a) /\ Claims(e, h)}
  IN IF resolved # {} THEN resolved
     ELSE {e \in pending[c] : e.cons = a /\ Claims(e, h)}

\* The header after h is verified against a consensus state at h or below, which
\* is only trusted for so long (external: the light client).
Verifiable(h) == now < h + Trusting

ChallengeConsumerDowntime(c, a, h) ==
  /\ findPendingDowntimeSlashContaining(c, a, h) # {}
  /\ Verifiable(h)
  /\ PauseWithDowntime(c)

(***************************************************************************)
(* A block ends: rotations take the records along.                         *)
(***************************************************************************)
\* Where the validator keeps its consumer key, evidence about it now resolves to
\* its new provider address; where it does not, to the old one as before.
Migrated(moving, S) ==
  LET moved == {[e EXCEPT !.addr = RotatedTo(e.addr)] : e \in moving}
  IN moved \cup {e \in S \ moving : \A m \in moved : ~SameKey(e, m)}
MigratedWithAnyRotation(c, S) ==
  Migrated({e \in S : phase[c] # "DELETED" /\ Leaving(e.addr)}, S)
MigratedRecords(c, S) ==
  Migrated({e \in S : phase[c] # "DELETED" /\ KeepsIdentity(c, e.addr)}, S)

MigratedAccepted(c) == MigratedRecords(c, accepted[c])

MigratedFloor(c) ==
  IF phase[c] = "DELETED" THEN floor[c] ELSE
    [p \in Addrs |->
       IF KeepsIdentity(c, p) THEN 0
       ELSE IF Arriving(p) /\ KeepsIdentity(c, RotatedFrom(p))
            THEN Higher(floor[c][p], floor[c][RotatedFrom(p)])
       ELSE floor[c][p]]

MarksLeftBehind(c) == marks[c]
MigratedMarks(c) ==
  IF phase[c] = "DELETED" THEN marks[c] ELSE
    {IF Leaving(a) THEN RotatedTo(a) ELSE a : a \in marks[c]}

\* A record the new address already has stays, and so does the old one.
MigratedWithheld(c) ==
  IF phase[c] = "DELETED" THEN withheld[c] ELSE
    [p \in Addrs |->
       IF Leaving(p) /\ withheld[c][RotatedTo(p)] = 0 THEN 0
       ELSE IF Arriving(p) /\ withheld[c][p] = 0 THEN withheld[c][RotatedFrom(p)]
       ELSE withheld[c][p]]

\* The set is computed anew at the end of an epoch, and when a validator without
\* a consumer key rotates; otherwise a rotation moves its entry.
NextValSet(c) ==
  IF phase[c] = "LAUNCHED" /\ (\/ now % BlocksPerEpoch = 0
                               \/ \E v \in Rotating : key[c][live[v]] = NoAddr)
  THEN {live'[v] : v \in Bonded}
  ELSE {IF KeepsIdentity(c, a) THEN RotatedTo(a) ELSE a : a \in valset[c]}

(***************************************************************************)
(* The next one begins, at now', in the order of BeginBlock.               *)
(***************************************************************************)
\* A slash is executed unless it is worth nothing or the validator is gone.
Executes(e) ==
  /\ e.tokens > 0
  /\ owner'[e.addr] # NoVal
  /\ leftAt[owner'[e.addr]] = 0 \/ now' < leftAt[owner'[e.addr]] + Unbonding

Matured(S) == {e \in S : e.maturesAt <= now'}

\* The escrow goes with the last accusation of a pair, if one was executed.
ForfeitedWithAny(S, p) == \E e \in Matured(S) : e.addr = p /\ Executes(e)
Forfeited(S, p) ==
  /\ \E e \in Matured(S) : e.addr = p /\ Executes(e)
  /\ \A e \in S \ Matured(S) : e.addr # p

Unexpired(t) == IF t > now' THEN t ELSE 0

\* PruneAcceptedDowntimeWindows: windows past the horizon whose slash is resolved,
\* lowest first.
NoHorizon == 0
Horizon == params.challenge + params.maxAge
Old(e, S) == now' - e.at > Horizon /\ \A f \in S : ~SameKey(e, f)
PrunedInAnyOrder(A, S) == {e \in A : Old(e, S)}
Pruned(A, S) ==
  {e \in A : \A f \in A : f.addr = e.addr /\ f.end <= e.end => Old(f, S)}

HighestEnd(S, base) ==
  LET ends == {base} \cup {e.end : e \in S}
  IN CHOOSE n \in ends : \A m \in ends : m <= n

\* DistributeConsumerFees, once per epoch: whoever is marked gets nothing, and the
\* share is recorded as withheld, unless the consumer could not pay at all.
Distributes(c) == now' % BlocksPerEpoch = 0 /\ phase[c] = "LAUNCHED" /\ Bonded # {}
Excluded(c, M) == {live'[v] : v \in Bonded} \cap M

\* The end of this block and the beginning of the next; `paying` are the consumers
\* whose fees are distributed.
NextBlock(paying) ==
  LET moved(c) == MigratedRecords(c, pending[c])
      kept(c)  == moved(c) \ Matured(moved(c))
      windows(c) == MigratedAccepted(c)
      gone(c)  == Pruned(windows(c), kept(c))
      docks(c, a) == Distributes(c) /\ c \in paying /\ a \in Excluded(c, MigratedMarks(c))
  IN /\ EndBlock
     /\ valset' = [c \in Consumers |-> NextValSet(c)]
     /\ pending' = [c \in Consumers |->
          {[e EXCEPT !.docked = IF docks(c, e.addr) THEN now' + params.challenge >= e.maturesAt ELSE @]
             : e \in kept(c)}]
     /\ accepted' = [c \in Consumers |-> windows(c) \ gone(c)]
     /\ floor' = [c \in Consumers |-> [p \in Addrs |->
          HighestEnd({e \in gone(c) : e.addr = p}, MigratedFloor(c)[p])]]
     /\ marks' = [c \in Consumers |->
          IF now' % BlocksPerEpoch = 0 THEN {} ELSE MigratedMarks(c)]
     /\ withheld' = [c \in Consumers |-> [p \in Addrs |->
          IF docks(c, p) THEN now' + params.challenge
          ELSE IF Forfeited(moved(c), p) THEN 0
          ELSE Unexpired(MigratedWithheld(c)[p])]]
     /\ paidAt' = [c \in Consumers |->
          IF Distributes(c) THEN now'
          ELSE IF paidAt[c] + Horizon < now' THEN 0 ELSE paidAt[c]]
     /\ UNCHANGED <<params, accused, orphaned>>

(***************************************************************************)
(* Governance, restarts, and the steps that leave downtime state alone.    *)
(***************************************************************************)
UpdateInfractionParams(q) ==
  /\ params' = q
  /\ UNCHANGED <<kaVars, valset, pending, accepted, floor, marks, withheld, paidAt, accused, orphaned>>

\* Exporting the state and starting from it loses the consumers' sets, which are
\* computed anew at the next epoch; the rest of the downtime state is kept.
RestartProvider ==
  /\ valset' = [c \in Consumers |-> {}]
  /\ UNCHANGED <<kaVars, params, pending, accepted, floor, marks, withheld, paidAt, accused, orphaned>>

\* The replaced keys of a validator that is removed go on leading to its address.
LeftOver(c, p) == {a \in Addrs : byAddr[c][a] = p /\ key[c][p] # a}

Orphans(v) == orphaned' = [c \in Consumers |-> orphaned[c] \cup LeftOver(c, live[v])]

KeyStep ==
  /\ \/ \E v \in Assigners, c \in Consumers, k \in Addrs :
          AssignConsumerKey(v, c, k) /\ UNCHANGED orphaned
     \/ \E v \in Rotators, a \in Addrs : RotateConsPubKey(v, a) /\ UNCHANGED orphaned
     \/ \E v \in Leavers : \/ BeginUnbonding(v) /\ UNCHANGED orphaned
                           \/ RemoveValidator(v) /\ Orphans(v)
     \/ \E v \in Leavers, a \in Addrs : CreateValidator(v, a) /\ UNCHANGED orphaned
  /\ UNCHANGED daVars

ConsumerDowntimes(c) ==
  \E a \in Addrs, w \in Windows, tokens \in Amounts :
    \E anchor \in Anchors(w) : ConsumerDowntime(c, a, w, anchor, tokens)

Challenges(c) ==
  \E e \in pending[c] : \E h \in e.start .. e.end : ChallengeConsumerDowntime(c, e.cons, h)

DTNext ==
  \/ \E paying \in SUBSET Consumers : NextBlock(paying)
  \/ \E c \in Consumers : \/ ConsumerDowntimes(c) \/ Challenges(c)
                          \/ StartWithDowntime(c) \/ PauseWithDowntime(c)
                          \/ StopWithDowntime(c) \/ DeleteWithDowntime(c)
  \/ \E q \in ParamChoices \ {params} : UpdateInfractionParams(q)
  \/ RestartProvider
  \/ KeyStep

DTSpec == DTInit /\ [][DTNext]_dtVars

(***************************************************************************)
(* Properties.                                                             *)
(***************************************************************************)
Accusation == Validators \X Addrs \X Nat
PendingSlash == [addr : Addrs, cons : Addrs, start : Nat, end : Nat, tokens : Nat,
                 maturesAt : Nat, docked : BOOLEAN]
AcceptedWindow == [addr : Addrs, start : Nat, end : Nat, at : Nat]

\* Every variable has its type.
DTTypeOK ==
  /\ params \in ParamChoices
  /\ valset \in [Consumers -> SUBSET Addrs]
  /\ pending \in [Consumers -> SUBSET PendingSlash]
  /\ accepted \in [Consumers -> SUBSET AcceptedWindow]
  /\ floor \in [Consumers -> [Addrs -> Nat]]
  /\ marks \in [Consumers -> SUBSET Addrs]
  /\ withheld \in [Consumers -> [Addrs -> Nat]]
  /\ paidAt \in [Consumers -> Nat]
  /\ accused \in [Consumers -> SUBSET Accusation]

\* What genesis validation demands of exported downtime state always holds, so
\* that the chain can be exported at any block: the accepted windows of a pair are
\* disjoint and above its floor, and every queued slash has its accepted window.
ImportableState ==
  \A c \in Consumers :
    /\ \A e, f \in accepted[c] : e.addr = f.addr /\ e # f => ~Intersect(e, f)
    /\ \A e \in accepted[c] : e.start > floor[c][e.addr]
    /\ \A e, f \in pending[c] : SameKey(e, f) => e = f
    /\ \A e \in pending[c] : \E f \in accepted[c] : SameKey(e, f) /\ e.start = f.start

\* The validator a consumer address leads to has rotated and has a consumer key.
RotatedWithKey(c, a) ==
  LET v == owner[GetProviderAddrFromConsumerAddr(c, a)]
  IN v # NoVal /\ key[c][live[v]] # NoAddr /\ \E p \in Addrs \ {live[v]} : owner[p] = v

AcceptsAgain(c, a, w) ==
  /\ \E h \in w.start .. w.end :
       <<owner[GetProviderAddrFromConsumerAddr(c, a)], a, h>> \in accused[c]
  /\ \E anchor \in Anchors(w), tokens \in Amounts : ConsumerDowntime(c, a, w, anchor, tokens)

\* "No window is ever accepted twice": an accepted accusation of a validator under a
\* consumer address is never about a height for which one was accepted before, whatever
\* has been pruned, paused, resumed, restarted or re-parametrized in between.
NoWindowAcceptedTwice ==
  [][\A c \in Consumers, a \in Addrs, w \in Windows : ~AcceptsAgain(c, a, w)]_dtVars

\* The same for a validator that does not both have a consumer key and rotate, under an
\* address that is not left over from a validator that was removed, which leads to whoever
\* has the provider address next until it is pruned.
WindowAcceptedOnce ==
  [][\A c \in Consumers, a \in Addrs, w \in Windows :
       ~RotatedWithKey(c, a) /\ a \notin orphaned[c] => ~AcceptsAgain(c, a, w)]_dtVars

\* A queued slash can be challenged until it matures, whatever the accused assigned
\* or rotated since: an accusation is found under the consumer address it was made
\* for, the header after its last height still verifies, and the consumer can be paused.
ChallengeReachesSlash ==
  \A c \in Consumers : \A e \in pending[c] :
    /\ findPendingDowntimeSlashContaining(c, e.cons, e.end) # {}
    /\ Verifiable(e.end) /\ phase[c] = "LAUNCHED"

\* The floor of a pair only turns down windows that hold a height its validator was
\* accused of before, or that are older than the shortest age governance sets.
FloorHidesNothingFresh ==
  \A c \in Consumers, p \in Addrs, w \in Windows :
    /\ w.start <= floor[c][p]
    /\ \E anchor \in Anchors(w) :
         Fresh(w, anchor) /\ \A q \in ParamChoices : now - anchor <= q.maxAge
    => \E a \in Addrs, h \in w.start .. w.end : <<owner[p], a, h>> \in accused[c]

\* The share withheld from a validator accused at its present address, in an escrow
\* made to outlast the accusation, stays there until the accusation is resolved, so
\* that a challenge repays it.
EscrowBacksAccusation ==
  \A c \in Consumers : \A e \in pending[c] : e.docked /\ LiveAddr(e.addr) = e.addr =>
    withheld[c][e.addr] >= e.maturesAt

\* The set of a running consumer and its downtime marks are kept under the
\* addresses the validators have now, where evidence and distribution look.
EntriesAreLive ==
  \A c \in Consumers : phase[c] = "LAUNCHED" =>
    \A a \in valset[c] \cup marks[c] : owner[a] # NoVal => live[owner[a]] = a

(***************************************************************************)
(* What makes these inductive.                                             *)
(***************************************************************************)
\* Only a running consumer has marks.
MarksAreOfThisEpoch == \A c \in Consumers : phase[c] # "LAUNCHED" => marks[c] = {}

\* A slash is queued while its consumer runs, until it matures, which is before the
\* header that disproves it can no longer be verified.
PendingIsOpen ==
  \A c \in Consumers : \A e \in pending[c] :
    /\ phase[c] = "LAUNCHED"
    /\ now <= e.maturesAt /\ e.maturesAt < e.end + Trusting
    /\ \E f \in accepted[c], q \in ParamChoices : SameKey(e, f) /\ e.maturesAt <= f.at + q.challenge

\* A window was accepted within its age and is kept for the horizon from then on,
\* counted from its end because pruning waits for lower windows accepted later.
AcceptedIsRecent ==
  \A c \in Consumers : \A e \in accepted[c] :
    /\ \E w \in Windows : w.start = e.start /\ w.end = e.end
    /\ e.end <= e.at /\ e.at <= now
    /\ \E q \in ParamChoices : e.at <= e.end + q.maxAge
    /\ \E q, r \in ParamChoices : now <= e.end + q.maxAge + r.challenge + r.maxAge

\* The set of a running consumer is of validators, which left no epoch ago.
SetIsCurrent ==
  \A c \in Consumers : phase[c] = "LAUNCHED" => \A a \in valset[c] :
    /\ owner[a] # NoVal
    /\ leftAt[owner[a]] # 0 =>
         \A t \in leftAt[owner[a]] .. (now - 1) : t % BlocksPerEpoch # 0

\* There is a validator behind p, it was accused of h, and was in the set then.
AnsweredFor(c, p, h) ==
  /\ owner[p] # NoVal
  /\ leftAt[owner[p]] = 0 \/ h <= leftAt[owner[p]] + BlocksPerEpoch
  /\ \E a \in Addrs : <<owner[p], a, h>> \in accused[c]

AcceptedIsAnswered ==
  \A c \in Consumers : \A e \in accepted[c] : AnsweredFor(c, e.addr, e.end)

\* A floor is the end of a window pruned after the horizon, of the validator behind the
\* address or of one removed since.
FloorsAreOld ==
  \A c \in Consumers, p \in Addrs : floor[c][p] # 0 =>
    /\ \E q \in ParamChoices : floor[c][p] + q.challenge + q.maxAge < now
    /\ \/ floor[c][p] + Unbonding <= now + BlocksPerEpoch
       \/ AnsweredFor(c, p, floor[c][p])

\* Escrow belongs to a validator and is gone before that can be removed.
EscrowIsOwned ==
  \A c \in Consumers, p \in Addrs : withheld[c][p] # 0 =>
    /\ now < withheld[c][p] /\ owner[p] # NoVal
    /\ \E q \in ParamChoices :
         withheld[c][p] <= q.challenge + IF leftAt[owner[p]] = 0 THEN now ELSE leftAt[owner[p]]

\* What keeps an address free of the records of a validator that is gone, before another
\* can move its own there: nothing is kept of a window as long as an unbonding lasts.
UnbondingOutlastsRecords ==
  \A w \in Windows, q, r \in ParamChoices :
    (w.end - w.start) + q.maxAge + r.challenge + r.maxAge + BlocksPerEpoch < Unbonding

\* What the downtime records of a consumer satisfy, whoever leaves or rotates.
RecordsAreSound ==
  /\ DTTypeOK /\ ImportableState
  /\ MarksAreOfThisEpoch /\ PendingIsOpen /\ AcceptedIsRecent
  /\ SetIsCurrent /\ AcceptedIsAnswered /\ FloorsAreOld /\ EscrowIsOwned

\* No window of any length and age holds h any more.
Stale(h) == \A w \in Windows, q \in ParamChoices : h + (w.end - w.start) + q.maxAge < now

\* Evidence about h is turned down at the address p.
Covered(c, p, h) == h <= floor[c][p] \/ \E e \in accepted[c] : e.addr = p /\ Claims(e, h)

\* v was accused of h under the consumer address a, and that is remembered where evidence
\* about a is looked up, be it the only address v has or, v having no key on c, a itself.
Remembered(c, v, a, h) ==
  \/ Stale(h)
  \/ /\ Exists(v) /\ h <= now /\ (leftAt[v] = 0 \/ h <= leftAt[v] + BlocksPerEpoch)
     /\ (\A p \in Addrs : owner[p] = v => p = live[v]) => Covered(c, live[v], h)
     /\ key[c][live[v]] = NoAddr => owner[a] = v /\ Covered(c, a, h)
AccusedIsRemembered ==
  \A c \in nonDeletedConsumerIds : \A x \in accused[c] :
    x[2] \notin orphaned[c] => Remembered(c, x[1], x[2], x[3])

\* What resolves is of a validator that has a key, or left over.
OrphansAreNoted ==
  /\ orphaned \in [Consumers -> SUBSET Addrs]
  /\ \A c \in Consumers, a \in Addrs :
       byAddr[c][a] # NoAddr => key[c][byAddr[c][a]] # NoAddr \/ a \in orphaned[c]

\* The records are of their type, importable and sound, and what was accepted is not
\* forgotten: the invariant of the module.
DTInv == RecordsAreSound /\ AccusedIsRemembered /\ OrphansAreNoted
=============================================================================

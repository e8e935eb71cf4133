----------------------------- MODULE MissedBlocks -----------------------------
(***************************************************************************)
(* How a consumer comes to accuse a validator of downtime, and what        *)
(* becomes of the accusation on its way to the provider.                   *)
(*                                                                         *)
(* The consumer counts the blocks each validator missed in tumbling        *)
(* windows, queues one evidence packet per offender when a window closes,  *)
(* sends the queue from EndBlock and queues a packet again when it times   *)
(* out.  The provider sends it the parameters to measure with, which it    *)
(* stages until the window in progress is closed, and judges the evidence  *)
(* by the parameters it echoes.                                            *)
(*                                                                         *)
(* x/vaas/consumer: keeper/downtime.go, keeper/evidence_packet.go, the     *)
(* callbacks of ibc_module.go, the downtime part of keeper/relay.go and    *)
(* keeper/genesis.go.  x/vaas/provider: keeper/params.go and the checks of *)
(* keeper/downtime.go that look at the content of the evidence; the rest   *)
(* of that handler is in DowntimeAccusation.                               *)
(*                                                                         *)
(* One clock serves both chains: the consumer's block at height h has time *)
(* h.  A bitmap is the set of its set bits, and one that does not exist is *)
(* empty.  The first block of a chain carries no votes.                    *)
(***************************************************************************)
EXTENDS Integers, FiniteSets, Sequences

CONSTANTS
  Vals,         \* validators, as their consensus addresses on the consumer
  Pairs,        \* downtime parameters: window, and minSigned in tenths
  InitialPair,  \* the ones at launch
  NoPair,       \* none staged
  MaxPending,   \* maxPendingEvidencePerValidator
  MaxSends,     \* maxEvidenceSendsPerBlock
  Timeout,      \* VAASTimeoutPeriod
  MaxAge,       \* DowntimeEvidenceMaxAge
  Challenge,    \* DowntimeChallengeWindow
  MaxHeight,    \* bound: blocks of the consumer
  MaxVscs,      \* bound: VSC packets
  MaxChanges,   \* bound: changes of the pair
  MaxPauses,    \* bound: times the provider pauses the consumer
  MaxRestarts   \* bound: restarts of the consumer from an export

ASSUME MissedBlocksAssumption ==
  /\ Vals \subseteq Nat /\ IsFiniteSet(Vals)
  /\ \A q \in Pairs : q.window \in Nat \ {0} /\ q.minSigned \in 1 .. 9
  /\ InitialPair \in Pairs /\ NoPair \notin Pairs
  /\ MaxPending \in Nat \ {0} /\ MaxSends \in Nat \ {0} /\ Timeout \in Nat \ {0}
  /\ MaxAge \in Nat \ {0} /\ Challenge \in Nat /\ MaxAge <= Challenge
  /\ MaxHeight \in Nat /\ MaxVscs \in Nat

VARIABLES
  height,     \* the consumer's block in progress, or the last one
  inBlock,    \* between its BeginBlock and its EndBlock
  voteless,   \* the next block is the first since genesis, and carries no votes
  pair,       \* SignedBlocksWindow and MinSignedPerWindow in force on the consumer
  staged,     \* StagedDowntimeParams
  watermark,  \* HighestValsetUpdateID
  bitmap,     \* MissedBlockBitmaps
  tracked,    \* FirstTrackedHeights, 0 for none
  queue,      \* PendingEvidencePackets
  flight,     \* evidence packets sent, neither received nor timed out
  vscs,       \* VSC packets sent, not received
  published,  \* history: the pair each VSC packet carries, in order of id
  current,    \* the provider's pair
  previous,   \* PreviousDowntimeParams, a set of at most one
  launched,   \* the provider has the consumer in phase LAUNCHED
  accepted,   \* evidence the provider accepted
  refused,    \* history: evidence it refused, when and whether for the pair
  changes,    \* history: the pairs governance replaced, and when
  missed,     \* history: heights at which each validator's vote was absent
  closed,     \* history: the windows closed, from the previous boundary on
  reported,   \* history: evidence queued at a window's close
  pauses,     \* bound on pauses so far
  restarts    \* bound on restarts so far

trackVars == <<pair, bitmap, tracked, missed, closed, reported>>
providerVars == <<current, previous, launched, accepted, refused, changes, pauses>>
blockVars == <<height, inBlock, voteless, restarts>>
vscVars == <<vscs, published, staged, watermark>>
mbVars == <<trackVars, providerVars, blockVars, vscVars, queue, flight>>

Init ==
  /\ height = 0 /\ inBlock = FALSE /\ voteless = TRUE
  /\ pair = InitialPair /\ staged = NoPair /\ watermark = 0
  /\ bitmap = [v \in Vals |-> {}] /\ tracked = [v \in Vals |-> 0]
  /\ queue = {} /\ flight = {} /\ vscs = {} /\ published = <<>>
  /\ current = InitialPair /\ previous = {} /\ launched = TRUE
  /\ accepted = {} /\ refused = {} /\ changes = {}
  /\ missed = [v \in Vals |-> {}] /\ closed = {} /\ reported = {}
  /\ pauses = 0 /\ restarts = 0

Higher(m, n) == IF m > n THEN m ELSE n

\* W - ceil(minSigned * W)
MaxMissed(q) == q.window - ((q.minSigned * q.window + 9) \div 10)

(***************************************************************************)
(* The queue of evidence.                                                  *)
(***************************************************************************)
\* pendingEvidenceKey
SameKey(e, f) == e.val = f.val /\ e.end = f.end

\* The newest windows of each validator stay.
evictOldestPendingEvidence(S) ==
  {e \in S : Cardinality({f \in S : f.val = e.val /\ f.end > e.end}) < MaxPending}

QueueEvidencePacket(S, new) ==
  evictOldestPendingEvidence({e \in S : \A p \in new : ~SameKey(e, p)} \cup new)

(***************************************************************************)
(* BeginBlock: the votes of the block before, and the close of its window. *)
(***************************************************************************)
\* The window of a height, under the pair in force.
WindowStart(h) == (h \div pair.window) * pair.window
ClosesWindow(h) == h = WindowStart(h) + pair.window - 1

\* What becomes of the tracking state with the votes of height h.
Sightings(h, votes) ==
  [v \in Vals |-> IF tracked[v] = 0 /\ votes[v] # "out" THEN h ELSE tracked[v]]
Misses(h, votes) ==
  [v \in Vals |-> IF votes[v] = "absent" THEN bitmap[v] \cup {h - WindowStart(h)} ELSE bitmap[v]]

\* A validator answers from its first sighting on, and for a full window's
\* threshold: bits before the sighting are left out, the others rebased.
NotRebased(h, v, seen, bits) ==
  LET first == Higher(WindowStart(h), seen[v])
  IN [val |-> v, start |-> first, end |-> h, pair |-> pair, bits |-> bits[v]]
EvidenceAgainst(h, v, seen, bits) ==
  LET start == WindowStart(h)
      first == Higher(start, seen[v])
  IN [val |-> v, start |-> first, end |-> h, pair |-> pair,
      bits |-> {b - (first - start) : b \in {c \in bits[v] : c >= first - start}}]

IsOffence(p) == Cardinality(p.bits) > MaxMissed(p.pair)

\* The tracking state after the close of a window.
ClearBitmap(h, bits) == IF ClosesWindow(h) THEN [v \in Vals |-> {}] ELSE bits
ClearTracked(h, seen) == IF ClosesWindow(h) THEN [v \in Vals |-> 0] ELSE seen

\* applyStagedDowntimeParams
applyStagedDowntimeParams(h) == ClosesWindow(h) /\ staged # NoPair

LastBoundary == IF closed = {} THEN 0 ELSE CHOOSE b \in {c.to : c \in closed} : \A c \in closed : c.to <= b

TrackMissedBlocks(h, votes) ==
  LET seen == Sightings(h, votes)
      bits == Misses(h, votes)
      offences == {p \in {EvidenceAgainst(h, v, seen, bits) : v \in {w \in Vals : bits[w] # {}}} :
                    ClosesWindow(h) /\ IsOffence(p)}
  IN /\ bitmap' = ClearBitmap(h, bits)
     /\ tracked' = ClearTracked(h, seen)
     /\ queue' = QueueEvidencePacket(queue, offences)
     /\ pair' = IF applyStagedDowntimeParams(h) THEN staged ELSE pair
     /\ staged' = IF applyStagedDowntimeParams(h) THEN NoPair ELSE staged
     /\ missed' = [v \in Vals |-> missed[v] \cup IF votes[v] = "absent" THEN {h} ELSE {}]
     /\ closed' = closed \cup IF ClosesWindow(h)
                              THEN {[from |-> LastBoundary + 1, to |-> h, pair |-> pair]} ELSE {}
     /\ reported' = reported \cup offences

\* The votes of height h arrive with block h + 1; there are none for height 0.
BeginBlock(votes) ==
  /\ ~inBlock /\ height < MaxHeight
  /\ voteless => \A v \in Vals : votes[v] = "out"
  /\ height' = height + 1 /\ inBlock' = TRUE /\ voteless' = FALSE
  /\ IF height > 0 THEN TrackMissedBlocks(height, votes)
                   ELSE UNCHANGED <<trackVars, staged, queue>>
  /\ UNCHANGED <<providerVars, vscs, published, watermark, flight, restarts>>

(***************************************************************************)
(* EndBlock: the queue is sent, in the order of its keys.                  *)
(***************************************************************************)
Before(e, f) == e.val < f.val \/ (e.val = f.val /\ e.end < f.end)

\* SendPacket refuses some, which stay; the cap counts those that went out.
Sent(failed) ==
  LET out == queue \ failed
  IN {e \in out : Cardinality({f \in out : Before(f, e)}) < MaxSends}
Unsent(sent) == queue \ sent

\* up: there is a pinned client, it is active and has a counterparty.
EndBlock(up, failed) ==
  LET sent == IF up THEN Sent(failed) ELSE {}
  IN /\ inBlock /\ inBlock' = FALSE
     /\ queue' = Unsent(sent)
     /\ flight' = flight \cup {[packet |-> e, expires |-> height + Timeout] : e \in sent}
     /\ UNCHANGED <<trackVars, providerVars, vscVars, height, voteless, restarts>>

(***************************************************************************)
(* IBC callbacks of the consumer.                                          *)
(***************************************************************************)
\* OnTimeoutPacket: RequeueEvidencePacket.
DropEvidencePacket(e) == queue
RequeueEvidencePacket(e) == QueueEvidencePacket(queue, {e})

OnTimeoutPacket(m) ==
  /\ inBlock /\ height >= m.expires
  /\ flight' = flight \ {m}
  /\ queue' = RequeueEvidencePacket(m.packet)
  /\ UNCHANGED <<trackVars, providerVars, vscVars, blockVars>>

\* What is staged once a packet that carries q was received.
StageKeptOnRevert(q) == IF q = pair THEN staged ELSE q
StageDowntimeParams(q) == IF q = pair THEN NoPair ELSE q

\* OnRecvVSCPacketV2, without the validator set.
OnRecvVSCPacket(id) ==
  /\ inBlock
  /\ vscs' = vscs \ {id}
  /\ IF id <= watermark
     THEN UNCHANGED <<staged, watermark>>
     ELSE staged' = StageDowntimeParams(published[id]) /\ watermark' = id
  /\ UNCHANGED <<trackVars, providerVars, blockVars, published, queue, flight>>

\* A restart from an export: everything the tracker keeps is in it.
exportMissedBlockBitmaps == bitmap
NoFirstTrackedHeights == [v \in Vals |-> 0]
exportFirstTrackedHeights == tracked
exportPendingEvidencePackets == queue

Restart ==
  /\ ~inBlock /\ height > 0 /\ restarts < MaxRestarts
  /\ restarts' = restarts + 1 /\ voteless' = TRUE
  /\ bitmap' = exportMissedBlockBitmaps
  /\ tracked' = exportFirstTrackedHeights
  /\ queue' = exportPendingEvidencePackets
  /\ UNCHANGED <<pair, missed, closed, reported, providerVars, vscVars, flight, height, inBlock>>

(***************************************************************************)
(* The provider.                                                           *)
(***************************************************************************)
\* Each epoch every launched consumer gets the pair with its VSC packet; a packet
\* that is lost is never received.
QueueVSCPackets ==
  /\ launched /\ Len(published) < MaxVscs
  /\ published' = Append(published, current)
  /\ vscs' = vscs \cup {Len(published) + 1}
  /\ UNCHANGED <<trackVars, providerVars, blockVars, staged, watermark, queue, flight>>

\* SetInfractionParams keeps the pair it replaces.
NothingSuperseded(q) == previous
SupersededBy(q) == IF q = current THEN previous ELSE {[pair |-> current, at |-> height]}

UpdateInfractionParams(q) ==
  /\ Cardinality(changes) < MaxChanges
  /\ q # current
  /\ current' = q
  /\ previous' = SupersededBy(q)
  /\ changes' = changes \cup {[pair |-> current, at |-> height]}
  /\ UNCHANGED <<trackVars, blockVars, vscVars, queue, flight, launched, accepted, refused, pauses>>

\* PauseConsumerChain and ResumeConsumerChain.
PauseOrResume ==
  /\ launched => pauses < MaxPauses
  /\ launched' = ~launched
  /\ pauses' = IF launched THEN pauses + 1 ELSE pauses
  /\ UNCHANGED <<trackVars, blockVars, vscVars, queue, flight, current, previous, accepted, refused, changes>>

AcceptableDowntimeParams(q) ==
  \/ q = current
  \/ \E s \in previous : q = s.pair /\ height - s.at <= MaxAge + Challenge

\* HandleConsumerEvidencePacket, as far as it depends on the evidence alone.
Acceptable(p) ==
  /\ launched
  /\ AcceptableDowntimeParams(p.pair)
  /\ Cardinality(p.bits) > MaxMissed(p.pair)
  /\ height - p.end <= MaxAge
  /\ \A a \in accepted : a.val = p.val => (a.end < p.start \/ p.end < a.start)

\* OnRecvPacket.  The acknowledgement changes nothing on the consumer: what was
\* sent has left the queue (OnAcknowledgementPacket).
OnRecvEvidence(m) ==
  LET p == m.packet IN
  /\ height < m.expires
  /\ flight' = flight \ {m}
  /\ accepted' = accepted \cup (IF Acceptable(p) THEN {p} ELSE {})
  /\ refused' = refused \cup
       IF Acceptable(p) THEN {}
       ELSE {[packet |-> p, at |-> height,
              forPair |-> launched /\ ~AcceptableDowntimeParams(p.pair)]}
  /\ UNCHANGED <<trackVars, blockVars, vscVars, queue, current, previous, launched, changes, pauses>>

Next ==
  \/ \E votes \in [Vals -> {"signed", "absent", "out"}] : BeginBlock(votes)
  \/ \E up \in BOOLEAN, failed \in SUBSET queue : EndBlock(up, failed)
  \/ \E m \in flight : OnTimeoutPacket(m)
  \/ \E id \in vscs : OnRecvVSCPacket(id)
  \/ Restart
  \/ QueueVSCPackets
  \/ \E q \in Pairs : UpdateInfractionParams(q)
  \/ PauseOrResume
  \/ \E m \in flight : OnRecvEvidence(m)

Spec == Init /\ [][Next]_mbVars

(***************************************************************************)
(* What must hold.                                                         *)
(***************************************************************************)
Packets == [val : Vals, start : 1 .. MaxHeight, end : 1 .. MaxHeight, pair : Pairs,
            bits : SUBSET (0 .. MaxHeight)]

\* The type of the state.
MBTypeOK ==
  /\ height \in 0 .. MaxHeight /\ inBlock \in BOOLEAN /\ voteless \in BOOLEAN
  /\ pair \in Pairs /\ staged \in Pairs \cup {NoPair}
  /\ bitmap \in [Vals -> SUBSET (0 .. MaxHeight)] /\ tracked \in [Vals -> 0 .. MaxHeight]
  /\ queue \subseteq Packets
  /\ \A m \in flight : m.packet \in Packets /\ m.expires \in Nat
  /\ published \in Seq(Pairs) /\ Len(published) <= MaxVscs
  /\ vscs \subseteq 1 .. Len(published) /\ watermark \in 0 .. Len(published)
  /\ current \in Pairs /\ launched \in BOOLEAN /\ accepted \subseteq Packets
  /\ \A s \in previous : s.pair \in Pairs /\ s.at \in 0 .. MaxHeight
  /\ missed \in [Vals -> SUBSET (1 .. MaxHeight)]
  /\ reported \subseteq Packets /\ IsFiniteSet(reported)
  /\ closed \subseteq [from : Nat, to : Nat, pair : Pairs]

\* What a packet says of a validator is what the votes said: each bit is a height it
\* missed and each height it missed in the window a bit, they are too many under the
\* one pair the window was measured with, and no two windows of a validator overlap.
\* (TrackMissedBlocks, closeWindow and rebaseBitmap, over joins in mid-window, changes
\* of the window's length and restarts.)
EvidenceMatchesVotes ==
  \A p \in reported :
    /\ {p.start + b : b \in p.bits} = missed[p.val] \cap (p.start .. p.end)
    /\ Cardinality(p.bits) > MaxMissed(p.pair)
    /\ p.end - p.start < p.pair.window
    /\ \A q \in reported \ {p} : q.val = p.val => (q.end < p.start \/ p.end < q.start)

\* Whoever missed more of a closed window than its pair allows was reported for it.
\* (The bitmaps survive restarts and nothing but the close of a window clears them.)
OffendersAreReported ==
  \A c \in closed, v \in Vals :
    Cardinality(missed[v] \cap (c.from .. c.to)) > MaxMissed(c.pair)
      => \E p \in reported : p.val = v /\ p.end = c.to /\ p.pair = c.pair

\* Where evidence is, queued, on its way or judged, it is once; a timeout puts it back
\* and a send takes it out.  (SendEvidencePackets, RequeueEvidencePacket.)
Flying == {m.packet : m \in flight}
Refused == {r.packet : r \in refused}
EvidenceIsInOnePlace ==
  /\ queue \cap (Flying \cup accepted \cup Refused) = {}
  /\ Flying \cap (accepted \cup Refused) = {}
  /\ accepted \cap Refused = {}
  /\ \A m, n \in flight : m.packet = n.packet => m = n

\* No validator holds more than the cap, and evidence is lost only to as many newer
\* windows of the same validator, never to failed sends, timeouts or restarts.
\* (evictOldestPendingEvidence.)
EvidenceIsLostToNewerOnly ==
  /\ \A v \in Vals : Cardinality({e \in queue : e.val = v}) <= MaxPending
  /\ \A p \in reported \ (queue \cup Flying \cup accepted \cup Refused) :
       Cardinality({q \in reported : q.val = p.val /\ q.end > p.end}) >= MaxPending

\* All of it was reported, at the close of a window that is behind.
EvidenceWasReported ==
  /\ queue \cup Flying \cup accepted \cup Refused \subseteq reported
  /\ \A p \in reported : p.start <= p.end /\ p.end <= LastBoundary

\* The bitmaps hold the misses since the last boundary, by validators already sighted.
TrackerMatchesVotes ==
  /\ closed # {} => \E c \in closed : \A d \in closed : d.to <= c.to
  /\ LastBoundary # 0 => LastBoundary < height
  /\ \A v \in Vals :
       /\ \A h \in missed[v] : h < height
       /\ {WindowStart(height) + b : b \in bitmap[v]} = {h \in missed[v] : h > LastBoundary}
       /\ tracked[v] # 0 => LastBoundary < tracked[v] /\ tracked[v] < height
       /\ \A h \in missed[v] : h > LastBoundary => tracked[v] # 0 /\ tracked[v] <= h

\* The last change is the one that is remembered, and evidence is refused for a pair
\* that was not the current one.
LastChangeIsRemembered ==
  /\ \A s \in previous : s \in changes /\ \A d \in changes : d.at <= s.at
  /\ changes # {} => previous # {}
  /\ \A d \in changes : d.at \in 0 .. height
  /\ \A r \in refused :
       /\ r.at \in 0 .. height
       /\ r.forPair /\ r.at = height /\ r.packet.pair = current
            => \E d \in changes : d.at = height /\ d.pair # current

\* Every packet of evidence is accounted for: queued, on its way or judged, once, or
\* lost to newer ones; the tracker holds what the votes said since the last boundary.
\* (SendEvidencePackets, RequeueEvidencePacket, TrackMissedBlocks.)
MBInv ==
  /\ MBTypeOK /\ EvidenceIsInOnePlace /\ EvidenceIsLostToNewerOnly
  /\ EvidenceWasReported /\ TrackerMatchesVotes /\ LastChangeIsRemembered

\* What the consumer measures with from the next boundary on is what the newest VSC
\* packet it received carries: a change taken back in time never takes effect, and a
\* late packet changes nothing.  (StageDowntimeParams, applyStagedDowntimeParams.)
NextWindowFollowsProvider ==
  (IF staged = NoPair THEN pair ELSE staged) =
    (IF watermark = 0 THEN InitialPair ELSE published[watermark])

\* Evidence computed under a pair before governance replaced it is not refused for
\* that pair until MaxAge + Challenge later, unless the next change comes before.
\* (UpdateInfractionParams keeps one superseded pair.)
InFlightSurvivesAChange ==
  \A r \in refused, c \in changes :
    (\A d \in changes \ {c} : d.at < c.at \/ d.at > r.at) =>
      ~ (r.forPair /\ r.packet.pair = c.pair /\ r.packet.end < c.at
           /\ c.at <= r.at /\ r.at - c.at <= MaxAge + Challenge)
=============================================================================

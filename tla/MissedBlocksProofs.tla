-------------------------- MODULE MissedBlocksProofs --------------------------
(***************************************************************************)
(* Proofs about MissedBlocks, for every number of validators, every pair   *)
(* of downtime parameters and every cap of the evidence queue.             *)
(*                                                                         *)
(* The invariant falls apart by what it is about: the tracker and what it  *)
(* reported, the places evidence can be in, the pair of the next window,   *)
(* and the pairs the provider still takes evidence under.                  *)
(***************************************************************************)
EXTENDS MissedBlocks, FunctionTheorems, FiniteSetTheorems, TLAPS

Tracker == TrackerMatchesVotes /\ EvidenceMatchesVotes /\ OffendersAreReported
Places == EvidenceIsInOnePlace /\ EvidenceIsLostToNewerOnly /\ EvidenceWasReported
Judgement == LastChangeIsRemembered /\ InFlightSurvivesAChange

IInv == MBTypeOK /\ Tracker /\ Places /\ NextWindowFollowsProvider /\ Judgement

(***************************************************************************)
(* Windows.                                                                *)
(***************************************************************************)
\* A height is in the window that its quotient numbers,
LEMMA WindowOf ==
  ASSUME NEW h \in Nat, NEW w \in Nat \ {0}, NEW s, s = (h \div w) * w
  PROVE  s \in Nat /\ s <= h /\ h < s + w
<1> DEFINE q == h \div w
<1>1. q \in Nat /\ q * w <= h /\ h < (q + 1) * w
  OBVIOUS
<1> HIDE DEF q
<1>2. (q + 1) * w = q * w + w /\ q * w \in Nat
  BY <1>1
<1> QED BY <1>1, <1>2 DEF q

\* and so is the next one unless it was the last of the window.
LEMMA WindowGoesOn ==
  ASSUME NEW h \in Nat, NEW w \in Nat \ {0}, h # (h \div w) * w + w - 1
  PROVE  ((h + 1) \div w) * w = (h \div w) * w
<1> DEFINE q == h \div w
           r == (h + 1) \div w
<1>1. q \in Nat /\ q * w <= h /\ h < (q + 1) * w
  OBVIOUS
<1>2. r \in Nat /\ r * w <= h + 1 /\ h + 1 < (r + 1) * w
  OBVIOUS
<1>3. h # q * w + w - 1
  OBVIOUS
<1> HIDE DEF q, r
<1>4. (q + 1) * w = q * w + w /\ (r + 1) * w = r * w + w /\ q * w \in Nat /\ r * w \in Nat
  BY <1>1, <1>2
<1>5. r * w < (q + 1) * w /\ q * w < (r + 1) * w
  BY <1>1, <1>2, <1>3, <1>4
<1>6. r < q + 1 /\ q < r + 1
  BY <1>1, <1>2, <1>5
<1> QED BY <1>1, <1>2, <1>6 DEF q, r

\* A threshold is never below zero.
LEMMA MaxMissedType ==
  ASSUME NEW q \in Pairs
  PROVE  MaxMissed(q) \in Nat
<1>1. q.window \in Nat \ {0} /\ q.minSigned \in 1 .. 9
  BY MissedBlocksAssumption
<1>2. q.minSigned * q.window <= 9 * q.window /\ q.minSigned * q.window \in Nat
  BY <1>1
<1> DEFINE n == q.minSigned * q.window
<1> HIDE DEF n
<1>3. n \in Nat /\ n <= 9 * q.window
  BY <1>2 DEF n
<1>4. (n + 9) \div 10 \in Nat /\ (n + 9) \div 10 <= q.window
  BY <1>1, <1>3
<1> QED BY <1>1, <1>4 DEF MaxMissed, n

\* The last boundary is the largest.
LEMMA LastBoundaryIs ==
  (\A c \in closed : c.to \in Nat)
    => \A b \in closed : (\A c \in closed : c.to <= b.to) => LastBoundary = b.to
<1> SUFFICES ASSUME \A c \in closed : c.to \in Nat, NEW b \in closed, \A c \in closed : c.to <= b.to
             PROVE  LastBoundary = b.to
  OBVIOUS
<1> DEFINE P(n) == \A c \in closed : c.to <= n
           T == {c.to : c \in closed}
<1>1. b.to \in T /\ P(b.to)
  OBVIOUS
<1>2. (CHOOSE n \in T : P(n)) \in T /\ P(CHOOSE n \in T : P(n))
  BY <1>1
<1>3. LastBoundary = CHOOSE n \in T : P(n)
  BY DEF LastBoundary
<1> QED BY <1>1, <1>2, <1>3

LEMMA LastBoundaryIsNext ==
  (\A c \in closed : c.to \in Nat)'
    => (\A b \in closed : (\A c \in closed : c.to <= b.to) => LastBoundary = b.to)'
  BY LastBoundaryIs, PTL

LEMMA BoundariesAreBehind ==
  ASSUME MBTypeOK, TrackerMatchesVotes
  PROVE  /\ LastBoundary \in Nat /\ (height > 0 => LastBoundary < height)
         /\ \A c \in closed : c.to <= LastBoundary
<1>1. \A c \in closed : c.to \in Nat
  BY DEF MBTypeOK
<1>2. height \in Nat /\ (LastBoundary # 0 => LastBoundary < height)
  BY MissedBlocksAssumption DEF MBTypeOK, TrackerMatchesVotes
<1>3. CASE closed = {}
  BY <1>2, <1>3 DEF LastBoundary
<1>4. CASE closed # {}
  <2>1. PICK b \in closed : \A d \in closed : d.to <= b.to
    BY <1>4 DEF TrackerMatchesVotes
  <2>2. LastBoundary = b.to
    BY <1>1, <2>1, LastBoundaryIs
  <2> QED BY <1>1, <1>2, <2>1, <2>2
<1> QED BY <1>3, <1>4

\* Moving a finite set of numbers keeps its size.
LEMMA ShiftedSet ==
  ASSUME NEW S \in SUBSET Nat, IsFiniteSet(S), NEW k \in Nat, NEW T, T = {k + b : b \in S}
  PROVE  IsFiniteSet(T) /\ Cardinality(T) = Cardinality(S)
<1> DEFINE f == [b \in S |-> k + b]
<1>1. f \in [S -> T]
  OBVIOUS
<1>2. \A a, b \in S : f[a] = f[b] => a = b
  OBVIOUS
<1>3. \A t \in T : \E b \in S : f[b] = t
  OBVIOUS
<1> HIDE DEF f
<1>4. f \in Bijection(S, T)
  BY <1>1, <1>2, <1>3, Fun_IsBij
<1> QED BY <1>4, FS_Bijection DEF ExistsBijection

(***************************************************************************)
(* The queue of evidence.                                                  *)
(***************************************************************************)
\* Eviction keeps at most the cap of each validator: the number of newer packets
\* tells those that stay apart.
LEMMA EvictionCaps ==
  ASSUME NEW S, IsFiniteSet(S), \A e \in S : e.end \in Nat,
         \A e, f \in S : SameKey(e, f) => e = f, NEW v
  PROVE  Cardinality({e \in evictOldestPendingEvidence(S) : e.val = v}) <= MaxPending
<1> DEFINE newer(e) == {f \in S : f.val = e.val /\ f.end > e.end}
           Q == {e \in evictOldestPendingEvidence(S) : e.val = v}
           rank == [e \in Q |-> Cardinality(newer(e))]
           T == 0 .. MaxPending - 1
<1>1. ASSUME NEW e PROVE IsFiniteSet(newer(e)) /\ Cardinality(newer(e)) \in Nat
  <2>1. newer(e) \subseteq S
    OBVIOUS
  <2> HIDE DEF newer
  <2> QED BY <2>1, FS_Subset, FS_CardinalityType
<1>2. ASSUME NEW e \in Q PROVE e \in S /\ e.val = v /\ Cardinality(newer(e)) < MaxPending
  BY DEF evictOldestPendingEvidence
<1>3. ASSUME NEW e \in Q, NEW f \in Q, e.end < f.end
      PROVE  Cardinality(newer(f)) < Cardinality(newer(e))
  <2>1. e \in S /\ f \in S /\ e.val = v /\ f.val = v /\ e.end \in Nat /\ f.end \in Nat
    BY <1>2
  <2>2. newer(f) \subseteq newer(e)
    BY <1>3, <2>1
  <2>3. f \in newer(e) /\ f \notin newer(f)
    BY <1>3, <2>1
  <2>4. newer(f) # newer(e)
    BY <2>3
  <2>5. IsFiniteSet(newer(e))
    BY <1>1
  <2> HIDE DEF newer
  <2>6. Cardinality(newer(f)) <= Cardinality(newer(e)) /\ Cardinality(newer(f)) # Cardinality(newer(e))
    <3>1. newer(f) \in SUBSET newer(e)
      BY <2>2
    <3> QED BY <2>4, <2>5, <3>1, FS_Subset
  <2>7. Cardinality(newer(f)) \in Nat /\ Cardinality(newer(e)) \in Nat
    BY <1>1
  <2> QED BY <2>6, <2>7
<1>4. rank \in Injection(Q, T)
  <2>1. ASSUME NEW e \in Q PROVE Cardinality(newer(e)) \in T
    <3>1. Cardinality(newer(e)) \in Nat /\ Cardinality(newer(e)) < MaxPending
      BY <1>1, <1>2
    <3>2. MaxPending \in Nat
      BY MissedBlocksAssumption
    <3> HIDE DEF newer
    <3> QED BY <3>1, <3>2
  <2>2. ASSUME NEW e \in Q, NEW f \in Q, Cardinality(newer(e)) = Cardinality(newer(f)) PROVE e = f
    <3>1. e \in S /\ f \in S /\ e.val = f.val /\ e.end \in Nat /\ f.end \in Nat
      BY <1>2
    <3>2. Cardinality(newer(e)) \in Nat /\ Cardinality(newer(f)) \in Nat
      BY <1>1
    <3>3. ~(e.end < f.end) /\ ~(f.end < e.end)
      <4> HIDE DEF newer, Q
      <4> QED BY <1>3, <2>2, <3>2
    <3>4. e.end = f.end
      BY <3>1, <3>3
    <3> QED BY <3>1, <3>4 DEF SameKey
  <2> HIDE DEF Q, T, newer
  <2>3. rank \in [Q -> T]
    BY <2>1
  <2>4. \A e, f \in Q : rank[e] = rank[f] => e = f
    BY <2>2
  <2> QED BY <2>3, <2>4, Fun_IsInj
<1>5. IsFiniteSet(T) /\ Cardinality(T) = MaxPending
  <2>1. MaxPending \in Nat \ {0} /\ 0 \in Int /\ MaxPending - 1 \in Int
    BY MissedBlocksAssumption
  <2>2. IsFiniteSet(T) /\ Cardinality(T) = IF 0 > MaxPending - 1 THEN 0 ELSE (MaxPending - 1) - 0 + 1
    BY <2>1, FS_Interval
  <2> QED BY <2>1, <2>2
<1> HIDE DEF Q, T, rank
<1>6. Cardinality(Q) <= Cardinality(T)
  BY <1>4, <1>5, FS_Injection
<1> QED BY <1>5, <1>6 DEF Q
\* No two reported packets have the same key.
LEMMA KeysAreUnique ==
  ASSUME MBTypeOK, EvidenceMatchesVotes, EvidenceWasReported,
         NEW p \in reported, NEW q \in reported, SameKey(p, q)
  PROVE  p = q
<1>1. p.start <= p.end /\ q.start <= q.end
  BY DEF EvidenceWasReported
<1>2. p.start \in Nat /\ p.end \in Nat /\ q.start \in Nat /\ q.end \in Nat
  BY DEF MBTypeOK, Packets
<1>3. p # q => (q.end < p.start \/ p.end < q.start)
  BY DEF EvidenceMatchesVotes, SameKey
<1> QED BY <1>1, <1>2, <1>3 DEF SameKey

\* Queueing packets of a set whose keys are unique drops only those that have enough
\* newer ones in that set.
LEMMA QueueingEvictsOldest ==
  ASSUME NEW R, IsFiniteSet(R), \A e \in R : e.end \in Nat,
         \A e, f \in R : SameKey(e, f) => e = f,
         NEW S \in SUBSET R, NEW new \in SUBSET R, S \cap new = {},
         NEW Q, Q = QueueEvidencePacket(S, new)
  PROVE  /\ Q \subseteq S \cup new
         /\ \A v \in Vals : Cardinality({e \in Q : e.val = v}) <= MaxPending
         /\ \A p \in (S \cup new) \ Q :
              Cardinality({q \in R : q.val = p.val /\ q.end > p.end}) >= MaxPending
<1> DEFINE U == S \cup new
<1>1. {e \in S : \A p \in new : ~SameKey(e, p)} = S
  OBVIOUS
<1>2. Q = evictOldestPendingEvidence(U)
  BY <1>1, Zenon DEF QueueEvidencePacket
<1>3. U \subseteq R /\ IsFiniteSet(U)
  <2>1. U \in SUBSET R
    OBVIOUS
  <2> QED BY <2>1, FS_Subset
<1> HIDE DEF U
<1>4. \A v \in Vals : Cardinality({e \in Q : e.val = v}) <= MaxPending
  BY <1>2, <1>3, EvictionCaps
<1>5. ASSUME NEW p \in U \ Q
      PROVE  Cardinality({q \in R : q.val = p.val /\ q.end > p.end}) >= MaxPending
  <2> DEFINE inU == {f \in U : f.val = p.val /\ f.end > p.end}
             inR == {q \in R : q.val = p.val /\ q.end > p.end}
  <2>1. ~(Cardinality(inU) < MaxPending)
    BY <1>2, <1>5 DEF evictOldestPendingEvidence
  <2>2. inU \in SUBSET inR /\ inR \in SUBSET R
    BY <1>3
  <2> HIDE DEF inU, inR
  <2>3. IsFiniteSet(inR)
    BY <2>2, FS_Subset
  <2>4. Cardinality(inU) <= Cardinality(inR) /\ IsFiniteSet(inU)
    BY <2>2, <2>3, FS_Subset
  <2>5. Cardinality(inU) \in Nat /\ Cardinality(inR) \in Nat /\ MaxPending \in Nat
    BY <2>3, <2>4, FS_CardinalityType, MissedBlocksAssumption
  <2>6. Cardinality(inR) >= MaxPending
    BY <2>1, <2>4, <2>5
  <2> QED BY <2>6 DEF inR
<1>6. Q \subseteq U
  BY <1>2 DEF evictOldestPendingEvidence
<1> QED BY <1>4, <1>5, <1>6 DEF U

(***************************************************************************)
(* What a step leaves alone.                                               *)
(***************************************************************************)
LEMMA TrackerStays ==
  ASSUME Tracker, UNCHANGED <<trackVars, height>>
  PROVE  Tracker'
<1>1. LastBoundary' = LastBoundary /\ WindowStart(height)' = WindowStart(height)
  BY DEF trackVars, WindowStart, LastBoundary
<1>2. TrackerMatchesVotes'
  BY <1>1 DEF Tracker, TrackerMatchesVotes, trackVars
<1>3. EvidenceMatchesVotes' /\ OffendersAreReported'
  BY DEF Tracker, EvidenceMatchesVotes, OffendersAreReported, trackVars
<1> QED BY <1>2, <1>3 DEF Tracker

LEMMA PlacesStay ==
  ASSUME Places, UNCHANGED <<queue, flight, accepted, refused, reported, closed>>
  PROVE  Places'
  BY DEF Places, EvidenceIsInOnePlace, EvidenceIsLostToNewerOnly, EvidenceWasReported, Flying, Refused,
         LastBoundary

LEMMA NextWindowStays ==
  ASSUME NextWindowFollowsProvider, UNCHANGED <<pair, staged, watermark, published>>
  PROVE  NextWindowFollowsProvider'
  BY DEF NextWindowFollowsProvider

LEMMA JudgementStays ==
  ASSUME Judgement, UNCHANGED <<height, refused, changes, previous, current>>
  PROVE  Judgement'
  BY DEF Judgement, LastChangeIsRemembered, InFlightSurvivesAChange
(***************************************************************************)
(* BeginBlock.                                                             *)
(***************************************************************************)
Votes == [Vals -> {"signed", "absent", "out"}]

\* With the votes of a height the bitmaps say what the votes said up to it.
LEMMA VotesAreCounted ==
  ASSUME MBTypeOK, TrackerMatchesVotes, height > 0, NEW votes \in Votes,
         TrackMissedBlocks(height, votes),
         NEW seen, seen = Sightings(height, votes), NEW bits, bits = Misses(height, votes),
         NEW v \in Vals
  PROVE  /\ bits[v] \subseteq 0 .. height /\ seen[v] \in 0 .. height
         /\ missed'[v] \subseteq 1 .. height
         /\ {WindowStart(height) + b : b \in bits[v]} = {h \in missed'[v] : h > LastBoundary}
         /\ seen[v] # 0 => LastBoundary < seen[v]
         /\ \A h \in missed'[v] : h > LastBoundary => seen[v] # 0 /\ seen[v] <= h
<1> DEFINE start == WindowStart(height)
           L == LastBoundary
<1>1. /\ height \in Nat /\ pair.window \in Nat \ {0} /\ bitmap[v] \subseteq Nat
      /\ missed[v] \subseteq Nat \ {0} /\ tracked[v] \in Nat
  BY MissedBlocksAssumption DEF MBTypeOK
<1>2. L \in Nat /\ L < height
  BY BoundariesAreBehind
<1>3. start \in Nat /\ start <= height
  BY <1>1, WindowOf DEF WindowStart
<1>4. /\ \A h \in missed[v] : h < height
      /\ {start + b : b \in bitmap[v]} = {h \in missed[v] : h > L}
      /\ tracked[v] # 0 => L < tracked[v] /\ tracked[v] < height
      /\ \A h \in missed[v] : h > L => tracked[v] # 0 /\ tracked[v] <= h
  BY DEF TrackerMatchesVotes
<1>5. /\ bits[v] = IF votes[v] = "absent" THEN bitmap[v] \cup {height - start} ELSE bitmap[v]
      /\ seen[v] = IF tracked[v] = 0 /\ votes[v] # "out" THEN height ELSE tracked[v]
  BY DEF Sightings, Misses
<1>6. missed'[v] = missed[v] \cup IF votes[v] = "absent" THEN {height} ELSE {}
  BY DEF TrackMissedBlocks
<1> HIDE DEF start, L
<1>7. bits[v] \subseteq 0 .. height
  <2>1. ASSUME NEW b \in bitmap[v] PROVE b \in 0 .. height
    <3>1. start + b \in missed[v]
      BY <1>4
    <3> QED BY <1>1, <1>3, <1>4, <3>1
  <2> QED BY <1>1, <1>3, <1>5, <2>1
<1>8. seen[v] \in 0 .. height
  BY <1>1, <1>4, <1>5
<1>9. missed'[v] \subseteq 1 .. height
  BY <1>1, <1>4, <1>6
<1>10. {start + b : b \in bits[v]} = {h \in missed'[v] : h > L}
  <2>1. CASE votes[v] = "absent"
    <3>1. bits[v] = bitmap[v] \cup {height - start} /\ missed'[v] = missed[v] \cup {height}
      BY <1>5, <1>6, <2>1
    <3>2. start + (height - start) = height
      BY <1>1, <1>3
    <3>3. {start + b : b \in bits[v]} = {start + b : b \in bitmap[v]} \cup {height}
      BY <3>1, <3>2
    <3>4. {h \in missed'[v] : h > L} = {h \in missed[v] : h > L} \cup {height}
      BY <1>1, <1>2, <3>1
    <3> QED BY <1>4, <3>3, <3>4
  <2>2. CASE votes[v] # "absent"
    BY <1>4, <1>5, <1>6, <2>2
  <2> QED BY <2>1, <2>2
<1>11. seen[v] # 0 => L < seen[v]
  BY <1>2, <1>4, <1>5
<1>12. ASSUME NEW h \in missed'[v], h > L PROVE seen[v] # 0 /\ seen[v] <= h
  <2>1. CASE h \in missed[v]
    BY <1>4, <1>5, <1>12, <2>1
  <2>2. CASE votes[v] = "absent" /\ h = height
    BY <1>1, <1>4, <1>5, <2>2
  <2> QED BY <1>6, <2>1, <2>2
<1> QED BY <1>7, <1>8, <1>9, <1>10, <1>11, <1>12 DEF start, L

\* Evidence against a validator says where its misses since the last boundary are.
LEMMA EvidenceIsTrue ==
  ASSUME MBTypeOK, TrackerMatchesVotes, height > 0, NEW votes \in Votes,
         TrackMissedBlocks(height, votes),
         NEW seen, seen = Sightings(height, votes), NEW bits, bits = Misses(height, votes),
         NEW v \in Vals, bits[v] # {},
         NEW p, p = EvidenceAgainst(height, v, seen, bits)
  PROVE  /\ p.val = v /\ p.end = height /\ p.pair = pair
         /\ p.start \in Nat /\ p.start > LastBoundary /\ p.start <= height
         /\ height - p.start < pair.window
         /\ p.bits \subseteq 0 .. height /\ IsFiniteSet(p.bits)
         /\ {p.start + b : b \in p.bits} = missed'[v] \cap (p.start .. height)
         /\ missed'[v] \cap (p.start .. height) = missed'[v] \cap (LastBoundary + 1 .. height)
<1> DEFINE start == WindowStart(height)
           L == LastBoundary
           first == Higher(start, seen[v])
           kept == {c \in bits[v] : c >= first - start}
<1>1. /\ p.val = v /\ p.end = height /\ p.pair = pair /\ p.start = first
      /\ p.bits = {b - (first - start) : b \in kept}
  BY DEF EvidenceAgainst
<1>2. height \in Nat /\ pair.window \in Nat \ {0}
  BY MissedBlocksAssumption DEF MBTypeOK
<1>3. L \in Nat /\ L < height
  BY BoundariesAreBehind
<1>4. start \in Nat /\ start <= height /\ height < start + pair.window
  BY <1>2, WindowOf DEF WindowStart
<1>5. /\ bits[v] \subseteq 0 .. height /\ seen[v] \in 0 .. height
      /\ missed'[v] \subseteq 1 .. height
      /\ {start + b : b \in bits[v]} = {h \in missed'[v] : h > L}
      /\ seen[v] # 0 => L < seen[v]
      /\ \A h \in missed'[v] : h > L => seen[v] # 0 /\ seen[v] <= h
  BY VotesAreCounted
<1> HIDE DEF start, L
<1>6. seen[v] # 0
  <2>1. PICK b \in bits[v] : TRUE
    OBVIOUS
  <2>2. start + b \in {h \in missed'[v] : h > L}
    BY <1>5, <2>1
  <2> QED BY <1>5, <2>2
<1>7. /\ first \in Nat /\ first >= start /\ first >= seen[v] /\ first <= height
      /\ first = start \/ first = seen[v]
  BY <1>2, <1>4, <1>5 DEF Higher
<1>8. first > L
  BY <1>3, <1>4, <1>5, <1>6, <1>7
<1> HIDE DEF first
<1>9. \A h \in missed'[v] : h > L <=> h >= first
  <2> SUFFICES ASSUME NEW h \in missed'[v] PROVE h > L <=> h >= first
    OBVIOUS
  <2>1. h \in Nat
    BY <1>5
  <2>2. ASSUME h > L PROVE h >= first
    <3>1. h \in {start + b : b \in bits[v]}
      BY <1>5, <2>2
    <3>2. PICK b \in bits[v] : h = start + b
      BY <3>1
    <3>3. h >= start /\ h >= seen[v]
      BY <1>4, <1>5, <2>2, <3>2
    <3> QED BY <1>7, <3>3
  <2> QED BY <1>3, <1>7, <1>8, <2>1, <2>2
<1>10. \A b \in bits[v] : b \in Nat /\ start + b \in missed'[v] /\ start + b >= first
  BY <1>5, <1>9
<1>11. p.bits \subseteq 0 .. height
  <2> SUFFICES ASSUME NEW c \in p.bits PROVE c \in 0 .. height
    OBVIOUS
  <2>1. PICK b \in bits[v] : c = b - (first - start) /\ b >= first - start
    BY <1>1
  <2> QED BY <1>2, <1>4, <1>5, <1>7, <2>1
<1>12. IsFiniteSet(p.bits)
  <2>1. IsFiniteSet(0 .. height)
    BY <1>2, FS_Interval
  <2> QED BY <1>11, <2>1, FS_Subset
<1>13. {p.start + b : b \in p.bits} = missed'[v] \cap (p.start .. height)
  <2>1. ASSUME NEW c \in p.bits PROVE first + c \in missed'[v] /\ first + c \in first .. height
    <3>1. PICK b \in bits[v] : c = b - (first - start)
      BY <1>1
    <3>2. first + c = start + b
      BY <1>4, <1>7, <1>10, <3>1
    <3>3. start + b \in missed'[v] /\ start + b >= first /\ start + b \in 1 .. height
      BY <1>5, <1>10
    <3> QED BY <1>2, <1>7, <3>2, <3>3
  <2>2. ASSUME NEW h \in missed'[v], h \in first .. height PROVE \E c \in p.bits : h = first + c
    <3>1. h > L
      BY <1>3, <1>7, <1>8, <2>2
    <3>2. h \in {start + b : b \in bits[v]}
      BY <1>5, <3>1
    <3>3. PICK b \in bits[v] : h = start + b
      BY <3>2
    <3>4. b >= first - start /\ h = first + (b - (first - start))
      BY <1>4, <1>7, <1>10, <3>3
    <3>5. b - (first - start) \in p.bits
      BY <1>1, <3>4
    <3> QED BY <3>4, <3>5
  <2> QED BY <1>1, <2>1, <2>2
<1>14. missed'[v] \cap (first .. height) = missed'[v] \cap (L + 1 .. height)
  BY <1>2, <1>3, <1>5, <1>7, <1>9
<1>15. height - first < pair.window
  BY <1>2, <1>4, <1>7
<1> QED BY <1>1, <1>7, <1>8, <1>11, <1>12, <1>13, <1>14, <1>15 DEF L
\* In the middle of a window.
LEMMA OpenWindowKeepsTracker ==
  ASSUME MBTypeOK, Tracker, EvidenceWasReported, height > 0, height < MaxHeight, height' = height + 1,
         NEW votes \in Votes, TrackMissedBlocks(height, votes), ~ClosesWindow(height)
  PROVE  /\ Tracker'
         /\ bitmap' \in [Vals -> SUBSET (0 .. MaxHeight)] /\ tracked' \in [Vals -> 0 .. MaxHeight]
         /\ missed' \in [Vals -> SUBSET (1 .. MaxHeight)]
         /\ UNCHANGED <<pair, staged, closed, reported>>
         /\ queue' = QueueEvidencePacket(queue, {})
<1> USE DEF Tracker
<1>1. PICK seen, bits : seen = Sightings(height, votes) /\ bits = Misses(height, votes)
  OBVIOUS
<1>2. /\ bitmap' = bits /\ tracked' = seen /\ UNCHANGED <<pair, staged, closed, reported>>
      /\ queue' = QueueEvidencePacket(queue, {})
  BY <1>1 DEF TrackMissedBlocks, ClearBitmap, ClearTracked, applyStagedDowntimeParams
<1>3. ASSUME NEW v \in Vals
      PROVE  /\ bits[v] \subseteq 0 .. height /\ seen[v] \in 0 .. height
             /\ missed'[v] \subseteq 1 .. height
             /\ {WindowStart(height) + b : b \in bits[v]} = {h \in missed'[v] : h > LastBoundary}
             /\ seen[v] # 0 => LastBoundary < seen[v]
             /\ \A h \in missed'[v] : h > LastBoundary => seen[v] # 0 /\ seen[v] <= h
  BY <1>1, VotesAreCounted
<1>4. missed' = [v \in Vals |-> missed[v] \cup IF votes[v] = "absent" THEN {height} ELSE {}]
  BY DEF TrackMissedBlocks
<1>t. /\ height \in Nat /\ MaxHeight \in Nat /\ pair.window \in Nat \ {0}
      /\ missed \in [Vals -> SUBSET (1 .. MaxHeight)] /\ reported \subseteq Packets
      /\ closed \subseteq [from : Nat, to : Nat, pair : Pairs]
  BY MissedBlocksAssumption DEF MBTypeOK
<1>5. /\ bitmap' \in [Vals -> SUBSET (0 .. MaxHeight)] /\ tracked' \in [Vals -> 0 .. MaxHeight]
      /\ missed' \in [Vals -> SUBSET (1 .. MaxHeight)]
  <2>1. ASSUME NEW v \in Vals PROVE bits[v] \in SUBSET (0 .. MaxHeight) /\ seen[v] \in 0 .. MaxHeight
    BY <1>3, <1>t
  <2>2. bitmap' \in [Vals -> SUBSET (0 .. MaxHeight)]
    BY <1>1, <1>2, <2>1 DEF Misses
  <2>3. tracked' \in [Vals -> 0 .. MaxHeight]
    BY <1>1, <1>2, <2>1 DEF Sightings
  <2>4. missed' \in [Vals -> SUBSET (1 .. MaxHeight)]
    BY <1>4, <1>t
  <2> QED BY <2>2, <2>3, <2>4
<1>6. LastBoundary' = LastBoundary /\ LastBoundary \in Nat /\ LastBoundary < height
      /\ \A c \in closed : c.to <= LastBoundary
  BY <1>2, BoundariesAreBehind DEF LastBoundary
<1>7. WindowStart(height)' = WindowStart(height)
  <2>1. WindowStart(height)' = ((height + 1) \div pair.window) * pair.window
    BY <1>2 DEF WindowStart
  <2>2. height # (height \div pair.window) * pair.window + pair.window - 1
    BY DEF ClosesWindow, WindowStart
  <2> QED BY <1>t, <2>1, <2>2, WindowGoesOn DEF WindowStart
<1>8. TrackerMatchesVotes'
  <2>1. ASSUME NEW v \in Vals
        PROVE  /\ \A h \in missed'[v] : h < height'
               /\ {WindowStart(height)' + b : b \in bitmap'[v]} = {h \in missed'[v] : h > LastBoundary'}
               /\ tracked'[v] # 0 => LastBoundary' < tracked'[v] /\ tracked'[v] < height'
               /\ \A h \in missed'[v] : h > LastBoundary' => tracked'[v] # 0 /\ tracked'[v] <= h
    <3>1. \A h \in missed'[v] : h < height'
      BY <1>3, <1>t
    <3>2. {WindowStart(height)' + b : b \in bitmap'[v]} = {h \in missed'[v] : h > LastBoundary'}
      BY <1>2, <1>3, <1>6, <1>7
    <3>3. tracked'[v] # 0 => LastBoundary' < tracked'[v] /\ tracked'[v] < height'
      BY <1>2, <1>3, <1>6, <1>t
    <3>4. \A h \in missed'[v] : h > LastBoundary' => tracked'[v] # 0 /\ tracked'[v] <= h
      BY <1>2, <1>3, <1>6
    <3> QED BY <3>1, <3>2, <3>3, <3>4
  <2>2. closed' # {} => \E c \in closed' : \A d \in closed' : d.to <= c.to
    BY <1>2 DEF TrackerMatchesVotes
  <2>3. LastBoundary' # 0 => LastBoundary' < height'
    BY <1>6, <1>t
  <2> QED BY <2>1, <2>2, <2>3 DEF TrackerMatchesVotes
\* What was measured before does not change.
<1>9. ASSUME NEW v \in Vals, NEW m \in Nat, NEW n \in Nat, n < height
      PROVE  missed'[v] \cap (m .. n) = missed[v] \cap (m .. n)
  BY <1>4, <1>9, <1>t
<1>10. EvidenceMatchesVotes'
  <2>1. ASSUME NEW p \in reported
        PROVE  missed'[p.val] \cap (p.start .. p.end) = missed[p.val] \cap (p.start .. p.end)
    <3>1. p.val \in Vals /\ p.start \in Nat /\ p.end \in Nat
      BY <1>t DEF Packets
    <3>2. p.end < height
      BY <1>6, <1>t, <3>1 DEF EvidenceWasReported
    <3> QED BY <1>9, <3>1, <3>2
  <2> QED BY <1>2, <2>1 DEF EvidenceMatchesVotes
<1>11. OffendersAreReported'
  <2>1. ASSUME NEW c \in closed, NEW v \in Vals
        PROVE  missed'[v] \cap (c.from .. c.to) = missed[v] \cap (c.from .. c.to)
    <3>1. c.from \in Nat /\ c.to \in Nat /\ c.to < height
      BY <1>6, <1>t
    <3> QED BY <1>9, <3>1
  <2> QED BY <1>2, <2>1 DEF OffendersAreReported
<1> QED BY <1>2, <1>5, <1>8, <1>10, <1>11
\* At the end of a window.
LEMMA ClosedWindowKeepsTracker ==
  ASSUME MBTypeOK, Tracker, EvidenceWasReported, height > 0, height < MaxHeight, height' = height + 1,
         NEW votes \in Votes, TrackMissedBlocks(height, votes), ClosesWindow(height)
  PROVE  /\ Tracker' /\ LastBoundary' = height
         /\ bitmap' \in [Vals -> SUBSET (0 .. MaxHeight)] /\ tracked' \in [Vals -> 0 .. MaxHeight]
         /\ missed' \in [Vals -> SUBSET (1 .. MaxHeight)]
         /\ closed' \subseteq [from : Nat, to : Nat, pair : Pairs]
         /\ reported' \subseteq Packets /\ IsFiniteSet(reported')
         /\ \A p \in reported' : p.start <= p.end /\ p.end <= height
         /\ \E new \in SUBSET reported' :
              /\ queue' = QueueEvidencePacket(queue, new) /\ reported' = reported \cup new
              /\ \A p \in new : p.end = height
<1> USE DEF Tracker
<1>1. PICK seen, bits : seen = Sightings(height, votes) /\ bits = Misses(height, votes)
  OBVIOUS
<1> DEFINE L == LastBoundary
           all == {EvidenceAgainst(height, v, seen, bits) : v \in {w \in Vals : bits[w] # {}}}
           c0 == [from |-> L + 1, to |-> height, pair |-> pair]
<1>2. PICK new : new = {p \in all : IsOffence(p)}
  OBVIOUS
<1>3. /\ bitmap' = [v \in Vals |-> {}] /\ tracked' = [v \in Vals |-> 0]
      /\ queue' = QueueEvidencePacket(queue, new) /\ reported' = reported \cup new
      /\ closed' = closed \cup {c0}
      /\ missed' = [v \in Vals |-> missed[v] \cup IF votes[v] = "absent" THEN {height} ELSE {}]
  <2>1. {p \in all : ClosesWindow(height) /\ IsOffence(p)} = new
    BY <1>2
  <2> HIDE DEF all
  <2>2. /\ bitmap' = [v \in Vals |-> {}] /\ tracked' = [v \in Vals |-> 0]
        /\ closed' = closed \cup {c0}
        /\ missed' = [v \in Vals |-> missed[v] \cup IF votes[v] = "absent" THEN {height} ELSE {}]
    BY DEF TrackMissedBlocks, ClearBitmap, ClearTracked
  <2>3. queue' = QueueEvidencePacket(queue, {p \in all : ClosesWindow(height) /\ IsOffence(p)})
        /\ reported' = reported \cup {p \in all : ClosesWindow(height) /\ IsOffence(p)}
    BY <1>1, Zenon DEF TrackMissedBlocks, all
  <2> QED BY <2>1, <2>2, <2>3, Zenon
<1>t. /\ height \in Nat /\ MaxHeight \in Nat /\ pair \in Pairs /\ pair.window \in Nat \ {0}
      /\ missed \in [Vals -> SUBSET (1 .. MaxHeight)] /\ reported \subseteq Packets
      /\ closed \subseteq [from : Nat, to : Nat, pair : Pairs] /\ IsFiniteSet(reported)
  BY MissedBlocksAssumption DEF MBTypeOK
<1>4. L \in Nat /\ L < height /\ \A c \in closed : c.to <= L
  BY BoundariesAreBehind
<1>5. ASSUME NEW p \in reported PROVE p.val \in Vals /\ p.start \in Nat /\ p.end \in Nat
                                      /\ p.start <= p.end /\ p.end <= L
  BY <1>t DEF EvidenceWasReported, Packets
<1>6. ASSUME NEW v \in Vals, bits[v] # {}, NEW p, p = EvidenceAgainst(height, v, seen, bits)
      PROVE  /\ p.val = v /\ p.end = height /\ p.pair = pair
             /\ p.start \in Nat /\ p.start > L /\ p.start <= height
             /\ height - p.start < pair.window
             /\ p.bits \subseteq 0 .. height /\ IsFiniteSet(p.bits)
             /\ {p.start + b : b \in p.bits} = missed'[v] \cap (p.start .. height)
             /\ missed'[v] \cap (p.start .. height) = missed'[v] \cap (L + 1 .. height)
             /\ p \in Packets
  <2>1. /\ p.val = v /\ p.end = height /\ p.pair = pair
        /\ p.start \in Nat /\ p.start > L /\ p.start <= height
        /\ height - p.start < pair.window
        /\ p.bits \subseteq 0 .. height /\ IsFiniteSet(p.bits)
        /\ {p.start + b : b \in p.bits} = missed'[v] \cap (p.start .. height)
        /\ missed'[v] \cap (p.start .. height) = missed'[v] \cap (L + 1 .. height)
    BY <1>1, <1>6, EvidenceIsTrue
  <2>2. p = [val |-> p.val, start |-> p.start, end |-> p.end, pair |-> p.pair, bits |-> p.bits]
    BY <1>6 DEF EvidenceAgainst
  <2>3. p.start \in 1 .. MaxHeight /\ p.end \in 1 .. MaxHeight /\ p.bits \in SUBSET (0 .. MaxHeight)
    BY <1>4, <1>t, <2>1
  <2>4. p \in Packets
    BY <1>t, <2>1, <2>2, <2>3 DEF Packets
  <2> QED BY <2>1, <2>4
<1>7. ASSUME NEW p \in new
      PROVE  /\ p.val \in Vals /\ bits[p.val] # {} /\ p = EvidenceAgainst(height, p.val, seen, bits)
             /\ IsOffence(p)
  BY <1>2, <1>6
<1> HIDE DEF L
<1>8. ASSUME NEW p \in new
      PROVE  /\ p.val \in Vals /\ p.end = height /\ p.pair = pair /\ p \in Packets
             /\ p.start \in Nat /\ p.start > L /\ p.start <= height
             /\ height - p.start < pair.window /\ Cardinality(p.bits) > MaxMissed(p.pair)
             /\ {p.start + b : b \in p.bits} = missed'[p.val] \cap (p.start .. height)
  <2>1. /\ p.val \in Vals /\ bits[p.val] # {} /\ p = EvidenceAgainst(height, p.val, seen, bits)
        /\ Cardinality(p.bits) > MaxMissed(p.pair)
    BY <1>7 DEF IsOffence
  <2> QED BY <1>6, <2>1
<1>9. /\ bitmap' \in [Vals -> SUBSET (0 .. MaxHeight)] /\ tracked' \in [Vals -> 0 .. MaxHeight]
      /\ missed' \in [Vals -> SUBSET (1 .. MaxHeight)]
      /\ closed' \subseteq [from : Nat, to : Nat, pair : Pairs]
  <2>1. bitmap' \in [Vals -> SUBSET (0 .. MaxHeight)] /\ tracked' \in [Vals -> 0 .. MaxHeight]
    BY <1>3, <1>t
  <2>2. missed' \in [Vals -> SUBSET (1 .. MaxHeight)]
    BY <1>3, <1>t
  <2>3. c0 \in [from : Nat, to : Nat, pair : Pairs]
    BY <1>4, <1>t
  <2> QED BY <1>3, <1>t, <2>1, <2>2, <2>3
<1>10. reported' \subseteq Packets /\ IsFiniteSet(reported')
  <2>1. IsFiniteSet(all)
    <3> DEFINE V == {w \in Vals : bits[w] # {}}
               f == [v \in V |-> EvidenceAgainst(height, v, seen, bits)]
    <3>1. IsFiniteSet(V)
      <4>1. V \in SUBSET Vals
        OBVIOUS
      <4> QED BY <4>1, MissedBlocksAssumption, FS_Subset
    <3>2. f \in [V -> all] /\ \A t \in all : \E v \in V : f[v] = t
      OBVIOUS
    <3>3. f \in Surjection(V, all)
      <4> HIDE DEF f, V, all
      <4> QED BY <3>2, Fun_IsSurj
    <3> HIDE DEF f, V, all
    <3> QED BY <3>1, <3>3, FS_Surjection
  <2>2. IsFiniteSet(new)
    <3>1. new \in SUBSET all
      BY <1>2
    <3> QED BY <2>1, <3>1, FS_Subset
  <2>3. new \subseteq Packets
    BY <1>8
  <2> QED BY <1>3, <1>t, <2>2, <2>3, FS_Union
<1>11. LastBoundary' = height
  <2>1. c0 \in closed' /\ c0.to = height
    BY <1>3
  <2>2. \A c \in closed' : c.to \in Nat
    BY <1>9
  <2>3. \A c \in closed' : c.to <= c0.to
    BY <1>3, <1>4, <1>t
  <2> HIDE DEF c0
  <2> QED BY <2>1, <2>2, <2>3, LastBoundaryIsNext
<1>12. \A p \in reported' : p.start <= p.end /\ p.end <= height
  BY <1>3, <1>4, <1>5, <1>8, <1>t
<1>13. ASSUME NEW v \in Vals, NEW m \in Nat, NEW n \in Nat, n < height
       PROVE  missed'[v] \cap (m .. n) = missed[v] \cap (m .. n)
  BY <1>3, <1>13, <1>t
<1>14. TrackerMatchesVotes'
  <2>1. ASSUME NEW v \in Vals PROVE missed'[v] \subseteq 1 .. height
    BY <1>1, VotesAreCounted
  <2>2. ASSUME NEW v \in Vals
        PROVE  /\ \A h \in missed'[v] : h < height'
               /\ {WindowStart(height)' + b : b \in bitmap'[v]} = {h \in missed'[v] : h > LastBoundary'}
               /\ tracked'[v] # 0 => LastBoundary' < tracked'[v] /\ tracked'[v] < height'
               /\ \A h \in missed'[v] : h > LastBoundary' => tracked'[v] # 0 /\ tracked'[v] <= h
    <3>1. bitmap'[v] = {} /\ tracked'[v] = 0
      BY <1>3
    <3>2. \A h \in missed'[v] : h \in Nat /\ h <= height
      BY <1>t, <2>1
    <3>3. {h \in missed'[v] : h > LastBoundary'} = {}
      BY <1>11, <1>t, <3>2
    <3> QED BY <1>11, <1>t, <3>1, <3>2, <3>3
  <2>3. \E c \in closed' : \A d \in closed' : d.to <= c.to
    <3>1. c0 \in closed' /\ \A c \in closed' : c.to <= c0.to
      BY <1>3, <1>4, <1>t
    <3> QED BY <3>1
  <2>4. LastBoundary' < height'
    BY <1>11, <1>t
  <2> QED BY <2>2, <2>3, <2>4 DEF TrackerMatchesVotes
<1>15. EvidenceMatchesVotes'
  <2> SUFFICES ASSUME NEW p \in reported'
               PROVE  /\ {p.start + b : b \in p.bits} = missed'[p.val] \cap (p.start .. p.end)
                      /\ Cardinality(p.bits) > MaxMissed(p.pair)
                      /\ p.end - p.start < p.pair.window
                      /\ \A q \in reported' \ {p} : q.val = p.val => (q.end < p.start \/ p.end < q.start)
    BY DEF EvidenceMatchesVotes
  <2>1. CASE p \in reported
    <3>1. /\ {p.start + b : b \in p.bits} = missed[p.val] \cap (p.start .. p.end)
          /\ Cardinality(p.bits) > MaxMissed(p.pair)
          /\ p.end - p.start < p.pair.window
          /\ \A q \in reported \ {p} : q.val = p.val => (q.end < p.start \/ p.end < q.start)
      BY <2>1 DEF EvidenceMatchesVotes
    <3>2. missed'[p.val] \cap (p.start .. p.end) = missed[p.val] \cap (p.start .. p.end)
      <4>1. p.val \in Vals /\ p.start \in Nat /\ p.end \in Nat /\ p.end < height
        BY <1>4, <1>5, <1>t, <2>1
      <4> QED BY <1>13, <4>1
    <3>3. \A q \in new : p.end < q.start
      BY <1>4, <1>5, <1>8, <2>1
    <3> QED BY <1>3, <3>1, <3>2, <3>3
  <2>2. CASE p \in new
    <3>1. \A q \in reported : q.end < p.start
      BY <1>4, <1>5, <1>8, <2>2
    <3>2. \A q \in new : q.val = p.val => q = p
      BY <1>7, <2>2
    <3> QED BY <1>3, <1>8, <2>2, <3>1, <3>2
  <2> QED BY <1>3, <2>1, <2>2
<1>16. OffendersAreReported'
  <2> SUFFICES ASSUME NEW c \in closed', NEW v \in Vals,
                      Cardinality(missed'[v] \cap (c.from .. c.to)) > MaxMissed(c.pair)
               PROVE  \E p \in reported' : p.val = v /\ p.end = c.to /\ p.pair = c.pair
    BY DEF OffendersAreReported
  <2>1. CASE c \in closed
    <3>1. missed'[v] \cap (c.from .. c.to) = missed[v] \cap (c.from .. c.to)
      <4>1. c.from \in Nat /\ c.to \in Nat /\ c.to < height
        BY <1>4, <1>t, <2>1
      <4> QED BY <1>13, <4>1
    <3>2. \E p \in reported : p.val = v /\ p.end = c.to /\ p.pair = c.pair
      BY <2>1, <3>1 DEF OffendersAreReported
    <3> QED BY <1>3, <3>2
  <2>2. CASE c = c0
    <3> DEFINE M == missed'[v] \cap (L + 1 .. height)
    <3>1. Cardinality(M) > MaxMissed(pair)
      BY <2>2
    <3>2. MaxMissed(pair) \in Nat
      BY <1>t, MaxMissedType
    <3>3. M # {}
      BY <3>1, <3>2, FS_EmptySet
    <3>4. bits[v] # {}
      <4>1. {WindowStart(height) + b : b \in bits[v]} = {h \in missed'[v] : h > L}
        BY <1>1, VotesAreCounted DEF L
      <4>2. PICK h \in missed'[v] : h \in L + 1 .. height
        BY <3>3
      <4>3. h > L
        BY <1>4, <4>2
      <4> QED BY <4>1, <4>2, <4>3
    <3>5. PICK p : p = EvidenceAgainst(height, v, seen, bits)
      OBVIOUS
    <3>6. /\ p.val = v /\ p.end = height /\ p.pair = pair /\ p.start \in Nat
          /\ p.bits \subseteq 0 .. height /\ IsFiniteSet(p.bits)
          /\ {p.start + b : b \in p.bits} = M
      <4>1. /\ {p.start + b : b \in p.bits} = missed'[v] \cap (p.start .. height)
            /\ missed'[v] \cap (p.start .. height) = M
        BY <1>6, <3>4, <3>5 DEF L
      <4>2. {p.start + b : b \in p.bits} = M
        BY <4>1, Zenon
      <4> QED BY <1>6, <3>4, <3>5, <4>2
    <3>7. Cardinality(M) = Cardinality(p.bits)
      <4>1. p.bits \in SUBSET Nat
        BY <1>t, <3>6
      <4>2. M = {p.start + b : b \in p.bits}
        BY <3>6
      <4>3. IsFiniteSet(p.bits) /\ p.start \in Nat
        BY <3>6
      <4> HIDE DEF M
      <4>4. PICK S, k : S = p.bits /\ k = p.start
        OBVIOUS
      <4>5. S \in SUBSET Nat /\ IsFiniteSet(S) /\ k \in Nat /\ M = {k + b : b \in S}
        BY <4>1, <4>2, <4>3, <4>4, Zenon
      <4>6. Cardinality(M) = Cardinality(S)
        BY <4>5, ShiftedSet
      <4> QED BY <4>4, <4>6
    <3>8. IsOffence(p)
      BY <3>1, <3>6, <3>7 DEF IsOffence
    <3>9. p \in new
      BY <1>2, <3>4, <3>5, <3>8
    <3> QED BY <1>3, <2>2, <3>6, <3>9
  <2> QED BY <1>3, <2>1, <2>2
<1>17. \A p \in new : p.end = height
  BY <1>8
<1> QED BY <1>3, <1>9, <1>10, <1>11, <1>12, <1>14, <1>15, <1>16, <1>17
\* Packets that are new, or come back from the flight, enter the queue.
LEMMA QueueingKeepsPlaces ==
  ASSUME Places, reported \subseteq reported', IsFiniteSet(reported'),
         \A e \in reported' : e.end \in Nat, \A e, f \in reported' : SameKey(e, f) => e = f,
         \A p \in reported' : p.start <= p.end /\ p.end <= LastBoundary',
         NEW new \in SUBSET reported', queue' = QueueEvidencePacket(queue, new),
         reported' \ reported \subseteq new,
         flight' \subseteq flight, \A m \in flight \ flight' : m.packet \in new,
         UNCHANGED <<accepted, refused>>,
         new \cap (queue \cup Flying' \cup accepted \cup Refused) = {}
  PROVE  Places'
<1> USE DEF Places
<1>1. queue \subseteq reported
  BY DEF EvidenceWasReported
<1>2. /\ queue' \subseteq queue \cup new
      /\ \A v \in Vals : Cardinality({e \in queue' : e.val = v}) <= MaxPending
      /\ \A p \in (queue \cup new) \ queue' :
           Cardinality({q \in reported' : q.val = p.val /\ q.end > p.end}) >= MaxPending
  <2>1. PICK R, S, Q : R = reported' /\ S = queue /\ Q = queue'
    OBVIOUS
  <2>2. S \in SUBSET R /\ new \in SUBSET R /\ S \cap new = {}
    BY <1>1, <2>1
  <2>3. IsFiniteSet(R) /\ Q = QueueEvidencePacket(S, new)
    BY <2>1
  <2>4. \A e \in R : e.end \in Nat
    BY <2>1
  <2>5. \A e, f \in R : SameKey(e, f) => e = f
    BY <2>1
  <2>6. Q \subseteq S \cup new
    BY <2>2, <2>3, <2>4, <2>5, QueueingEvictsOldest
  <2>7. \A v \in Vals : Cardinality({e \in Q : e.val = v}) <= MaxPending
    <3> SUFFICES ASSUME NEW v \in Vals PROVE Cardinality({e \in Q : e.val = v}) <= MaxPending
      OBVIOUS
    <3> QED BY <2>2, <2>3, <2>4, <2>5, QueueingEvictsOldest
  <2>8. \A p \in (S \cup new) \ Q :
          Cardinality({q \in R : q.val = p.val /\ q.end > p.end}) >= MaxPending
    BY <2>2, <2>3, <2>4, <2>5, QueueingEvictsOldest
  <2> QED BY <2>1, <2>6, <2>7, <2>8
<1>3. Flying' \subseteq Flying /\ Flying \subseteq Flying' \cup new /\ Refused' = Refused
  BY DEF Flying, Refused
<1>4. EvidenceIsInOnePlace'
  <2>1. /\ queue \cap (Flying \cup accepted \cup Refused) = {}
        /\ Flying \cap (accepted \cup Refused) = {}
        /\ accepted \cap Refused = {}
        /\ \A m, n \in flight : m.packet = n.packet => m = n
    BY DEF EvidenceIsInOnePlace
  <2>2. /\ queue' \cap (Flying' \cup accepted' \cup Refused') = {}
        /\ Flying' \cap (accepted' \cup Refused') = {}
        /\ accepted' \cap Refused' = {}
    BY <1>2, <1>3, <2>1
  <2>3. \A m, n \in flight' : m.packet = n.packet => m = n
    BY <2>1
  <2> QED BY <2>2, <2>3 DEF EvidenceIsInOnePlace
<1>5. EvidenceWasReported'
  <2>1. queue \cup Flying \cup accepted \cup Refused \subseteq reported
    BY DEF EvidenceWasReported
  <2>2. queue' \cup Flying' \cup accepted' \cup Refused' \subseteq reported'
    BY <1>2, <1>3, <2>1
  <2> QED BY <2>2 DEF EvidenceWasReported
<1>6. EvidenceIsLostToNewerOnly'
  <2>1. ASSUME NEW p \in reported' \ (queue' \cup Flying' \cup accepted' \cup Refused')
        PROVE  Cardinality({q \in reported' : q.val = p.val /\ q.end > p.end}) >= MaxPending
    <3>1. CASE p \in queue \cup new
      BY <1>2, <2>1, <3>1
    <3>2. CASE p \notin queue \cup new
      <4>1. p \in reported \ (queue \cup Flying \cup accepted \cup Refused)
        BY <1>3, <2>1, <3>2
      <4> DEFINE old == {q \in reported : q.val = p.val /\ q.end > p.end}
                 now == {q \in reported' : q.val = p.val /\ q.end > p.end}
      <4>2. Cardinality(old) >= MaxPending
        BY <4>1 DEF EvidenceIsLostToNewerOnly
      <4>3. old \in SUBSET now /\ now \in SUBSET reported'
        OBVIOUS
      <4> HIDE DEF old, now
      <4>4. IsFiniteSet(now) /\ IsFiniteSet(old) /\ Cardinality(old) <= Cardinality(now)
        BY <4>3, FS_Subset
      <4>5. Cardinality(old) \in Nat /\ Cardinality(now) \in Nat /\ MaxPending \in Nat
        BY <4>4, FS_CardinalityType, MissedBlocksAssumption
      <4>6. Cardinality(now) >= MaxPending
        BY <4>2, <4>4, <4>5
      <4> QED BY <4>6 DEF now
    <3> QED BY <3>1, <3>2
  <2> QED BY <1>2, <2>1 DEF EvidenceIsLostToNewerOnly
<1> QED BY <1>4, <1>5, <1>6

\* The next block makes no difference to what was judged.
LEMMA JudgementInNextBlock ==
  ASSUME MBTypeOK, Judgement, height' = height + 1, UNCHANGED <<refused, changes, previous, current>>
  PROVE  Judgement'
<1>1. height \in Nat
  BY MissedBlocksAssumption DEF MBTypeOK
<1>2. LastChangeIsRemembered'
  BY <1>1 DEF Judgement, LastChangeIsRemembered
<1>3. InFlightSurvivesAChange'
  BY DEF Judgement, InFlightSurvivesAChange
<1> QED BY <1>2, <1>3 DEF Judgement

LEMMA FirstBlockKeepsTracker ==
  ASSUME MBTypeOK, Tracker, height = 0, height' = 1, UNCHANGED trackVars
  PROVE  Tracker'
<1> USE DEF Tracker
<1>1. UNCHANGED <<pair, bitmap, tracked, missed, closed, reported>>
  BY DEF trackVars
<1>2. LastBoundary = 0 /\ LastBoundary' = 0
  <2>1. LastBoundary \in Nat
    BY BoundariesAreBehind
  <2>2. LastBoundary = 0
    BY <2>1 DEF TrackerMatchesVotes
  <2> QED BY <1>1, <2>2 DEF LastBoundary
<1>3. ASSUME NEW v \in Vals PROVE missed[v] = {} /\ bitmap[v] = {} /\ tracked[v] = 0
  <2>1. missed[v] \subseteq Nat /\ tracked[v] \in Nat
    BY DEF MBTypeOK
  <2>2. missed[v] = {}
    BY <2>1 DEF TrackerMatchesVotes
  <2>3. {WindowStart(height) + b : b \in bitmap[v]} = {}
    BY <2>2 DEF TrackerMatchesVotes
  <2>4. tracked[v] = 0
    BY <2>1 DEF TrackerMatchesVotes
  <2> QED BY <2>2, <2>3, <2>4
<1>4. TrackerMatchesVotes'
  <2>1. closed' # {} => \E c \in closed' : \A d \in closed' : d.to <= c.to
    BY <1>1 DEF TrackerMatchesVotes
  <2>2. \A v \in Vals : missed'[v] = {} /\ bitmap'[v] = {} /\ tracked'[v] = 0
    BY <1>1, <1>3
  <2> QED BY <1>2, <2>1, <2>2 DEF TrackerMatchesVotes
<1>5. EvidenceMatchesVotes' /\ OffendersAreReported'
  BY <1>1 DEF EvidenceMatchesVotes, OffendersAreReported
<1> QED BY <1>4, <1>5
\* Keys are unique also after the step.
LEMMA KeysAreUniqueNext ==
  ASSUME reported' \subseteq Packets, EvidenceMatchesVotes',
         \A p \in reported' : p.start <= p.end
  PROVE  /\ \A p \in reported' : p.end \in Nat
         /\ \A p, q \in reported' : SameKey(p, q) => p = q
<1>1. \A p \in reported' : p.start \in Nat /\ p.end \in Nat
  BY MissedBlocksAssumption DEF Packets
<1>2. ASSUME NEW p \in reported', NEW q \in reported', SameKey(p, q), p # q PROVE FALSE
  <2>1. q.end < p.start \/ p.end < q.start
    BY <1>2 DEF EvidenceMatchesVotes, SameKey
  <2> QED BY <1>1, <1>2, <2>1 DEF SameKey
<1> QED BY <1>1, <1>2

LEMMA BeginBlockKeepsIInv ==
  ASSUME IInv, NEW votes \in Votes, BeginBlock(votes)
  PROVE  IInv'
<1> USE DEF IInv
<1>1. /\ height < MaxHeight /\ height' = height + 1 /\ inBlock' = TRUE /\ voteless' = FALSE
      /\ UNCHANGED <<current, previous, launched, accepted, refused, changes, pauses,
                     vscs, published, watermark, flight, restarts>>
  BY DEF BeginBlock, providerVars
<1>t. /\ height \in Nat /\ MaxHeight \in Nat /\ queue \subseteq Packets /\ staged \in Pairs \cup {NoPair}
      /\ reported \subseteq Packets /\ IsFiniteSet(reported) /\ pair \in Pairs
  BY MissedBlocksAssumption DEF MBTypeOK
<1>2. Judgement'
  BY <1>1, JudgementInNextBlock
<1>3. CASE height = 0
  <2>1. UNCHANGED <<pair, bitmap, tracked, missed, closed, reported, staged, queue>> /\ UNCHANGED trackVars
    BY <1>3 DEF BeginBlock, trackVars
  <2>2. Tracker'
    BY <1>1, <1>3, <2>1, FirstBlockKeepsTracker
  <2>3. Places' /\ NextWindowFollowsProvider'
    BY <1>1, <2>1, PlacesStay, NextWindowStays
  <2>4. MBTypeOK'
    <3>1. height' \in 0 .. MaxHeight
      BY <1>1, <1>t
    <3> QED BY <1>1, <2>1, <3>1 DEF MBTypeOK
  <2> QED BY <1>2, <2>2, <2>3, <2>4
<1>4. CASE height > 0
  <2>1. TrackMissedBlocks(height, votes)
    BY <1>4 DEF BeginBlock
  <2>2. NextWindowFollowsProvider' /\ pair' \in Pairs /\ staged' \in Pairs \cup {NoPair}
    <3>1. \/ UNCHANGED <<pair, staged>>
          \/ staged # NoPair /\ pair' = staged /\ staged' = NoPair
      BY <2>1 DEF TrackMissedBlocks, applyStagedDowntimeParams
    <3> QED BY <1>1, <1>t, <3>1 DEF NextWindowFollowsProvider
  <2>3. EvidenceWasReported
    BY DEF Places
  <2>4. /\ Tracker'
        /\ bitmap' \in [Vals -> SUBSET (0 .. MaxHeight)] /\ tracked' \in [Vals -> 0 .. MaxHeight]
        /\ missed' \in [Vals -> SUBSET (1 .. MaxHeight)]
        /\ closed' \subseteq [from : Nat, to : Nat, pair : Pairs]
        /\ reported' \subseteq Packets /\ IsFiniteSet(reported')
        /\ \A p \in reported' : p.start <= p.end /\ p.end <= LastBoundary'
    <3>1. CASE ClosesWindow(height)
      BY <1>1, <1>4, <2>1, <2>3, <3>1, ClosedWindowKeepsTracker
    <3>2. CASE ~ClosesWindow(height)
      <4>1. /\ Tracker'
            /\ bitmap' \in [Vals -> SUBSET (0 .. MaxHeight)] /\ tracked' \in [Vals -> 0 .. MaxHeight]
            /\ missed' \in [Vals -> SUBSET (1 .. MaxHeight)]
            /\ UNCHANGED <<closed, reported>>
        BY <1>1, <1>4, <2>1, <2>3, <3>2, OpenWindowKeepsTracker
      <4>2. LastBoundary' = LastBoundary
        BY <4>1 DEF LastBoundary
      <4>3. \A p \in reported' : p.start <= p.end /\ p.end <= LastBoundary'
        BY <2>3, <4>1, <4>2 DEF EvidenceWasReported
      <4>4. closed' \subseteq [from : Nat, to : Nat, pair : Pairs]
        BY <4>1 DEF MBTypeOK
      <4> QED BY <1>t, <4>1, <4>3, <4>4
    <3> QED BY <3>1, <3>2
  <2>5. PICK new \in SUBSET reported' :
          /\ queue' = QueueEvidencePacket(queue, new) /\ reported' = reported \cup new
          /\ \A p \in new : p.end = height
    <3>1. CASE ClosesWindow(height)
      BY <1>1, <1>4, <2>1, <2>3, <3>1, ClosedWindowKeepsTracker
    <3>2. CASE ~ClosesWindow(height)
      <4>1. reported' = reported /\ queue' = QueueEvidencePacket(queue, {})
        BY <1>1, <1>4, <2>1, <2>3, <3>2, OpenWindowKeepsTracker
      <4>2. {} \in SUBSET reported' /\ reported' = reported \cup {}
        BY <4>1
      <4> QED BY <4>1, <4>2
    <3> QED BY <3>1, <3>2
  <2>6. Places'
    <3>1. new \cap reported = {}
      <4>1. LastBoundary \in Nat /\ LastBoundary < height
        BY <1>4, BoundariesAreBehind DEF Tracker
      <4>2. \A p \in reported : p.end \in Nat /\ p.end <= LastBoundary
        BY <1>t, <2>3, MissedBlocksAssumption DEF EvidenceWasReported, Packets
      <4> QED BY <1>t, <2>5, <4>1, <4>2
    <3>2. Flying' = Flying
      BY <1>1 DEF Flying
    <3>3. queue \cup Flying \cup accepted \cup Refused \subseteq reported
      BY <2>3 DEF EvidenceWasReported
    <3>4. new \cap (queue \cup Flying' \cup accepted \cup Refused) = {}
      BY <3>1, <3>2, <3>3
    <3>5. /\ \A p \in reported' : p.end \in Nat
          /\ \A p, q \in reported' : SameKey(p, q) => p = q
      BY <2>4, KeysAreUniqueNext DEF Tracker
    <3>6. /\ reported \subseteq reported' /\ reported' \ reported \subseteq new
          /\ flight' \subseteq flight /\ \A m \in flight \ flight' : m.packet \in new
          /\ UNCHANGED <<accepted, refused>>
      BY <1>1, <2>5
    <3> QED BY <2>4, <2>5, <3>4, <3>5, <3>6, QueueingKeepsPlaces
  <2>7. MBTypeOK'
    <3>1. queue' \subseteq Packets
      BY <2>4, <2>6 DEF Places, EvidenceWasReported
    <3>2. height' \in 0 .. MaxHeight
      BY <1>1, <1>t
    <3> QED BY <1>1, <2>2, <2>4, <3>1, <3>2 DEF MBTypeOK
  <2> QED BY <1>2, <2>2, <2>4, <2>6, <2>7
<1> QED BY <1>3, <1>4, <1>t
(***************************************************************************)
(* The way of the evidence.                                                *)
(***************************************************************************)
LEMMA EndBlockKeepsIInv ==
  ASSUME IInv, NEW up \in BOOLEAN, NEW failed \in SUBSET queue, EndBlock(up, failed)
  PROVE  IInv'
<1> USE DEF IInv
<1>1. PICK sent \in SUBSET queue :
        /\ queue' = queue \ sent
        /\ flight' = flight \cup {[packet |-> e, expires |-> height + Timeout] : e \in sent}
  <2>1. Sent(failed) \in SUBSET queue /\ {} \in SUBSET queue
    BY DEF Sent
  <2> QED BY <2>1 DEF EndBlock, Unsent
<1>2. /\ inBlock' = FALSE
      /\ UNCHANGED <<pair, bitmap, tracked, missed, closed, reported, current, previous, launched,
                     accepted, refused, changes, pauses, vscs, published, staged, watermark, height,
                     voteless, restarts>>
      /\ UNCHANGED trackVars
  BY DEF EndBlock, trackVars, providerVars, vscVars
<1>3. Tracker' /\ NextWindowFollowsProvider' /\ Judgement'
  BY <1>2, TrackerStays, NextWindowStays, JudgementStays
<1>t. /\ height \in Nat /\ Timeout \in Nat /\ queue \subseteq Packets /\ IsFiniteSet(reported)
  BY MissedBlocksAssumption DEF MBTypeOK
<1>4. \A m \in flight' : m \in flight \/ (m.packet \in sent /\ m = [packet |-> m.packet, expires |-> height + Timeout])
  BY <1>1
<1>5. Flying' = Flying \cup sent
  <2>1. ASSUME NEW e \in sent PROVE e \in Flying'
    <3>1. [packet |-> e, expires |-> height + Timeout] \in flight'
      BY <1>1
    <3> QED BY <3>1 DEF Flying
  <2>2. Flying \subseteq Flying'
    BY <1>1 DEF Flying
  <2>3. Flying' \subseteq Flying \cup sent
    BY <1>4 DEF Flying
  <2> QED BY <2>1, <2>2, <2>3
<1>6. MBTypeOK'
  <2>1. \A m \in flight' : m.packet \in Packets /\ m.expires \in Nat
    <3> SUFFICES ASSUME NEW m \in flight' PROVE m.packet \in Packets /\ m.expires \in Nat
      OBVIOUS
    <3>1. CASE m \in flight
      BY <3>1 DEF MBTypeOK
    <3>2. CASE m.packet \in sent /\ m = [packet |-> m.packet, expires |-> height + Timeout]
      BY <1>t, <3>2
    <3> QED BY <1>4, <3>1, <3>2
  <2> QED BY <1>1, <1>2, <2>1 DEF MBTypeOK
<1>7. /\ queue \cap (Flying \cup accepted \cup Refused) = {}
      /\ Flying \cap (accepted \cup Refused) = {}
      /\ accepted \cap Refused = {}
      /\ \A m, n \in flight : m.packet = n.packet => m = n
  BY DEF Places, EvidenceIsInOnePlace
<1>8. EvidenceIsInOnePlace'
  <2>1. Refused' = Refused
    BY <1>2 DEF Refused
  <2>2. \A m, n \in flight' : m.packet = n.packet => m = n
    BY <1>4, <1>7 DEF Flying
  <2> QED BY <1>1, <1>2, <1>5, <1>7, <2>1, <2>2 DEF EvidenceIsInOnePlace
<1>9. EvidenceWasReported'
  BY <1>1, <1>2, <1>5 DEF Places, EvidenceWasReported, Refused, LastBoundary
<1>10. EvidenceIsLostToNewerOnly'
  <2>1. ASSUME NEW v \in Vals PROVE Cardinality({e \in queue' : e.val = v}) <= MaxPending
    <3> DEFINE A == {e \in queue' : e.val = v}
               B == {e \in queue : e.val = v}
    <3>1. A \in SUBSET B /\ B \in SUBSET reported
      BY <1>1 DEF Places, EvidenceWasReported
    <3>2. Cardinality(B) <= MaxPending
      BY DEF Places, EvidenceIsLostToNewerOnly
    <3> HIDE DEF A, B
    <3>3. IsFiniteSet(B) /\ IsFiniteSet(A) /\ Cardinality(A) <= Cardinality(B)
      BY <1>t, <3>1, FS_Subset
    <3>4. Cardinality(A) \in Nat /\ Cardinality(B) \in Nat /\ MaxPending \in Nat
      BY <3>3, FS_CardinalityType, MissedBlocksAssumption
    <3>5. Cardinality(A) <= MaxPending
      BY <3>2, <3>3, <3>4
    <3> QED BY <3>5 DEF A
  <2>2. queue' \cup Flying' \cup accepted' \cup Refused' = queue \cup Flying \cup accepted \cup Refused
    BY <1>1, <1>2, <1>5 DEF Refused
  <2>3. \A p \in reported' \ (queue' \cup Flying' \cup accepted' \cup Refused') :
          Cardinality({q \in reported' : q.val = p.val /\ q.end > p.end}) >= MaxPending
    BY <1>2, <2>2 DEF Places, EvidenceIsLostToNewerOnly
  <2> QED BY <2>1, <2>3 DEF EvidenceIsLostToNewerOnly
<1> QED BY <1>3, <1>6, <1>8, <1>9, <1>10 DEF Places

LEMMA TimeoutKeepsIInv ==
  ASSUME IInv, NEW m \in flight, OnTimeoutPacket(m)
  PROVE  IInv'
<1> USE DEF IInv
<1>1. /\ flight' = flight \ {m} /\ queue' = QueueEvidencePacket(queue, {m.packet})
      /\ UNCHANGED <<pair, bitmap, tracked, missed, closed, reported, current, previous, launched,
                     accepted, refused, changes, pauses, vscs, published, staged, watermark, height,
                     inBlock, voteless, restarts>>
      /\ UNCHANGED trackVars
  BY DEF OnTimeoutPacket, RequeueEvidencePacket, trackVars, providerVars, vscVars, blockVars
<1>2. Tracker' /\ NextWindowFollowsProvider' /\ Judgement'
  BY <1>1, TrackerStays, NextWindowStays, JudgementStays
<1>t. reported \subseteq Packets /\ IsFiniteSet(reported)
  BY DEF MBTypeOK
<1>3. Places'
  <2>1. /\ queue \cup Flying \cup accepted \cup Refused \subseteq reported
        /\ \A p \in reported : p.start <= p.end /\ p.end <= LastBoundary
    BY DEF Places, EvidenceWasReported
  <2>2. m.packet \in Flying
    BY DEF Flying
  <2>3. /\ reported' = reported /\ LastBoundary' = LastBoundary
        /\ \A p \in reported' : p.start <= p.end /\ p.end <= LastBoundary'
    BY <1>1, <2>1 DEF LastBoundary
  <2>4. /\ \A p \in reported' : p.end \in Nat
        /\ \A p, q \in reported' : SameKey(p, q) => p = q
    BY <1>2, <1>t, <2>3, KeysAreUniqueNext DEF Tracker
  <2>5. m.packet \notin queue \cup Flying' \cup accepted \cup Refused
    BY <1>1, <2>2 DEF Places, EvidenceIsInOnePlace, Flying
  <2>6. PICK new : new = {m.packet}
    OBVIOUS
  <2>7. /\ new \in SUBSET reported' /\ new \cap (queue \cup Flying' \cup accepted \cup Refused) = {}
        /\ \A n \in flight \ flight' : n.packet \in new
    BY <1>1, <2>1, <2>2, <2>3, <2>5, <2>6
  <2>8. /\ reported \subseteq reported' /\ reported' \ reported \subseteq new /\ IsFiniteSet(reported')
        /\ flight' \subseteq flight /\ UNCHANGED <<accepted, refused>>
        /\ queue' = QueueEvidencePacket(queue, new)
    BY <1>1, <1>t, <2>3, <2>6
  <2> QED BY <2>3, <2>4, <2>7, <2>8, QueueingKeepsPlaces
<1>4. MBTypeOK'
  <2>1. queue' \subseteq Packets
    BY <1>1, <1>3, <1>t DEF Places, EvidenceWasReported
  <2> QED BY <1>1, <2>1 DEF MBTypeOK
<1> QED BY <1>2, <1>3, <1>4

\* A change taken back is not staged any more, and an old packet changes nothing.
LEMMA VSCPacketKeepsIInv ==
  ASSUME IInv, NEW id \in vscs, OnRecvVSCPacket(id)
  PROVE  IInv'
<1> USE DEF IInv
<1>1. /\ vscs' = vscs \ {id}
      /\ UNCHANGED <<pair, bitmap, tracked, missed, closed, reported, current, previous, launched,
                     accepted, refused, changes, pauses, height, inBlock, voteless, restarts,
                     published, queue, flight>>
      /\ UNCHANGED trackVars
  BY DEF OnRecvVSCPacket, trackVars, providerVars, blockVars
<1>2. \/ UNCHANGED <<staged, watermark>>
      \/ watermark' = id /\ staged' = IF published[id] = pair THEN NoPair ELSE published[id]
  BY DEF OnRecvVSCPacket, StageDowntimeParams
<1>3. Tracker' /\ Places' /\ Judgement'
  BY <1>1, TrackerStays, PlacesStay, JudgementStays
<1>t. /\ published \in Seq(Pairs) /\ id \in 1 .. Len(published) /\ published[id] \in Pairs
      /\ NoPair \notin Pairs /\ pair \in Pairs
  BY MissedBlocksAssumption DEF MBTypeOK
<1>4. NextWindowFollowsProvider'
  BY <1>1, <1>2, <1>t DEF NextWindowFollowsProvider
<1>5. MBTypeOK'
  <2>1. staged' \in Pairs \cup {NoPair} /\ watermark' \in 0 .. Len(published)
    BY <1>2, <1>t DEF MBTypeOK
  <2> QED BY <1>1, <2>1 DEF MBTypeOK
<1> QED BY <1>3, <1>4, <1>5

LEMMA RestartKeepsIInv ==
  ASSUME IInv, Restart
  PROVE  IInv'
<1> USE DEF IInv
<1>1. /\ voteless' = TRUE
      /\ UNCHANGED <<pair, bitmap, tracked, missed, closed, reported, current, previous, launched,
                     accepted, refused, changes, pauses, vscs, published, staged, watermark, height,
                     inBlock, queue, flight>>
      /\ UNCHANGED trackVars
  BY DEF Restart, trackVars, providerVars, vscVars, exportMissedBlockBitmaps,
         exportFirstTrackedHeights, exportPendingEvidencePackets
<1>2. Tracker' /\ Places' /\ NextWindowFollowsProvider' /\ Judgement'
  BY <1>1, TrackerStays, PlacesStay, NextWindowStays, JudgementStays
<1>3. MBTypeOK'
  BY <1>1 DEF MBTypeOK
<1> QED BY <1>2, <1>3
(***************************************************************************)
(* The provider.                                                           *)
(***************************************************************************)
LEMMA QueueVSCKeepsIInv ==
  ASSUME IInv, QueueVSCPackets
  PROVE  IInv'
<1> USE DEF IInv
<1>1. /\ Len(published) < MaxVscs /\ published' = Append(published, current)
      /\ vscs' = vscs \cup {Len(published) + 1}
      /\ UNCHANGED <<pair, bitmap, tracked, missed, closed, reported, current, previous, launched,
                     accepted, refused, changes, pauses, height, inBlock, voteless, restarts,
                     staged, watermark, queue, flight>>
      /\ UNCHANGED trackVars
  BY DEF QueueVSCPackets, trackVars, providerVars, blockVars
<1>2. Tracker' /\ Places' /\ Judgement'
  BY <1>1, TrackerStays, PlacesStay, JudgementStays
<1>t. published \in Seq(Pairs) /\ current \in Pairs /\ watermark \in 0 .. Len(published)
      /\ Len(published) \in Nat /\ MaxVscs \in Nat
  BY MissedBlocksAssumption DEF MBTypeOK
<1>3. /\ published' \in Seq(Pairs) /\ Len(published') = Len(published) + 1
      /\ \A i \in 1 .. Len(published) : published'[i] = published[i]
  BY <1>1, <1>t
<1>4. NextWindowFollowsProvider'
  BY <1>1, <1>3, <1>t DEF NextWindowFollowsProvider
<1>5. MBTypeOK'
  <2>1. /\ Len(published') <= MaxVscs /\ watermark' \in 0 .. Len(published')
    BY <1>1, <1>3, <1>t
  <2>2. vscs' \subseteq 1 .. Len(published')
    <3>1. vscs \subseteq 1 .. Len(published)
      BY DEF MBTypeOK
    <3>2. PICK n \in Nat : n = Len(published)
      BY <1>t
    <3>3. vscs' = vscs \cup {n + 1} /\ Len(published') = n + 1
      BY <1>1, <1>3, <3>2
    <3>4. \A i \in vscs' : i \in 1 .. n + 1
      BY <3>1, <3>2, <3>3
    <3>5. vscs' \subseteq 1 .. n + 1
      BY <3>4
    <3> QED BY <3>3, <3>5, Zenon
  <2> QED BY <1>1, <1>3, <2>1, <2>2 DEF MBTypeOK
<1> QED BY <1>2, <1>4, <1>5

LEMMA UpdateKeepsIInv ==
  ASSUME IInv, NEW q \in Pairs, UpdateInfractionParams(q)
  PROVE  IInv'
<1> USE DEF IInv
<1> DEFINE c0 == [pair |-> current, at |-> height]
<1>1. /\ q # current /\ current' = q /\ previous' = {c0} /\ changes' = changes \cup {c0}
      /\ UNCHANGED <<pair, bitmap, tracked, missed, closed, reported, height, inBlock, voteless,
                     restarts, vscs, published, staged, watermark, queue, flight, launched,
                     accepted, refused, pauses>>
      /\ UNCHANGED trackVars
  BY DEF UpdateInfractionParams, SupersededBy, trackVars, blockVars, vscVars
<1>2. Tracker' /\ Places' /\ NextWindowFollowsProvider'
  BY <1>1, TrackerStays, PlacesStay, NextWindowStays
<1>t. height \in Nat /\ height \in 0 .. MaxHeight /\ current \in Pairs
  BY MissedBlocksAssumption DEF MBTypeOK
<1>3. MBTypeOK'
  BY <1>1, <1>t DEF MBTypeOK
<1>4. /\ \A d \in changes : d.at \in Nat /\ d.at <= height
      /\ \A r \in refused :
           /\ r.at \in Nat /\ r.at <= height
           /\ r.forPair /\ r.at = height /\ r.packet.pair = current
                => \E d \in changes : d.at = height /\ d.pair # current
  BY <1>t DEF Judgement, LastChangeIsRemembered
<1>5. c0.pair = current /\ c0.at = height
  OBVIOUS
<1> HIDE DEF c0
<1>6. LastChangeIsRemembered'
  <2>1. \A s \in previous' : s \in changes' /\ \A d \in changes' : d.at <= s.at
    BY <1>1, <1>4, <1>5, <1>t
  <2>2. \A d \in changes' : d.at \in 0 .. height'
    BY <1>1, <1>4, <1>5, <1>t
  <2>3. \A r \in refused' :
          /\ r.at \in 0 .. height'
          /\ r.forPair /\ r.at = height' /\ r.packet.pair = current'
               => \E d \in changes' : d.at = height' /\ d.pair # current'
    <3>1. c0 \in changes' /\ c0.at = height' /\ c0.pair # current'
      BY <1>1, <1>5
    <3> QED BY <1>1, <1>4, <1>t, <3>1
  <2> QED BY <1>1, <2>1, <2>2, <2>3 DEF LastChangeIsRemembered
\* Evidence refused before this change was not refused for the pair it replaces, unless
\* there was another change at the same height.
<1>7. InFlightSurvivesAChange'
  <2> SUFFICES ASSUME NEW r \in refused, NEW c \in changes',
                      \A d \in changes' \ {c} : d.at < c.at \/ d.at > r.at,
                      r.forPair, r.packet.pair = c.pair, r.packet.end < c.at,
                      c.at <= r.at, r.at - c.at <= MaxAge + Challenge
               PROVE  FALSE
    BY <1>1 DEF InFlightSurvivesAChange
  <2>1. CASE c \in changes
    BY <1>1, <2>1 DEF Judgement, InFlightSurvivesAChange
  <2>2. CASE c = c0
    <3>1. r.at = height /\ r.packet.pair = current
      BY <1>4, <1>5, <1>t, <2>2
    <3>2. PICK d \in changes : d.at = height /\ d.pair # current
      BY <1>4, <3>1
    <3>3. d \in changes' \ {c} /\ ~(d.at < c.at) /\ ~(d.at > r.at)
      BY <1>1, <1>5, <1>t, <2>2, <3>1, <3>2
    <3> QED BY <3>3
  <2> QED BY <1>1, <2>1, <2>2
<1> QED BY <1>2, <1>3, <1>6, <1>7 DEF Judgement

LEMMA PauseOrResumeKeepsIInv ==
  ASSUME IInv, PauseOrResume
  PROVE  IInv'
<1> USE DEF IInv
<1>1. /\ UNCHANGED <<pair, bitmap, tracked, missed, closed, reported, height, inBlock, voteless,
                     restarts, vscs, published, staged, watermark, queue, flight, current,
                     previous, accepted, refused, changes>>
      /\ UNCHANGED trackVars
  BY DEF PauseOrResume, trackVars, blockVars, vscVars
<1>2. Tracker' /\ Places' /\ NextWindowFollowsProvider' /\ Judgement'
  BY <1>1, TrackerStays, PlacesStay, NextWindowStays, JudgementStays
<1>3. launched' \in BOOLEAN
  BY DEF PauseOrResume
<1>4. MBTypeOK'
  BY <1>1, <1>3 DEF MBTypeOK
<1> QED BY <1>2, <1>4

\* The provider judges a packet: it leaves the flight for one of two places.
LEMMA RecvEvidenceKeepsIInv ==
  ASSUME IInv, NEW m \in flight, OnRecvEvidence(m)
  PROVE  IInv'
<1> USE DEF IInv
<1> DEFINE p == m.packet
<1>1. PICK r0 : r0 = [packet |-> p, at |-> height, forPair |-> launched /\ ~AcceptableDowntimeParams(p.pair)]
  OBVIOUS
<1>2. /\ flight' = flight \ {m}
      /\ UNCHANGED <<pair, bitmap, tracked, missed, closed, reported, height, inBlock, voteless,
                     restarts, vscs, published, staged, watermark, queue, current, previous,
                     launched, changes, pauses>>
      /\ UNCHANGED trackVars
  BY DEF OnRecvEvidence, trackVars, blockVars, vscVars
<1>3. \/ accepted' = accepted \cup {p} /\ refused' = refused
      \/ accepted' = accepted /\ refused' = refused \cup {r0}
  BY <1>1, Zenon DEF OnRecvEvidence
<1>4. r0.packet = p /\ r0.at = height /\ (r0.forPair => ~AcceptableDowntimeParams(p.pair))
  <2>1. r0.packet = p /\ r0.at = height /\ r0.forPair = (launched /\ ~AcceptableDowntimeParams(p.pair))
    BY <1>1
  <2> QED BY <2>1
<1>5. Tracker' /\ NextWindowFollowsProvider'
  BY <1>2, TrackerStays, NextWindowStays
<1>t. /\ height \in Nat /\ p \in Packets /\ reported \subseteq Packets
  BY MissedBlocksAssumption DEF MBTypeOK
<1>6. MBTypeOK'
  <2>1. accepted' \subseteq Packets
    BY <1>3, <1>t DEF MBTypeOK
  <2> QED BY <1>2, <2>1 DEF MBTypeOK
<1>7. Places'
  <2>1. /\ queue \cap (Flying \cup accepted \cup Refused) = {}
        /\ Flying \cap (accepted \cup Refused) = {}
        /\ accepted \cap Refused = {}
        /\ \A k, n \in flight : k.packet = n.packet => k = n
    BY DEF Places, EvidenceIsInOnePlace
  <2>2. p \in Flying /\ Flying' = Flying \ {p}
    BY <1>2, <2>1 DEF Flying
  <2>3. \/ accepted' = accepted \cup {p} /\ Refused' = Refused
        \/ accepted' = accepted /\ Refused' = Refused \cup {p}
    <3>1. CASE accepted' = accepted \cup {p} /\ refused' = refused
      BY <3>1 DEF Refused
    <3>2. CASE accepted' = accepted /\ refused' = refused \cup {r0}
      <4>1. Refused' = Refused \cup {r0.packet}
        BY <3>2 DEF Refused
      <4> QED BY <1>4, <3>2, <4>1
    <3> QED BY <1>3, <3>1, <3>2
  <2>4. EvidenceIsInOnePlace'
    <3>1. \A k, n \in flight' : k.packet = n.packet => k = n
      BY <1>2, <2>1
    <3> HIDE DEF p
    <3>2. /\ queue' \cap (Flying' \cup accepted' \cup Refused') = {}
          /\ Flying' \cap (accepted' \cup Refused') = {}
          /\ accepted' \cap Refused' = {}
      BY <1>2, <2>1, <2>2, <2>3
    <3> QED BY <3>1, <3>2 DEF EvidenceIsInOnePlace
  <2>5. queue' \cup Flying' \cup accepted' \cup Refused' = queue \cup Flying \cup accepted \cup Refused
    <3> HIDE DEF p
    <3> QED BY <1>2, <2>2, <2>3
  <2>6. EvidenceIsLostToNewerOnly' /\ EvidenceWasReported'
    BY <1>2, <2>5 DEF Places, EvidenceIsLostToNewerOnly, EvidenceWasReported, LastBoundary
  <2> QED BY <2>4, <2>6 DEF Places
<1>8. /\ \A s \in previous : s \in changes /\ \A d \in changes : d.at <= s.at
      /\ changes # {} => previous # {}
      /\ \A d \in changes : d.at \in Nat /\ d.at <= height
  BY <1>t DEF Judgement, LastChangeIsRemembered
<1>9. refused' \subseteq refused \cup {r0}
  BY <1>3
<1>10. LastChangeIsRemembered'
  <2>1. \A r \in refused' :
          /\ r.at \in 0 .. height
          /\ r.forPair /\ r.at = height /\ r.packet.pair = current
               => \E d \in changes : d.at = height /\ d.pair # current
    <3> SUFFICES ASSUME NEW r \in refused'
                 PROVE  /\ r.at \in 0 .. height
                        /\ r.forPair /\ r.at = height /\ r.packet.pair = current
                             => \E d \in changes : d.at = height /\ d.pair # current
      OBVIOUS
    <3>1. CASE r \in refused
      BY <3>1 DEF Judgement, LastChangeIsRemembered
    <3>2. CASE r = r0
      <4>1. r.at \in 0 .. height
        BY <1>4, <1>t, <3>2
      <4>2. r.forPair => r.packet.pair # current
        BY <1>4, <3>2 DEF AcceptableDowntimeParams
      <4> QED BY <4>1, <4>2
    <3> QED BY <1>9, <3>1, <3>2
  <2> QED BY <1>2, <2>1 DEF Judgement, LastChangeIsRemembered
<1>11. InFlightSurvivesAChange'
  <2> SUFFICES ASSUME NEW r \in refused', NEW c \in changes,
                      \A d \in changes \ {c} : d.at < c.at \/ d.at > r.at,
                      r.forPair, r.packet.pair = c.pair, r.packet.end < c.at,
                      c.at <= r.at, r.at - c.at <= MaxAge + Challenge
               PROVE  FALSE
    BY <1>2 DEF InFlightSurvivesAChange
  <2>1. CASE r \in refused
    BY <2>1 DEF Judgement, InFlightSurvivesAChange
  <2>2. CASE r = r0
    <3>1. PICK s \in previous : TRUE
      BY <1>8
    <3>2. s \in changes /\ c.at <= s.at /\ s.at \in Nat /\ s.at <= height /\ c.at \in Nat
      BY <1>8
    <3>3. r.at = height
      BY <1>4, <2>2
    <3>4. s = c
      BY <1>t, <3>2, <3>3
    <3>5. p.pair = s.pair /\ height - s.at <= MaxAge + Challenge
      BY <1>4, <2>2, <3>3, <3>4
    <3>6. AcceptableDowntimeParams(p.pair)
      BY <3>5 DEF AcceptableDowntimeParams
    <3> QED BY <1>4, <2>2, <3>6
  <2> QED BY <1>9, <2>1, <2>2
<1> QED BY <1>5, <1>6, <1>7, <1>10, <1>11 DEF Judgement
(***************************************************************************)
(* The theorems.                                                           *)
(***************************************************************************)
LEMMA InitIsSound == Init => IInv
<1> SUFFICES ASSUME Init PROVE IInv
  OBVIOUS
<1> USE DEF Init
<1>1. MBTypeOK
  <2>1. /\ bitmap \in [Vals -> SUBSET (0 .. MaxHeight)] /\ tracked \in [Vals -> 0 .. MaxHeight]
        /\ missed \in [Vals -> SUBSET (1 .. MaxHeight)]
    BY MissedBlocksAssumption
  <2>b. inBlock \in BOOLEAN /\ voteless \in BOOLEAN /\ launched \in BOOLEAN
    BY Zenon
  <2>2. height \in 0 .. MaxHeight /\ pair \in Pairs /\ current \in Pairs /\ staged \in Pairs \cup {NoPair}
    BY MissedBlocksAssumption
  <2>3. /\ published \in Seq(Pairs) /\ Len(published) <= MaxVscs
        /\ vscs \subseteq 1 .. Len(published) /\ watermark \in 0 .. Len(published)
    BY MissedBlocksAssumption
  <2>4. /\ queue \subseteq Packets /\ accepted \subseteq Packets /\ reported \subseteq Packets
        /\ \A m \in flight : m.packet \in Packets /\ m.expires \in Nat
        /\ \A s \in previous : s.pair \in Pairs /\ s.at \in 0 .. MaxHeight
        /\ closed \subseteq [from : Nat, to : Nat, pair : Pairs] /\ IsFiniteSet(reported)
    BY FS_EmptySet
  <2> QED BY <2>1, <2>2, <2>3, <2>4, <2>b, Zenon DEF MBTypeOK
<1>2. Tracker
  <2>1. LastBoundary = 0
    BY DEF LastBoundary
  <2>2. \A v \in Vals : bitmap[v] = {} /\ missed[v] = {} /\ tracked[v] = 0
    OBVIOUS
  <2> QED BY <2>1, <2>2 DEF Tracker, TrackerMatchesVotes, EvidenceMatchesVotes, OffendersAreReported
<1>3. Places
  <2>1. Flying = {} /\ Refused = {}
    BY DEF Flying, Refused
  <2>2. \A v \in Vals : Cardinality({e \in queue : e.val = v}) <= MaxPending
    <3> SUFFICES ASSUME NEW v \in Vals PROVE Cardinality({e \in queue : e.val = v}) <= MaxPending
      OBVIOUS
    <3>1. {e \in queue : e.val = v} = {}
      OBVIOUS
    <3>2. Cardinality({e \in queue : e.val = v}) = 0
      BY <3>1, FS_EmptySet
    <3> QED BY <3>2, MissedBlocksAssumption
  <2>3. EvidenceIsInOnePlace /\ EvidenceWasReported
    BY <2>1 DEF EvidenceIsInOnePlace, EvidenceWasReported
  <2> QED BY <2>2, <2>3 DEF Places, EvidenceIsLostToNewerOnly
<1>4. NextWindowFollowsProvider /\ Judgement
  BY DEF NextWindowFollowsProvider, Judgement, LastChangeIsRemembered, InFlightSurvivesAChange
<1> QED BY <1>1, <1>2, <1>3, <1>4 DEF IInv

LEMMA NextKeepsIInv == IInv /\ [Next]_mbVars => IInv'
<1> SUFFICES ASSUME IInv, [Next]_mbVars PROVE IInv'
  OBVIOUS
<1>1. CASE \E votes \in [Vals -> {"signed", "absent", "out"}] : BeginBlock(votes)
  BY <1>1, BeginBlockKeepsIInv DEF Votes
<1>2. CASE \E up \in BOOLEAN, failed \in SUBSET queue : EndBlock(up, failed)
  BY <1>2, EndBlockKeepsIInv
<1>3. CASE \E m \in flight : OnTimeoutPacket(m)
  BY <1>3, TimeoutKeepsIInv
<1>4. CASE \E id \in vscs : OnRecvVSCPacket(id)
  BY <1>4, VSCPacketKeepsIInv
<1>5. CASE Restart
  BY <1>5, RestartKeepsIInv
<1>6. CASE QueueVSCPackets
  BY <1>6, QueueVSCKeepsIInv
<1>7. CASE \E q \in Pairs : UpdateInfractionParams(q)
  BY <1>7, UpdateKeepsIInv
<1>8. CASE PauseOrResume
  BY <1>8, PauseOrResumeKeepsIInv
<1>9. CASE \E m \in flight : OnRecvEvidence(m)
  BY <1>9, RecvEvidenceKeepsIInv
<1>10. CASE UNCHANGED mbVars
  <2>1. /\ UNCHANGED <<pair, bitmap, tracked, missed, closed, reported, current, previous, launched,
                       accepted, refused, changes, pauses, vscs, published, staged, watermark,
                       height, inBlock, voteless, restarts, queue, flight>>
        /\ UNCHANGED trackVars
    BY <1>10 DEF mbVars, trackVars, providerVars, blockVars, vscVars
  <2>2. Tracker' /\ Places' /\ NextWindowFollowsProvider' /\ Judgement'
    BY <2>1, TrackerStays, PlacesStay, NextWindowStays, JudgementStays DEF IInv
  <2>3. MBTypeOK'
    BY <2>1 DEF IInv, MBTypeOK
  <2> QED BY <2>2, <2>3 DEF IInv
<1> QED BY <1>1, <1>2, <1>3, <1>4, <1>5, <1>6, <1>7, <1>8, <1>9, <1>10 DEF Next

LEMMA Invariance == Spec => []IInv
  BY InitIsSound, NextKeepsIInv, PTL DEF Spec

\* Every reported packet is queued, in flight, accepted or refused, exactly one of them,
\* unless as many newer ones of its validator as the queue holds pushed it out: sends
\* that fail, timeouts and restarts neither lose nor duplicate evidence.
THEOREM EvidenceIsAccountedFor == Spec => []MBInv
<1>1. IInv => MBInv
  BY DEF IInv, Tracker, Places, Judgement, MBInv
<1> QED BY <1>1, Invariance, PTL

\* closeWindow reports exactly the heights the validator missed since it was first seen
\* in the window, and no height of a validator is in two packets.
THEOREM EvidenceIsExact == Spec => []EvidenceMatchesVotes
<1>1. IInv => EvidenceMatchesVotes
  BY DEF IInv, Tracker
<1> QED BY <1>1, Invariance, PTL

\* closeWindow reports everyone who missed more of the window than the pair in force allows.
THEOREM NoOffenderEscapes == Spec => []OffendersAreReported
<1>1. IInv => OffendersAreReported
  BY DEF IInv, Tracker
<1> QED BY <1>1, Invariance, PTL

\* Staging, reverting and applying leave the consumer with the newest pair it received.
THEOREM ConsumerFollowsTheNewestPair == Spec => []NextWindowFollowsProvider
<1>1. IInv => NextWindowFollowsProvider
  BY DEF IInv
<1> QED BY <1>1, Invariance, PTL

\* One superseded pair is enough for the evidence on its way at a single change.
THEOREM ChangesSpareEvidenceInFlight == Spec => []InFlightSurvivesAChange
<1>1. IInv => InFlightSurvivesAChange
  BY DEF IInv, Judgement
<1> QED BY <1>1, Invariance, PTL
=============================================================================

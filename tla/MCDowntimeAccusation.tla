------------------------- MODULE MCDowntimeAccusation -------------------------
(***************************************************************************)
(* Instances of DowntimeAccusation for TLC.                                *)
(***************************************************************************)
EXTENDS DowntimeAccusation, TLC

CONSTANTS v1, v2, a1, a2, a3,
  KeyChangesEnd, \* bound: how long keys may change if nobody leaves
  EvidenceEnd    \* bound: until when evidence is accepted, where keys change

OneValidator  == v1 :> a1
TwoValidators == (v1 :> a1) @@ (v2 :> a2)

Param(cw, age) == [challenge |-> cw, maxAge |-> age]
Win(s, e) == [start |-> s, end |-> e]

LateParams == Param(2, 2)
LongParams == Param(3, 2)
OnlyLate   == {LateParams}
GovernedParams == {LateParams, LongParams}

\* Overlapping, adjacent and containing windows.
ManyWindows == {Win(1, 1), Win(1, 2), Win(2, 3), Win(3, 3)}
TwoWindows == {Win(1, 1), Win(2, 2)}

\* What the theorems suppose holds of the instances.
ASSUME HypothesesAssumption == UnbondingOutlastsRecords

\* No transaction carries two messages.
OneMessageEach == checked' \in {Addrs, ConsumerConsAddrsInUse}

KeysUntouched ==
  /\ live = InitialAddr /\ leftAt = [v \in Validators |-> 0]
  /\ \A c \in Consumers : key[c] = [a \in Addrs |-> NoAddr]

Keyless(v) == \A c \in Consumers : Exists(v) => key[c][live[v]] = NoAddr
Unrotated(v) == live[v] = InitialAddr[v] /\ rotations[v] = NoAddr

(***************************************************************************)
(* The instance is the union of smaller ones: every window and both        *)
(* parameter sets, for a validator whose keys stay as they are; and the    *)
(* first block under the initial parameters, for as long as it takes one   *)
(* that leaves early to go and come back, where                            *)
(*   - nobody leaves, and v2 assigns and rotates,                          *)
(*   - v1 may leave, v2 rotates, and assigns once v1 may have gone, or     *)
(*   - v1 assigns keys and may leave.                                      *)
(***************************************************************************)
EveryWindow ==
  KeysUntouched /\ \A c \in Consumers : accused[c] \subseteq Validators \X {a1} \X Nat

FirstBlock ==
  /\ params = InitialParams /\ now <= Unbonding + 2
  /\ \A c \in Consumers :
       /\ accused[c] \subseteq Validators \X Addrs \X {1}
       /\ \A e \in accepted[c] : e.at <= EvidenceEnd
       /\ \A e \in pending[c] : e.tokens > 0 /\ e.maturesAt <= now + params.challenge

LeavesEarly ==
  now <= EvidenceEnd \/ now > Unbonding \/ \A v \in Leavers : leftAt[v] \in 1 .. EvidenceEnd

WindowsOrKeys ==
  \/ EveryWindow
  \/ /\ FirstBlock
     /\ \/ now <= KeyChangesEnd /\ (\A v \in Validators : leftAt[v] = 0) /\ Keyless(v1)
        \/ LeavesEarly /\ Keyless(v1) /\ (Keyless(v2) \/ now > Unbonding)
        \/ LeavesEarly /\ Keyless(v2) /\ Unrotated(v2)
=============================================================================

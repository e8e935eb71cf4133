--------------------------- MODULE MCEquivocation ---------------------------
(***************************************************************************)
(* Instances of Equivocation for TLC.                                      *)
(***************************************************************************)
EXTENDS Equivocation, TLC

CONSTANTS v1, v2, a1, a2, a3, a4, x,
  FirstTime,  \* bounds: when the latest set is computed that is noted, where votes
  SecondTime  \*   are cast or a validator may leave, and where not

OneValidator  == v1 :> a1
TwoValidators == (v1 :> a1) @@ (v2 :> a2)

\* Addresses nobody has at the start.
FreshSymmetry == Permutations({a3, a4})

FirstHeight == [c \in Consumers |-> 1]

OneConsumer == chain[1] \in {NoChain, x} /\ chain[2] = NoChain
NobodyLeft == \A v \in Validators : leftAt[v] = 0
StillThere(v) == leftAt[v] # 0 => jailedUntil[v] # 0
NoVote == votes = {} /\ tombstone /\ \A v \in Validators : jailedUntil[v] = 0
OneVote == Cardinality(votes) <= 1 /\ \A e \in votes : e.height = 1
SetsUntil(t) == \A s \in seen : s.at <= t
Alone(v) == \A w \in Validators \ {v} :
  /\ \A e \in votes : e.val = v
  /\ leftAt[w] = 0 /\ \A c \in Consumers : key[c][live[w]] = NoAddr
KeysUntouched ==
  /\ live = InitialAddr /\ rotations = [v \in Validators |-> NoAddr]
  /\ key = [c \in Consumers |-> NoKeys] /\ byAddr = [c \in Consumers |-> NoKeys]
  /\ slipped = {} /\ \A s \in seen : s.addr = InitialAddr[s.val]

(***************************************************************************)
(* The instance is the union of smaller ones.  The keys of one consumer    *)
(* and no votes: nobody leaves and a rotation may slip past the ante       *)
(* handler; or none slips, and a validator may leave and return.           *)
(***************************************************************************)
KeyParts ==
  /\ OneConsumer /\ NoVote
  /\ \/ NobodyLeft /\ SetsUntil(SecondTime)
     \/ slipped = {} /\ SetsUntil(FirstTime)

(***************************************************************************)
(* A validator signs twice at two heights of one consumer; signs at one    *)
(* height, and may leave and return; shares the consumer with another      *)
(* validator, while none is tombstoned; two consumers have or take the     *)
(* same chain id, while no key changes.                                    *)
(***************************************************************************)
VoteParts ==
  \/ /\ OneConsumer /\ slipped = {}
     /\ \/ Alone(v1) /\ StillThere(v1) /\ now <= Unbonding
        \/ Alone(v1) /\ OneVote /\ SetsUntil(FirstTime)
        \/ /\ SetsUntil(FirstTime) /\ OneVote /\ ~tombstone
           /\ \A v \in Validators : StillThere(v)
  \/ KeysUntouched /\ OneVote /\ \A v \in Validators : StillThere(v)

AllParts == now < EndOfTime /\ (KeyParts \/ VoteParts)
=============================================================================

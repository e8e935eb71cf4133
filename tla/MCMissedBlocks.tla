---------------------------- MODULE MCMissedBlocks ----------------------------
(***************************************************************************)
(* Instances of MissedBlocks for TLC: windows of two and three blocks, of  *)
(* which a validator must sign at least half.                              *)
(***************************************************************************)
EXTENDS MissedBlocks

CONSTANTS
  FirstVal,     \* the validator that parameters change for
  ChangesUntil, \* bound: the blocks of the first part
  TwoValsUntil  \* bound: the blocks of the second part

Two == [window |-> 2, minSigned |-> 5]
Three == [window |-> 3, minSigned |-> 5]

TwoPairs == {Two, Three}

(***************************************************************************)
(* The instance is the union of two: one validator under changing          *)
(* parameters, and two validators under the initial ones.                  *)
(***************************************************************************)
ChangesOrTwoVals ==
  \/ /\ \A v \in Vals \ {FirstVal} : tracked[v] = 0 /\ missed[v] = {}
     /\ pauses = 0 /\ height <= ChangesUntil
  \/ /\ changes = {} /\ published = <<>>
     /\ height <= TwoValsUntil
=============================================================================

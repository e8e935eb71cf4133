--------------------------- MODULE MCKeyAssignment ---------------------------
(***************************************************************************)
(* Instances of KeyAssignment for TLC.                                     *)
(***************************************************************************)
EXTENDS KeyAssignment, TLC

CONSTANTS v1, v2, a1, a2, a3, a4

\* Two validators, each with a provider key of its own.
TwoValidators == (v1 :> a1) @@ (v2 :> a2)

\* The addresses nobody has at the start are interchangeable.
FreshSymmetry == Permutations(Addrs \ {a1, a2})
=============================================================================

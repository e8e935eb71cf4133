------------------------------ MODULE MCFeePool ------------------------------
(***************************************************************************)
(* Instances of FeePool for TLC.                                           *)
(***************************************************************************)
EXTENDS FeePool, TLC

CONSTANTS
  v1, v2,
  LedgerFee, LedgerTime, LedgerFunds,  \* bounds on the ledger part
  LargeDeposit, EscrowTime             \* bounds on the escrow part

ValidatorSymmetry == Permutations({v1, v2})

\* Parameters with cutoffs three and eight blocks back.  By the second ones windows may
\* be accused whose records the first ones have let go.
Usual == [challenge |-> 2, maxAge |-> 1]
Long == [challenge |-> 4, maxAge |-> 4]
TwoInfractionParams == {Usual, Long}

(***************************************************************************)
(* The instance is the union of three: small deposits, withdrawals and     *)
(* gifts under one fee, with nothing in escrow; escrow under changing      *)
(* fees, with deposits in multiples of LargeDeposit; and infraction        *)
(* parameters that change over a longer time, with no deposit.             *)
(***************************************************************************)
Ledger ==
  /\ infraction = Usual
  /\ withheld = NoRecords /\ override = 0 /\ default = LedgerFee
  /\ now <= LedgerTime
  /\ \A h \in Holders : wallet[h] >= InitialFunds - LedgerFunds

Escrow ==
  /\ infraction = Usual
  /\ now <= EscrowTime
  /\ givers = {}
  /\ \A h \in Holders : wallet[h] % LargeDeposit = 0 /\ shares[h] % LargeDeposit = 0

Pricing ==
  /\ override = 0 /\ default = LedgerFee
  /\ \A h \in Holders : wallet[h] = InitialFunds

AllParts == Ledger \/ Escrow \/ Pricing
=============================================================================

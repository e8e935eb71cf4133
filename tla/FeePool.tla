------------------------------- MODULE FeePool -------------------------------
(***************************************************************************)
(* The fee pool of one consumer.  Anyone may deposit and holds shares of   *)
(* the pool; once per epoch the pool pays an equal share of the fee to     *)
(* every bonded validator, except that the share of a validator accused of *)
(* downtime stays in the pool, in escrow until the accusation is resolved. *)
(*                                                                         *)
(* x/vaas/provider/keeper: fees.go, fee_pool_shares.go, debt.go,           *)
(* send_restriction.go, the fee messages of msg_server.go, the overrides   *)
(* of params.go, the pool part of genesis.go and consumer_lifecycle.go.    *)
(*                                                                         *)
(* Pools of different consumers share nothing but the default fee, and the *)
(* denominations of a pool nothing at all, so there is one of each.  Which *)
(* validators are accused, and which accusations end in a slash, is        *)
(* DowntimeAccusation's and an input here.                                 *)
(***************************************************************************)
EXTENDS Integers, FiniteSets

CONSTANTS
  Depositors,
  Community,        \* the distribution module's account: the community pool
  Validators,       \* the bonded validators
  FeeChoices,       \* values governance may give to fees_per_block
  Overrides,        \* values it may override them with
  BlocksPerEpoch,
  InfractionChoices, \* values governance may give to the infraction parameters
  MinDepositBlocks,
  InitialFunds,     \* what every holder has at the start
  Amounts,          \* bound: the amounts of deposits and withdrawals
  Gifts,            \* bound: the amounts sent to the pool directly
  MaxShares,        \* bound: the shares in existence
  MaxTime           \* bound: the blocks

ASSUME FeePoolAssumption ==
  /\ Community \notin Depositors
  /\ IsFiniteSet(Validators) /\ Validators # {} /\ IsFiniteSet(Depositors)
  /\ FeeChoices \subseteq Nat /\ FeeChoices # {} /\ Overrides \subseteq Nat \ {0}
  /\ Amounts \subseteq Nat \ {0} /\ Gifts \subseteq Nat \ {0}
  /\ BlocksPerEpoch \in Nat \ {0}
  /\ InfractionChoices \subseteq [challenge : Nat, maxAge : Nat]
  /\ MinDepositBlocks \in Nat /\ InitialFunds \in Nat
  /\ MaxShares \in Nat /\ MaxTime \in Nat

VARIABLES
  now,        \* the time, in blocks
  phase,      \* the consumer's phase, "NONE" before it is created
  pool,       \* the bank balance of the pool's address
  shares,     \* ConsumerFeePoolShares, 0 for none
  total,      \* ConsumerFeePoolTotalShares, 0 for none
  withheld,   \* WithheldFeeRecords: an amount and its expiry
  debt,       \* ConsumerDebt
  default,    \* Params.FeesPerBlockAmount
  override,   \* ConsumerFeesPerBlockOverride, 0 for none
  records,    \* EpochShareRecords: the share of each distribution
  wallet,     \* what the holders have outside the pool
  earned,     \* what the validators were paid
  infraction, \* InfractionParameters: DowntimeChallengeWindow and DowntimeEvidenceMaxAge
  givers,     \* history: who sent something to the pool directly
  history,    \* history: all records, unpruned
  reach       \* history: how far back the records have always been kept

fpVars == <<now, phase, pool, shares, total, withheld, debt, default, override,
            records, wallet, earned, infraction, givers, history, reach>>

Holders == Depositors \cup {Community}

NoShares == [h \in Holders |-> 0]
NoRecord == [amount |-> 0, expires |-> 0]
NoRecords == [v \in Validators |-> NoRecord]

\* InfractionParameters.Validate, of the two durations the pool uses.
Validate(q) == q.challenge > 0 /\ q.maxAge > 0 /\ q.maxAge <= q.challenge

FPInit ==
  /\ now = 1
  /\ phase = "NONE"
  /\ pool = 0
  /\ shares = NoShares /\ total = 0
  /\ withheld = NoRecords
  /\ debt = FALSE
  /\ default \in FeeChoices /\ override = 0
  /\ infraction \in {q \in InfractionChoices : Validate(q)}
  /\ records = {} /\ history = {} /\ reach = 0
  /\ wallet = [h \in Holders |-> InitialFunds]
  /\ earned = [v \in Validators |-> 0]
  /\ givers = {}

\* The sum of the natural numbers f maps to, counted by their units.
Units(f) == UNION {{x} \X (1 .. f[x]) : x \in DOMAIN f}
Sum(f) == Cardinality(Units(f))

(***************************************************************************)
(* The share ledger.                                                       *)
(***************************************************************************)
Owed == [v \in Validators |-> IF withheld[v].expires > now THEN withheld[v].amount ELSE 0]
outstandingWithheldFees == Sum(Owed)

\* What a holder of s of t shares gets out of a balance of b, at most `limit`.
DrawUpToLimit(s, t, b, limit) ==
  LET claim == (s * b) \div t
      burn  == (limit * t) \div b
  IN IF \E n \in {s, t, b, limit} : n <= 0 THEN [burn |-> 0, tokens |-> 0]
     ELSE IF claim <= limit THEN [burn |-> s, tokens |-> claim]
     ELSE [burn |-> burn, tokens |-> limit]
feePoolDraw(s, t, b, limit) ==
  LET claim == (s * b) \div t
      burn  == (limit * t) \div b
  IN IF \E n \in {s, t, b, limit} : n <= 0 THEN [burn |-> 0, tokens |-> 0]
     ELSE IF claim <= limit THEN [burn |-> s, tokens |-> claim]
     ELSE [burn |-> burn, tokens |-> (burn * b) \div t]

\* ComputeClaim's measure of a holder's part of the whole balance.
Claim(h) == IF total = 0 THEN 0 ELSE (shares[h] * pool) \div total

\* A balance without shares is booked to the community pool, and shares without
\* a balance are void.
AbsorbedOverStale(b) == [shares |-> [shares EXCEPT ![Community] = b], total |-> b]
absorbUnaccountedBalance(b) == [shares |-> [NoShares EXCEPT ![Community] = b], total |-> b]

Reconciled ==
  IF pool > 0 /\ total > 0 THEN [shares |-> shares, total |-> total]
  ELSE absorbUnaccountedBalance(pool)

\* The shares a deposit of n is worth, before it lands in the pool.
MintShares(n) ==
  IF Reconciled.total = 0 THEN n ELSE (n * Reconciled.total) \div pool

effectiveFeesPerBlock == IF override # 0 THEN override ELSE default
FeePerEpoch == effectiveFeesPerBlock * BlocksPerEpoch
epochShare == FeePerEpoch \div Cardinality(Validators)

Exists == phase \notin {"NONE", "DELETED"}

\* MsgFundConsumerFeePool, by a depositor or by governance for the community.
FundConsumerFeePool(h, n) ==
  /\ Exists
  /\ n >= effectiveFeesPerBlock * MinDepositBlocks
  /\ wallet[h] >= n
  /\ MintShares(n) > 0
  /\ Reconciled.total + MintShares(n) <= MaxShares
  /\ shares' = [Reconciled.shares EXCEPT ![h] = @ + MintShares(n)]
  /\ total' = Reconciled.total + MintShares(n)
  /\ pool' = pool + n
  /\ wallet' = [wallet EXCEPT ![h] = @ - n]
  /\ UNCHANGED <<now, phase, withheld, debt, default, override, records, earned, givers,
                 history, infraction, reach>>

\* FeePoolSendRestriction: only the distribution module may send to the pool of a
\* consumer that exists; nothing is minted.
SendToPool(h, n) ==
  /\ Exists => h = Community
  /\ wallet[h] >= n
  /\ pool' = pool + n
  /\ wallet' = [wallet EXCEPT ![h] = @ - n]
  /\ givers' = givers \cup {h}
  /\ UNCHANGED <<now, phase, shares, total, withheld, debt, default, override, records,
                 earned, history, infraction, reach>>

\* What may be drawn on h's shares when n is asked for.
Spendable == pool - outstandingWithheldFees
DrawnFromAll(h, n) == feePoolDraw(shares[h], total, pool, n)
Drawn(h, n) ==
  feePoolDraw(shares[h], total, pool, IF n > Spendable THEN Spendable ELSE n)

\* MsgWithdrawConsumerFeePool.
WithdrawConsumerFeePool(h, n) ==
  /\ Exists
  /\ h = Community \/ phase \notin {"LAUNCHED", "PAUSED"}
  /\ shares[h] > 0 /\ total > 0
  /\ Spendable > 0
  /\ Drawn(h, n).burn > 0
  /\ shares' = [shares EXCEPT ![h] = @ - Drawn(h, n).burn]
  /\ total' = total - Drawn(h, n).burn
  /\ pool' = pool - Drawn(h, n).tokens
  /\ wallet' = [wallet EXCEPT ![h] = @ + Drawn(h, n).tokens]
  /\ UNCHANGED <<now, phase, withheld, debt, default, override, records, earned, givers,
                 history, infraction, reach>>

\* SweepConsumerFeePool: everyone gets a slice, the community pool the rest.
SlicesOnly(h, slice) == slice[h]
SweptTo(h, slice) == slice[h] + (IF h = Community THEN pool - Sum(slice) ELSE 0)
Swept ==
  LET ledger == IF total = 0 THEN absorbUnaccountedBalance(pool)
                ELSE [shares |-> shares, total |-> total]
      slice  == [h \in Holders |->
                   IF pool = 0 THEN 0 ELSE (ledger.shares[h] * pool) \div ledger.total]
  IN /\ wallet' = [h \in Holders |-> wallet[h] + SweptTo(h, slice)]
     /\ pool' = 0
     /\ shares' = NoShares /\ total' = 0

SweepConsumerFeePool ==
  /\ Exists /\ phase \notin {"LAUNCHED", "PAUSED"}
  /\ Swept
  /\ UNCHANGED <<now, phase, withheld, debt, default, override, records, earned, givers,
                 history, infraction, reach>>

(***************************************************************************)
(* A block begins.                                                         *)
(***************************************************************************)
\* The records left when those of executed slashes and the expired ones are gone.
Kept(forfeits) ==
  [v \in Validators |->
     IF v \in forfeits \/ withheld[v].expires <= now' THEN NoRecord ELSE withheld[v]]

\* What is before the cutoff goes, by the parameters in force when the block begins.
cutoff == now' - (infraction.maxAge + infraction.challenge)
PrunedAtMaxAge == {r \in records : r.at > now' - infraction.maxAge}
PruneEpochShareRecords == {r \in records : r.at >= cutoff}

\* recordWithheldFee adds to a record that has not expired.
recordWithheldFee(rec, n) ==
  [amount |-> rec.amount + n, expires |-> now' + infraction.challenge]

Recorded(share) ==
  /\ records' = PruneEpochShareRecords \cup {[at |-> now', share |-> share]}
  /\ history' = history \cup {[at |-> now', share |-> share]}

\* DistributeConsumerFees, for the validators not marked; `fails` if the bank does.
Unreserved(kept) == pool - Sum([v \in Validators |-> kept[v].amount])

SkipZeroShare(kept) ==
  /\ epochShare = 0
  /\ debt' = (debt \/ FeePerEpoch > 0)
  /\ Recorded(0)
  /\ withheld' = kept
  /\ UNCHANGED <<pool, earned>>

SkipUnderfunded(kept) ==
  /\ epochShare > 0
  /\ Unreserved(kept) < FeePerEpoch
  /\ debt' = TRUE
  /\ Recorded(0)
  /\ withheld' = kept
  /\ UNCHANGED <<pool, earned>>

SkipFailed(kept, marked) ==
  /\ epochShare > 0
  /\ Unreserved(kept) >= FeePerEpoch
  /\ marked # Validators
  /\ Recorded(0)
  /\ withheld' = kept
  /\ UNCHANGED <<pool, earned, debt>>

PayShares(kept, marked) ==
  /\ epochShare > 0
  /\ Unreserved(kept) >= FeePerEpoch
  /\ pool' = pool - epochShare * Cardinality(Validators \ marked)
  /\ earned' = [v \in Validators |-> IF v \in marked THEN earned[v] ELSE earned[v] + epochShare]
  /\ withheld' = [v \in Validators |->
       IF v \in marked THEN recordWithheldFee(kept[v], epochShare) ELSE kept[v]]
  /\ debt' = FALSE
  /\ Recorded(epochShare)

DistributeConsumerFees(kept, marked) ==
  \/ SkipZeroShare(kept) \/ SkipUnderfunded(kept)
  \/ SkipFailed(kept, marked) \/ PayShares(kept, marked)

\* The epoch's marks exist only while the consumer is launched, and so do slashes.
NextBlock(marked, forfeits) ==
  /\ now < MaxTime
  /\ now' = now + 1
  /\ marked \cup forfeits # {} => phase = "LAUNCHED"
  /\ IF phase = "LAUNCHED" /\ now' % BlocksPerEpoch = 0
     THEN DistributeConsumerFees(Kept(forfeits), marked)
     ELSE /\ marked = {}
          /\ withheld' = Kept(forfeits)
          /\ records' = PruneEpochShareRecords
          /\ UNCHANGED <<pool, earned, debt, history>>
  /\ reach' = IF cutoff > reach THEN cutoff ELSE reach
  /\ UNCHANGED <<phase, shares, total, default, override, wallet, infraction, givers>>

(***************************************************************************)
(* The consumer's phases.                                                  *)
(***************************************************************************)
\* PayWithheldFees pays what has not expired, in the order of the records, as far
\* as the pool reaches; who is not in `payable` has no account or no luck.
ClearedBeforePaid(payable) == withheld' = NoRecords /\ UNCHANGED <<pool, earned>>
PayWithheldFees(payable) ==
  \E f \in [Validators -> 0 .. pool] :
    LET owed == [v \in Validators |-> IF v \in payable THEN Owed[v] ELSE 0]
        short == {v \in Validators : f[v] < owed[v]}
    IN /\ \A v \in Validators : f[v] <= owed[v]
       /\ Sum(f) <= pool
       /\ short # {} => Sum(f) = pool
       /\ \A v, w \in short : f[v] > 0 /\ f[w] > 0 => v = w
       /\ earned' = [v \in Validators |-> earned[v] + f[v]]
       /\ pool' = pool - Sum(f)
       /\ withheld' = NoRecords

CreateConsumer ==
  /\ phase = "NONE" /\ phase' = "REGISTERED"
  /\ UNCHANGED <<now, pool, shares, total, withheld, debt, default, override, records,
                 wallet, earned, givers, history, infraction, reach>>

\* A launch, or a resumption.
StartConsumer ==
  /\ phase \in {"REGISTERED", "PAUSED"} /\ phase' = "LAUNCHED"
  /\ UNCHANGED <<now, pool, shares, total, withheld, debt, default, override, records,
                 wallet, earned, givers, history, infraction, reach>>

PauseConsumerChain(payable) ==
  /\ phase = "LAUNCHED" /\ phase' = "PAUSED"
  /\ PayWithheldFees(payable)
  /\ UNCHANGED <<now, shares, total, debt, default, override, records, wallet, givers,
                 history, infraction, reach>>

StopAndPrepareForConsumerRemoval ==
  /\ phase \in {"LAUNCHED", "PAUSED"} /\ phase' = "STOPPED"
  /\ UNCHANGED <<now, pool, shares, total, withheld, debt, default, override, records,
                 wallet, earned, givers, history, infraction, reach>>

DeleteConsumerChain ==
  /\ phase \in {"REGISTERED", "STOPPED"} /\ phase' = "DELETED"
  /\ Swept
  /\ withheld' = NoRecords
  /\ debt' = FALSE
  /\ override' = 0
  /\ UNCHANGED <<now, default, records, earned, givers, history, infraction, reach>>

(***************************************************************************)
(* Governance and restarts.                                                *)
(***************************************************************************)
SetConsumerFeesPerBlock(n) ==
  /\ Exists
  /\ n = 0 \/ n > default
  /\ override' = n
  /\ UNCHANGED <<now, phase, pool, shares, total, withheld, debt, default, records,
                 wallet, earned, givers, history, infraction, reach>>

\* MsgUpdateParams: overrides that a higher default overtakes are dropped.
reconcileFeesPerBlockOverrides(n) == IF n > default /\ override <= n THEN 0 ELSE override
UpdateParams(n) ==
  /\ default' = n
  /\ override' = reconcileFeesPerBlockOverrides(n)
  /\ UNCHANGED <<now, phase, pool, shares, total, withheld, debt, records, wallet, earned,
                 givers, history, infraction, reach>>

UpdateInfractionParams(q) ==
  /\ Validate(q)
  /\ infraction' = q
  /\ UNCHANGED <<now, phase, pool, shares, total, withheld, debt, default, override,
                 records, wallet, earned, givers, history, reach>>

\* An export and an import: totals are summed up anew, and a balance without
\* shares is absorbed, except a deleted consumer's.
RestartProvider ==
  LET ledger == IF Exists /\ Sum(shares) = 0 THEN absorbUnaccountedBalance(pool)
                ELSE [shares |-> shares, total |-> Sum(shares)]
  IN /\ shares' = ledger.shares /\ total' = ledger.total
     /\ UNCHANGED <<now, phase, pool, withheld, debt, default, override, records, wallet,
                    earned, givers, history, infraction, reach>>

FPNext ==
  \/ \E h \in Holders, n \in Amounts : FundConsumerFeePool(h, n) \/ WithdrawConsumerFeePool(h, n)
  \/ \E h \in Holders, n \in Gifts : SendToPool(h, n)
  \/ \E marked, forfeits \in SUBSET Validators : NextBlock(marked, forfeits)
  \/ \E payable \in SUBSET Validators : PauseConsumerChain(payable)
  \/ \E n \in Overrides \cup {0} : SetConsumerFeesPerBlock(n)
  \/ \E n \in FeeChoices : UpdateParams(n)
  \/ \E q \in InfractionChoices : UpdateInfractionParams(q)
  \/ SweepConsumerFeePool
  \/ CreateConsumer \/ StartConsumer \/ StopAndPrepareForConsumerRemoval \/ DeleteConsumerChain
  \/ RestartProvider

FPSpec == FPInit /\ [][FPNext]_fpVars

(***************************************************************************)
(* Properties.                                                             *)
(***************************************************************************)
\* Every variable has its type.
FPTypeOK ==
  /\ phase \in {"NONE", "REGISTERED", "LAUNCHED", "PAUSED", "STOPPED", "DELETED"}
  /\ now \in Nat /\ pool \in Nat /\ total \in Nat /\ default \in Nat /\ override \in Nat
  /\ shares \in [Holders -> Nat] /\ wallet \in [Holders -> Nat] /\ givers \subseteq Holders
  /\ earned \in [Validators -> Nat]
  /\ withheld \in [Validators -> [amount : Nat, expires : Nat]]
  /\ history \subseteq [at : Nat, share : Nat] /\ records \subseteq history
  /\ debt \in BOOLEAN /\ infraction \in [challenge : Nat, maxAge : Nat] /\ reach \in Nat

\* The module's registered invariant: the holders' shares add up to the total.
SharesSumToTotal == Sum(shares) = total

\* Without direct sends, a share never stands for more than one token: rounding
\* in deposits and withdrawals leaves no balance that shares do not cover.
SharesCoverBalance == givers = {} => pool <= total

OverrideAboveDefault == override # 0 => override > default

\* Nothing is in escrow before the launch or during a pause.
EscrowEndsWithPause == phase \in {"NONE", "REGISTERED", "PAUSED"} => withheld = NoRecords

\* No record goes before the cutoff of some block has passed it.
RecordsReachBack == \A r \in history : r.at >= reach => r \in records

\* The ledger adds up and its shares cover the balance, and an override is above the
\* default fee, whatever is deposited, withdrawn, paid, absorbed and swept, or set by
\* governance and owners, in whichever order: the invariant of the module.
FPInv ==
  /\ FPTypeOK /\ SharesSumToTotal /\ SharesCoverBalance /\ OverrideAboveDefault
  /\ EscrowEndsWithPause /\ RecordsReachBack

\* Whatever the rounding, what one holder deposits or withdraws never lowers what
\* the others can claim.
OthersAreNotDiluted ==
  [][\A h \in Holders, n \in Amounts :
       FundConsumerFeePool(h, n) \/ WithdrawConsumerFeePool(h, n)
         => \A g \in Holders \ {h} : Claim(g)' >= Claim(g)]_fpVars

\* No operation creates tokens or leaves any behind in the module's account.
TokensAreConserved == pool + Sum(wallet) + Sum(earned) = Cardinality(Holders) * InitialFunds

\* While the consumer is launched, the pool holds what is in escrow.
EscrowIsFunded == phase = "LAUNCHED" => outstandingWithheldFees <= pool

\* A pause never pays a validator only a part of what was withheld from it.
NobodyIsPaidShort ==
  [][\A payable \in SUBSET Validators : PauseConsumerChain(payable) =>
       \A v \in payable : earned'[v] = earned[v] + Owed[v]]_fpVars

\* A window young enough to be accused is priced by the distribution that covered
\* its end, not by a later one, however governance moves the challenge window and the
\* maximum age, unless a cutoff has passed the window's end before: when governance
\* raises the maximum age, windows come back into reach whose records are gone.
ResolveEpochShare(R, t) == {r \in R : r.at >= t /\ \A q \in R : q.at >= t => r.at <= q.at}
EvidenceIsPricedByItsEpoch ==
  \A t \in 1 .. now : now - t <= infraction.maxAge /\ t >= reach =>
    ResolveEpochShare(records, t) = ResolveEpochShare(history, t)
=============================================================================

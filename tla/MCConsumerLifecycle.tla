------------------------ MODULE MCConsumerLifecycle ------------------------
(***************************************************************************)
(* Instances of ConsumerLifecycle for TLC.                                 *)
(***************************************************************************)
EXTENDS ConsumerLifecycle, TLC

CONSTANT NoForkUntil  \* bound: the last block of the part without forks, which begins only

\* Either every chain id carries the same revision number, or "b" is the id of an
\* upgraded chain (as "b-2" is): only in the second can an update change it.
SameRevision  == [i \in ChainIds |-> 1]
TwoRevisions  == [i \in ChainIds |-> IF i = "b" THEN 2 ELSE 1]

\* What the theorem about forks supposes holds of the instances.
ASSUME HypothesisAssumption == ErasureOutlastsForks

(***************************************************************************)
(* The instance is the union of two: two consumers, whose clients are never *)
(* in trouble; and one consumer, whose chain may fork and whose client may  *)
(* be frozen, expire and be recovered.                                      *)
(***************************************************************************)
TwoConsumersOrForks ==
  \/ /\ \A i \in ChainIds : status[i] = "Active" /\ forkAt[i] = 0
     /\ now < NoForkUntil \/ (now = NoForkUntil /\ stage # "deliver")
  \/ /\ \A c \in Consumers : cons[c].phase # "NONE" => c = 1 /\ cons[c].chainId \in {"a", NoChain}
=============================================================================

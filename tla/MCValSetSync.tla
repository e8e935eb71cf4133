---------------------------- MODULE MCValSetSync ----------------------------
(***************************************************************************)
(* Instances of ValSetSync for TLC, and the fair specification its         *)
(* liveness property is checked under.                                     *)
(***************************************************************************)
EXTENDS ValSetSync, TLC

\* Keys are only compared for equality.
KeySymmetry == Permutations(Keys)

NoDebt == \A c \in Consumers, i \in VscId : debtLog[c][i] = FALSE
OneKey == \E k \in Keys : \A c \in Consumers, i \in 0 .. MaxVscId :
            \A l \in Keys \ {k} : log[c][i][l] = 0

\* The instance is the union of two: every sequence of sets without debt, and
\* every sequence of debt flags with the sets of one key.
SetsOrDebt == NoDebt \/ OneKey

(***************************************************************************)
(* "Faults eventually cease", with bounded ids: the round of the last id   *)
(* is sent with the client declared and pinned and no send error, and its  *)
(* packets are neither timed out nor refused.  Every earlier round may be  *)
(* lost in any way.                                                        *)
(***************************************************************************)
LastRoundIsReliable ==
  /\ valsetUpdateId = MaxVscId /\ valsetUpdateId' # valsetUpdateId =>
       \A c \in Launched : client[c] /\ pinned[c] /\ pendingVSC'[c] = <<>>
  /\ \A c \in Consumers : \A e \in inflight[c] \ inflight'[c] :
       e.data.id = MaxVscId => \E a \in acks'[c] : a.seq = e.seq /\ a.ok

LiveNext == Next /\ LastRoundIsReliable

\* Blocks keep being produced on both chains, the owner eventually declares
\* and pins the clients, and relayers eventually deliver what can be delivered.
Fairness ==
  /\ WF_vars(EndBlockVSU /\ LastRoundIsReliable)
  /\ \A c \in Consumers :
       /\ WF_vars(SetConsumerClient(c))
       /\ WF_vars(SetProviderClient(c))
       /\ WF_vars(EndBlockConsumer(c))
       /\ WF_vars(\E e \in inflight[c] : SkipVSCPacket(c, e) \/ OnRecvVSCPacketV2(c, e))

LiveSpec == Init /\ [][LiveNext]_vars /\ Fairness

\* The newest set published for a consumer.
NewestSet(c) ==
  LET ids == {i \in 0..MaxVscId : log[c][i] # NoSet}
  IN  log[c][CHOOSE i \in ids : \A j \in ids : j <= i]

\* Once faults cease, a consumer that stays launched ends up running with the
\* newest set the provider published for it, and keeps it: a lost diff is
\* healed by the snapshot of a later epoch (QueueVSCPackets).
Converges ==
  \A c \in Consumers : <>[](phase[c] = "LAUNCHED" => valset[c] = NewestSet(c))
=============================================================================

-------------------------- MODULE ValSetReplication --------------------------
(***************************************************************************)
(* What the VSC protocol promises a consumer, with no packets in it: the   *)
(* provider keeps, per consumer, a log of validator sets, and the chain    *)
(* runs with one entry of its own log at a time, moving only forward.      *)
(* ValSetSync is shown to implement this specification.                    *)
(***************************************************************************)
EXTENDS Naturals

CONSTANTS
  Consumers, Keys, MaxPower,
  MaxVscId     \* bound: the last position of the log

VARIABLES
  log,   \* log[c][i] is the set published for c under id i (0: genesis)
  at,    \* the log position the consumer chain runs with
  view   \* the validator set the consumer chain runs with

vars == <<log, at, view>>

Unpublished == [k \in Keys |-> 0]
ValSet == {s \in [Keys -> 0..MaxPower] : \E k \in Keys : s[k] > 0}

Init ==
  /\ log  = [c \in Consumers |-> [i \in 0..MaxVscId |-> Unpublished]]
  /\ at   = [c \in Consumers |-> 0]
  /\ view = [c \in Consumers |-> Unpublished]

\* A consumer chain starts from its genesis set.
Start(c) ==
  /\ \A i \in 0..MaxVscId : log[c][i] = Unpublished
  /\ \E s \in ValSet :
       /\ log'  = [log EXCEPT ![c][0] = s]
       /\ view' = [view EXCEPT ![c] = s]
  /\ UNCHANGED at

\* The log of c grows by one set, behind everything published before.
Extends(c, new) ==
  \E i \in 1..MaxVscId, s \in ValSet :
    /\ \A j \in i..MaxVscId : log[c][j] = Unpublished
    /\ new = [log[c] EXCEPT ![i] = s]

\* Some started consumers get a new set, in one step of the provider.
Publish ==
  /\ log' \in [Consumers -> [0..MaxVscId -> [Keys -> 0..MaxPower]]]
  /\ \A c \in Consumers :
       log'[c] = log[c] \/ (log[c][0] # Unpublished /\ Extends(c, log'[c]))
  /\ UNCHANGED <<at, view>>

\* The chain moves to a later published set; entries in between are skipped.
Adopt(c) ==
  /\ \E i \in 1..MaxVscId :
       /\ at[c] < i
       /\ log[c][i] # Unpublished
       /\ at'   = [at EXCEPT ![c] = i]
       /\ view' = [view EXCEPT ![c] = log[c][i]]
  /\ UNCHANGED log

Next ==
  \/ Publish
  \/ \E c \in Consumers : Start(c) \/ Adopt(c)

Spec == Init /\ [][Next]_vars
=============================================================================

------------------------------ MODULE SlotPool ------------------------------
(***************************************************************************)
(* What the position limit of the momentum bot promises, without saying    *)
(* how: a pool of slots, each held by a coin.  A coin gets a slot only     *)
(* through a reservation that was made while fewer slots than the limit    *)
(* were held, reservations are made one at a time, and whatever happens    *)
(* between a reservation and its use can only free slots.  The limit       *)
(* itself may be changed at any time, below the slots in use as well.      *)
(***************************************************************************)
EXTENDS Integers, FiniteSets

CONSTANTS
  Coins,   \* what may hold a slot
  Limits   \* the values of the limit

VARIABLES
  limit,     \* slots that may be held
  holders,   \* coins that hold a slot
  reserved   \* the coin, if any, whose slot is reserved

vars == <<limit, holders, reserved>>

Init ==
  /\ limit \in Limits
  /\ holders = {}
  /\ reserved = {}

HasSlot == Cardinality(holders) < limit

Reserve(c) ==
  /\ HasSlot /\ reserved = {}
  /\ reserved' = {c}
  /\ UNCHANGED <<limit, holders>>

\* The reservation is used; a coin that holds a slot already keeps that one.
Fill ==
  /\ reserved # {}
  /\ holders' = holders \cup reserved
  /\ reserved' = {}
  /\ UNCHANGED limit

GiveUp ==
  /\ reserved' = {}
  /\ UNCHANGED <<limit, holders>>

\* Reserved and filled at once.
Take(c) ==
  /\ HasSlot /\ reserved = {}
  /\ holders' = holders \cup {c}
  /\ UNCHANGED <<limit, reserved>>

Free ==
  /\ holders' \in SUBSET holders
  /\ UNCHANGED <<limit, reserved>>

Configure ==
  /\ limit' \in Limits
  /\ UNCHANGED <<holders, reserved>>

Next ==
  \/ \E c \in Coins : Reserve(c) \/ Take(c)
  \/ Fill
  \/ GiveUp
  \/ Free
  \/ Configure

Spec == Init /\ [][Next]_vars

=============================================================================

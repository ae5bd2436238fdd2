------------------------- MODULE OrderAuthorization -------------------------
(***************************************************************************)
(* What the execution path promises about each proposal, whatever happens  *)
(* to processes and messages: the operator's decision is taken once and is *)
(* final, and the broker takes at most one order, for an approved one.     *)
(***************************************************************************)
EXTENDS Naturals

CONSTANT Proposals

VARIABLES
  decision,  \* "open", "approved" or "refused" (rejected, expired, invalidated)
  orders     \* orders the broker has taken

vars == <<decision, orders>>

TypeOK ==
  /\ decision \in [Proposals -> {"open", "approved", "refused"}]
  /\ orders \in [Proposals -> 0..1]

Init ==
  /\ decision = [p \in Proposals |-> "open"]
  /\ orders = [p \in Proposals |-> 0]

Approve(p) ==
  /\ decision[p] = "open"
  /\ decision' = [decision EXCEPT ![p] = "approved"]
  /\ UNCHANGED orders

Refuse(p) ==
  /\ decision[p] = "open"
  /\ decision' = [decision EXCEPT ![p] = "refused"]
  /\ UNCHANGED orders

PlaceOrder(p) ==
  /\ decision[p] = "approved"
  /\ orders[p] = 0
  /\ orders' = [orders EXCEPT ![p] = 1]
  /\ UNCHANGED decision

Next == \E p \in Proposals : Approve(p) \/ Refuse(p) \/ PlaceOrder(p)

Spec == Init /\ [][Next]_vars
=============================================================================

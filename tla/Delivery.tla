------------------------------ MODULE Delivery ------------------------------
(***************************************************************************)
(* What the durable event path promises, whichever outbox, broker and      *)
(* consumers it is made of: an event that was accepted (its row committed  *)
(* with the state it announces, or its message in the broker) is settled:  *)
(* handled, dead-lettered or cancelled.  It may be settled more than once. *)
(***************************************************************************)
CONSTANT Events

VARIABLES
  accepted,  \* events the system has taken responsibility for
  settled    \* events somebody has handled, dead-lettered or cancelled

vars == <<accepted, settled>>

Init ==
  /\ accepted \in SUBSET Events
  /\ settled = {}

Accept(e) ==
  /\ accepted' = accepted \cup {e}
  /\ UNCHANGED settled

Settle(e) ==
  /\ e \in accepted \ settled
  /\ settled' = settled \cup {e}
  /\ UNCHANGED accepted

Next == \E e \in Events : Accept(e) \/ Settle(e)

Steps == Init /\ [][Next]_vars

Spec == Steps /\ \A e \in Events : WF_vars(Settle(e))
=============================================================================

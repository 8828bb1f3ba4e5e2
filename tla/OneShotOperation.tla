-------------------------- MODULE OneShotOperation ---------------------------
(***************************************************************************)
(* What the confirmation flow promises about an operation a user was asked *)
(* to confirm: it is offered once, claimed for execution at most once, and *)
(* takes effect at most once and only after it was claimed.                *)
(***************************************************************************)
EXTENDS Naturals

CONSTANT Ids

VARIABLES offered, claimed, applied

Init ==
  /\ offered = {}
  /\ claimed = {}
  /\ applied = [id \in Ids |-> 0]

Offer(id) ==
  /\ id \in Ids \ offered
  /\ offered' = offered \cup {id}
  /\ UNCHANGED <<claimed, applied>>

Claim(id) ==
  /\ id \in offered \ claimed
  /\ claimed' = claimed \cup {id}
  /\ UNCHANGED <<offered, applied>>

Apply(id) ==
  /\ id \in claimed /\ applied[id] = 0
  /\ applied' = [applied EXCEPT ![id] = 1]
  /\ UNCHANGED <<offered, claimed>>

Next == \E id \in Ids : Offer(id) \/ Claim(id) \/ Apply(id)

Spec == Init /\ [][Next]_<<offered, claimed, applied>>
=============================================================================

---------------------------- MODULE Consignment ----------------------------
(***************************************************************************)
(* What the gift and postal rows promise about the goods they name: they   *)
(* stay with the sender until they are handed over or posted; what is      *)
(* posted waits in custody and then reaches the recipient or comes back,   *)
(* and that is the end of it.  A step starts at most one consignment;      *)
(* others may only come back in the same step.                             *)
(***************************************************************************)
CONSTANT Token
VARIABLE whereabouts

Whereabouts == {"sender", "custody", "recipient", "returned", "destroyed"}

ConsignmentTypeOK == whereabouts \in [Token -> Whereabouts]

Waiting == {t \in Token : whereabouts[t] = "custody"}

\* The tokens M move on to `there', the tokens B come back.
Moved(M, there, B) ==
  [t \in Token |-> IF t \in B THEN "returned"
                   ELSE IF t \in M THEN there ELSE whereabouts[t]]

ConsignmentInit == whereabouts = [t \in Token |-> "sender"]

Post(t, B) ==
  /\ whereabouts[t] = "sender" /\ B \subseteq Waiting
  /\ whereabouts' = Moved({t}, "custody", B)

Deliver(t) ==
  /\ whereabouts[t] \in {"sender", "custody"}
  /\ whereabouts' = Moved({t}, "recipient", {})

Return(B) ==
  /\ B \subseteq Waiting
  /\ whereabouts' = Moved({}, "returned", B)

\* The row is deleted with the character of one of its two parties.
Destroy(D) ==
  /\ D \subseteq Waiting
  /\ whereabouts' = Moved(D, "destroyed", {})

ConsignmentNext ==
  \/ \E t \in Token, B \in SUBSET Waiting : Post(t, B)
  \/ \E t \in Token : Deliver(t)
  \/ \E B \in SUBSET Waiting : Return(B) \/ Destroy(B)

ConsignmentSpec == ConsignmentInit /\ [][ConsignmentNext]_whereabouts
=============================================================================

----------------------------- MODULE InboundMC -----------------------------
(* Instances of Inbound for TLC. *)
EXTENDS Inbound, TLC

CONSTANTS e1, e2, e3, m1, m2

\* The provider delivers one message twice, under two ids: x-request-id has a
\* value of its own for each request.  Another message comes beside it.
TwoOfThree == e1 :> m1 @@ e2 :> m1 @@ e3 :> m2

Symmetric ==
  Permutations(Front) \cup Permutations(Handler) \cup Permutations({e1, e2})
=============================================================================

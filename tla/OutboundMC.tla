----------------------------- MODULE OutboundMC -----------------------------
(* Instances of Outbound for TLC. *)
EXTENDS Outbound, TLC

CONSTANTS c1, c2, c3, k1, i1, i2

\* Two calls with one idempotency key, and an automation's with the same key for
\* the charge and a dispatch id of its own.
OneKey == c1 :> k1 @@ c2 :> k1 @@ c3 :> k1
TwoIds == c1 :> i1 @@ c2 :> i1 @@ c3 :> i2
=============================================================================

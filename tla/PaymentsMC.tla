----------------------------- MODULE PaymentsMC -----------------------------
(* Instances of Payments for TLC. *)
EXTENDS Payments, TLC

CONSTANTS a, w, A, aCall, aHook, wCall, wHook

\* A purchase and a recharge, each with its callback and its webhook.
Buying == a :> A @@ w :> NoPlan
Reports == aCall :> a @@ aHook :> a @@ wCall :> w @@ wHook :> w
=============================================================================

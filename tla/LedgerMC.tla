----------------------------- MODULE LedgerMC -----------------------------
(* Instances of Ledger for TLC. *)
EXTENDS Ledger, TLC, FiniteSetsExt

CONSTANTS w1, w2, k1, k2

R(op, w, id, amount, spend) ==
  [op |-> op, ws |-> w, id |-> id, amount |-> amount, spend |-> spend]

\* Two wallets, every operation.  In the first one deduction is unkeyed and the
\* campaign is settled in full; in the second the campaign spends less than it
\* reserved and the deduction is keyed.  No reference is used twice.
Wallets ==
  {R("credit", w1, w1, 2, 0), R("deduct", w1, NoId, 1, 0),
   R("reserve", w1, k1, 1, 0), R("settle", w1, k1, 1, 0),
   R("legacy", w1, NoId, 1, 0), R("get", w1, NoId, 0, 0),
   R("credit", w2, w2, 2, 0), R("reserve", w2, w2, 2, 0),
   R("settle", w2, w2, 2, 1), R("deduct", w2, k2, 1, 0)}

\* One payment and one keyed deduction: every second call is a retry of the same
\* request.
DeductRetried ==
  {R("credit", w1, k1, 2, 0), R("deduct", w1, k2, 1, 0)}

Symmetric == Permutations(Call)

-----------------------------------------------------------------------------
(* What the comments of LedgerService.ts say of every call. *)

Sum(S, value(_)) == MapThenSumSet(value, S)
Amount(q) == q.amount

Asked(op, w) == {q \in Request : q.op = op /\ q.ws = w}

\* deduct: "duplicate calls with the same key return the existing wallet
\* without double-spending".  Once a payment is credited, what is missing from
\* the wallet is at most one deduction per request.
DeductedOnce ==
  \A w \in Workspace :
    LET credited == {q \in Asked("credit", w) : q.id \in processed[w]}
    IN Total(balance[w]) >= Sum(credited, Amount) - Sum(Asked("deduct", w), Amount)
=============================================================================

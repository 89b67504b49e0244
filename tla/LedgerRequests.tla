-------------------------- MODULE LedgerRequests --------------------------
(***************************************************************************)
(* What a caller may ask of billing-service's LedgerService and what one   *)
(* granted request does to the two balances of a wallet: the arithmetic    *)
(* that the step-by-step model (Ledger) and its abstract specification     *)
(* (AtomicLedger) share.  Amounts are whole paise.                         *)
(***************************************************************************)
EXTENDS Integers, Sequences

CONSTANTS
  Workspace,   \* workspaces, each with at most one wallet
  Id,          \* payment ids, caller-chosen idempotency keys and campaign ids
  NoId,        \* "no idempotency key passed"
  Request      \* the requests callers can make

Op == {"get", "credit", "deduct", "reserve", "settle", "legacy"}

\* "amount" is what is credited, deducted, reserved, migrated, or (settle) the
\* reservation that is given back; "spend" is settle's actualSpend.
RequestType ==
  [op : Op, ws : Workspace, id : Id \cup {NoId}, amount : Nat, spend : Nat]

\* Only credit and deduct may come without an id: a campaign always has one.
ASSUME RequestAssumption ==
  /\ NoId \notin Id
  /\ Request \subseteq RequestType
  /\ \A q \in Request : q.op \in {"reserve", "settle"} => q.id # NoId

-----------------------------------------------------------------------------
(* The externalReferenceId under which a request's transaction is stored.  *)

NoKey == <<"none">>

Key(q) ==
  CASE q.op = "reserve" -> <<"park", q.id>>
    [] q.op = "settle"  -> <<"settle", q.id>>
    [] q.op = "legacy"  -> <<"legacy-sync", q.ws>>
    [] q.op \in {"credit", "deduct"} /\ q.id # NoId -> <<"ext", q.id>>
    [] OTHER -> NoKey

Keyed(q) == Key(q) # NoKey

\* A payment id is not reused as a deduction key, nor in a second workspace.
\* The ledger does not enforce it; the properties that need it say so.
OneUsePerReference ==
  \A p, q \in Request :
     Keyed(p) /\ Key(p) = Key(q) => p.op = q.op /\ p.ws = q.ws

\* No settlement reports more spend than the reservation it returns.
\* settleCampaignBudget does not check it.
SpendWithinReservation ==
  \A q \in Request : q.op = "settle" => q.spend <= q.amount

-----------------------------------------------------------------------------
(* Balances are a pair [available, parked]. *)

\* The funds check each operation makes on the wallet it has read.
MutantFunded(q, balance) ==
  q.op = "settle" => balance.parked >= q.amount

Funded(q, balance) ==
  CASE q.op \in {"deduct", "reserve"} -> balance.available >= q.amount
    [] q.op = "settle"                -> balance.parked >= q.amount
    [] OTHER                          -> TRUE

After(q, balance) ==
  [available |->
     CASE q.op \in {"credit", "legacy"}  -> balance.available + q.amount
       [] q.op \in {"deduct", "reserve"} -> balance.available - q.amount
       [] q.op = "settle" -> balance.available + (q.amount - q.spend)
       [] OTHER -> balance.available,
   parked |->
     CASE q.op = "reserve" -> balance.parked + q.amount
       [] q.op = "settle"  -> balance.parked - q.amount
       [] OTHER -> balance.parked]

Total(balance) == balance.available + balance.parked
=============================================================================

--------------------------- MODULE AtomicLedger ---------------------------
(***************************************************************************)
(* What LedgerService promises the callers of a wallet: a request takes    *)
(* effect in one step, on the current balance, only if it is funded, and a *)
(* keyed request at most once.                                             *)
(*                                                                         *)
(* The promise lasts while the wallet is undisturbed, that is while calls  *)
(* on it never overlap and none dies half way; nothing is promised about a *)
(* disturbed wallet, except that its disturbance does not spread.          *)
(***************************************************************************)
EXTENDS LedgerRequests

VARIABLES
  balance,     \* workspace -> [available, parked]
  taken,       \* workspace -> keys of the requests that took effect
  disturbed    \* workspaces about which nothing is promised any more

vars == <<balance, taken, disturbed>>

Init ==
  /\ balance = [w \in Workspace |-> [available |-> 0, parked |-> 0]]
  /\ taken = [w \in Workspace |-> {}]
  /\ disturbed = {}

Apply(q) ==
  /\ q.ws \notin disturbed
  /\ Key(q) \notin taken[q.ws]
  /\ Funded(q, balance[q.ws])
  /\ balance' = [balance EXCEPT ![q.ws] = After(q, @)]
  /\ taken' = [taken EXCEPT ![q.ws] = @ \cup ({Key(q)} \ {NoKey})]
  /\ UNCHANGED disturbed

Interfere ==
  /\ disturbed \subseteq disturbed'
  /\ \A w \in Workspace \ disturbed' :
       balance'[w] = balance[w] /\ taken'[w] = taken[w]

Next == (\E q \in Request : Apply(q)) \/ Interfere

Spec == Init /\ [][Next]_vars
=============================================================================

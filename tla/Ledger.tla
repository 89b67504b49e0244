------------------------------ MODULE Ledger ------------------------------
(***************************************************************************)
(* billing-service's LedgerService on MongoDB.                             *)
(*                                                                         *)
(* Every call of the service is a process of its own: HTTP requests and    *)
(* pub/sub events are served concurrently by any number of replicas, and   *)
(* each await of a database operation is a point where other calls run.    *)
(* Only the database operations are atomic, so an action is the code from  *)
(* one of them to the next.  wallet.save() writes the fields that the      *)
(* in-memory document changed, with the values computed from the document  *)
(* that was read, and checks no version.                                   *)
(*                                                                         *)
(* A call may die between any two of its steps (the process crashes, or    *)
(* the database operation throws); nothing resumes it.  A retry is another *)
(* call with the same request.                                             *)
(***************************************************************************)
EXTENDS LedgerRequests

CONSTANTS
  Call,        \* calls that are ever made; bounds a TLC run
  NoRequest    \* the request of a call not made yet

ASSUME NoRequestAssumption == NoRequest \notin Request

VARIABLES
  exists,      \* workspaces that have a wallet document
  balance,     \* workspace -> [available, parked]
  synced,      \* workspaces whose wallet has isLegacySynced
  processed,   \* workspace -> the wallet's processedExternalReferences
  txs,         \* workspace -> its wallet transactions in insertion order
  pc, req, snap,        \* per call: next step, request, wallet as it was read
  wrote, late, disturbed \* history: see below

wallets == <<exists, balance, synced, processed>>
history == <<wrote, late, disturbed>>
vars == <<wallets, txs, pc, req, snap, history>>

(***************************************************************************)
(* History variables, read by no action:                                   *)
(*   wrote      calls that have changed a balance;                         *)
(*   late       calls that were made when the transaction of their own     *)
(*              request was already stored;                                *)
(*   disturbed  workspaces on which two calls were once in progress at the *)
(*              same time, or on which a call died after changing the      *)
(*              balance and before storing its transaction.                *)
(***************************************************************************)

Empty == [available |-> 0, parked |-> 0]

Balances == [available : Int, parked : Int]

TxType == {"RECHARGE", "SPEND", "PARK", "UNPARK", "MIGRATION"}

\* previousBalance and newBalance of a transaction count both balances.
Tx == [key : {Key(q) : q \in Request}, type : TxType, prev : Int, new : Int]

Step == {"upsert", "increment", "check", "find", "read", "create", "insert",
         "save", "record"}

InProgress(c) == pc[c] \in Step
On(c, w) == req[c] # NoRequest /\ req[c].ws = w

\* externalReferenceId carries a unique index over the whole collection.
Stored(k) == \E w \in Workspace : \E i \in DOMAIN txs[w] : txs[w][i].key = k

\* The transaction that the request itself would have stored.
StoredFor(q) ==
  /\ Keyed(q)
  /\ \E w \in Workspace : \E i \in DOMAIN txs[w] :
       /\ txs[w][i].key = Key(q)
       /\ q.op = "credit" => txs[w][i].type = "RECHARGE" /\ w = q.ws

TypeOK ==
  /\ exists \subseteq Workspace
  /\ balance \in [Workspace -> Balances]
  /\ synced \subseteq Workspace
  /\ processed \in [Workspace -> SUBSET Id]
  /\ txs \in [Workspace -> Seq(Tx)]
  /\ pc \in [Call -> Step \cup {"idle", "done", "failed", "died"}]
  /\ req \in [Call -> Request \cup {NoRequest}]
  /\ snap \in [Call -> Balances]
  /\ wrote \subseteq Call
  /\ late \subseteq Call
  /\ disturbed \subseteq Workspace

Init ==
  /\ exists = {}
  /\ balance = [w \in Workspace |-> Empty]
  /\ synced = {}
  /\ processed = [w \in Workspace |-> {}]
  /\ txs = [w \in Workspace |-> << >>]
  /\ pc = [c \in Call |-> "idle"]
  /\ req = [c \in Call |-> NoRequest]
  /\ snap = [c \in Call |-> Empty]
  /\ wrote = {}
  /\ late = {}
  /\ disturbed = {}

Goto(c, step) == pc' = [pc EXCEPT ![c] = step]

-----------------------------------------------------------------------------
(* A call is made.  credit refuses a zero amount and a missing reference   *)
(* before it touches the database.                                         *)

Rejected(q) == q.op = "credit" /\ (q.amount = 0 \/ q.id = NoId)

MutantFirstStep(q) ==
  IF q.op = "credit" THEN "upsert"
  ELSE IF q.op \in {"get", "legacy"} THEN "find" ELSE "read"

FirstStep(q) ==
  IF Rejected(q) THEN "failed"
  ELSE CASE q.op = "credit"              -> "upsert"
         [] q.op \in {"get", "legacy"}   -> "find"
         [] q.op = "deduct" /\ ~Keyed(q) -> "read"
         [] OTHER                        -> "check"

Start(c, q) ==
  /\ pc[c] = "idle"
  /\ Goto(c, FirstStep(q))
  /\ req' = [req EXCEPT ![c] = q]
  /\ late' = IF StoredFor(q) THEN late \cup {c} ELSE late
  /\ disturbed' = IF \E d \in Call : InProgress(d) /\ On(d, q.ws)
                  THEN disturbed \cup {q.ws} ELSE disturbed
  /\ UNCHANGED <<wallets, txs, snap, wrote>>

-----------------------------------------------------------------------------
(* getWallet: read the wallet, create it when there is none. *)

FindWallet(c) ==
  /\ pc[c] = "find" /\ req[c].op = "get"
  /\ Goto(c, IF req[c].ws \in exists THEN "done" ELSE "create")
  /\ UNCHANGED <<wallets, txs, req, snap, history>>

\* workspaceId is unique: the second of two creations fails.
CreateWallet(c) ==
  /\ pc[c] = "create"
  /\ Goto(c, IF req[c].ws \in exists THEN "failed" ELSE "done")
  /\ exists' = exists \cup {req[c].ws}
  /\ UNCHANGED <<balance, synced, processed, txs, req, snap, history>>

-----------------------------------------------------------------------------
(* credit: one upsert, one conditional atomic increment, one insert. *)

Upsert(c) ==
  /\ pc[c] = "upsert"
  /\ exists' = exists \cup {req[c].ws}
  /\ Goto(c, "increment")
  /\ UNCHANGED <<balance, synced, processed, txs, req, snap, history>>

MutantAddToSet(refs, id) == refs

AddToSet(refs, id) == refs \cup {id}

\* findOneAndUpdate {processedExternalReferences: {$ne: ref}}: $inc, $addToSet.
Increment(c) ==
  LET w == req[c].ws IN
  /\ pc[c] = "increment"
  /\ req[c].id \notin processed[w]
  /\ snap' = [snap EXCEPT ![c] = balance[w]]
  /\ balance' = [balance EXCEPT ![w] = After(req[c], balance[w])]
  /\ processed' = [processed EXCEPT ![w] = AddToSet(@, req[c].id)]
  /\ wrote' = wrote \cup {c}
  /\ Goto(c, "record")
  /\ UNCHANGED <<exists, synced, txs, req, late, disturbed>>

AlreadyCredited(c) ==
  /\ pc[c] = "increment"
  /\ req[c].id \in processed[req[c].ws]
  /\ Goto(c, "done")
  /\ UNCHANGED <<wallets, txs, req, snap, history>>

-----------------------------------------------------------------------------
(* deduct, reserveCampaignBudget, settleCampaignBudget: look for the       *)
(* transaction, read the wallet, save it, store the transaction.           *)

CheckKey(c) ==
  /\ pc[c] = "check"
  /\ Goto(c, IF Stored(Key(req[c])) THEN "done" ELSE "read")
  /\ UNCHANGED <<wallets, txs, req, snap, history>>

ReadWallet(c) ==
  LET w == req[c].ws IN
  /\ pc[c] = "read"
  /\ w \in exists
  /\ Funded(req[c], balance[w])
  /\ snap' = [snap EXCEPT ![c] = balance[w]]
  /\ Goto(c, "save")
  /\ UNCHANGED <<wallets, txs, req, history>>

\* WORKSPACE_NOT_FOUND, INSUFFICIENT_FUNDS, INVALID_RESERVED_AMOUNT
Refuse(c) ==
  LET w == req[c].ws IN
  /\ pc[c] = "read"
  /\ w \notin exists \/ ~Funded(req[c], balance[w])
  /\ Goto(c, "failed")
  /\ UNCHANGED <<wallets, txs, req, snap, history>>

\* mongoose $sets a field only if the document's value of it was changed.
SetModified(current, read, new) ==
  [available |-> IF new.available = read.available
                 THEN current.available ELSE new.available,
   parked    |-> IF new.parked = read.parked
                 THEN current.parked ELSE new.parked]

SaveWallet(c) ==
  LET w == req[c].ws IN
  /\ pc[c] = "save"
  /\ balance' = [balance EXCEPT
                   ![w] = SetModified(@, snap[c], After(req[c], snap[c]))]
  /\ synced' = IF req[c].op = "legacy" THEN synced \cup {w} ELSE synced
  /\ wrote' = wrote \cup {c}
  /\ Goto(c, "record")
  /\ UNCHANGED <<exists, processed, txs, req, snap, late, disturbed>>

-----------------------------------------------------------------------------
(* syncLegacyBalance: its own idempotence test is the isLegacySynced flag. *)

AfterFind(w) ==
  IF w \notin exists THEN "insert" ELSE IF w \in synced THEN "done" ELSE "save"

FindLegacy(c) ==
  LET w == req[c].ws IN
  /\ pc[c] = "find" /\ req[c].op = "legacy"
  /\ snap' = [snap EXCEPT ![c] = balance[w]]
  /\ Goto(c, AfterFind(w))
  /\ UNCHANGED <<wallets, txs, req, history>>

\* A new wallet that holds the legacy balance; workspaceId is unique.
InsertLegacy(c) ==
  LET w == req[c].ws IN
  /\ pc[c] = "insert"
  /\ w \notin exists
  /\ exists' = exists \cup {w}
  /\ balance' = [balance EXCEPT ![w] = After(req[c], Empty)]
  /\ synced' = synced \cup {w}
  /\ snap' = [snap EXCEPT ![c] = Empty]
  /\ wrote' = wrote \cup {c}
  /\ Goto(c, "record")
  /\ UNCHANGED <<processed, txs, req, late, disturbed>>

InsertRaced(c) ==
  /\ pc[c] = "insert"
  /\ req[c].ws \in exists
  /\ Goto(c, "failed")
  /\ UNCHANGED <<wallets, txs, req, snap, history>>

-----------------------------------------------------------------------------
(* The last step of every operation that moves money stores a transaction. *)

MutantTypeOf(q) == IF q.op = "legacy" THEN "LEGACY" ELSE "SPEND"

TypeOf(q) ==
  CASE q.op = "credit"  -> "RECHARGE"
    [] q.op = "reserve" -> "PARK"
    [] q.op = "settle"  -> IF q.amount - q.spend > 0 THEN "UNPARK" ELSE "SPEND"
    [] q.op = "legacy"  -> "MIGRATION"
    [] OTHER            -> "SPEND"

MutantReceipt(c) ==
  [key  |-> Key(req[c]),
   type |-> TypeOf(req[c]),
   prev |-> Total(After(req[c], snap[c])),
   new  |-> Total(After(req[c], snap[c]))]

Receipt(c) ==
  [key  |-> Key(req[c]),
   type |-> TypeOf(req[c]),
   prev |-> Total(snap[c]),
   new  |-> Total(After(req[c], snap[c]))]

RecordTx(c) ==
  LET w == req[c].ws IN
  /\ pc[c] = "record"
  /\ ~(Keyed(req[c]) /\ Stored(Key(req[c])))
  /\ txs' = [txs EXCEPT ![w] = Append(@, Receipt(c))]
  /\ Goto(c, "done")
  /\ UNCHANGED <<wallets, req, snap, history>>

\* The unique index refuses a second document with the key.  credit's
\* $setOnInsert upsert matches the stored one instead and changes nothing.
DuplicateTx(c) ==
  /\ pc[c] = "record"
  /\ Keyed(req[c]) /\ Stored(Key(req[c]))
  /\ Goto(c, IF req[c].op = "credit" THEN "done" ELSE "failed")
  /\ UNCHANGED <<wallets, txs, req, snap, history>>

-----------------------------------------------------------------------------
(* The process serving the call crashes, or a database operation throws.   *)

Die(c) ==
  /\ InProgress(c)
  /\ Goto(c, "died")
  /\ disturbed' = IF pc[c] = "record" THEN disturbed \cup {req[c].ws}
                  ELSE disturbed
  /\ UNCHANGED <<wallets, txs, req, snap, wrote, late>>

Progress(c) ==
  \/ FindWallet(c) \/ CreateWallet(c)
  \/ Upsert(c) \/ Increment(c) \/ AlreadyCredited(c)
  \/ CheckKey(c) \/ ReadWallet(c) \/ Refuse(c) \/ SaveWallet(c)
  \/ FindLegacy(c) \/ InsertLegacy(c) \/ InsertRaced(c)
  \/ RecordTx(c) \/ DuplicateTx(c)

Next ==
  \E c \in Call : (\E q \in Request : Start(c, q)) \/ Progress(c) \/ Die(c)

Spec == Init /\ [][Next]_vars
-----------------------------------------------------------------------------
(* Correctness.  The first three hold however calls interleave and wherever *)
(* they die; the rest are what a wallet that no two calls ever shared, and  *)
(* on which no call died half way, can rely on.                             *)

\* No interleaving of calls and no crash drives a balance below zero: every
\* save writes values computed from a wallet whose funds were checked.  The
\* available balance needs settlements that spend no more than they reserved.
NoOverdraft ==
  \A w \in Workspace :
    /\ balance[w].parked >= 0
    /\ SpendWithinReservation => balance[w].available >= 0

\* A payment reference is credited to a workspace at most once, whether it
\* comes from the checkout callback, the webhook, or retries of either.
CreditedOnce ==
  \A c, d \in wrote :
    /\ req[c].op = "credit" /\ req[d].op = "credit"
    /\ req[c].ws = req[d].ws /\ req[c].id = req[d].id
    => c = d

\* A call made after the transaction of its own request was stored changes no
\* balance, whatever runs next to it.
LateCallsChangeNothing == late \cap wrote = {}

\* A keyed operation moves money at most once on an undisturbed wallet.
AppliedOnce ==
  OneUsePerReference =>
    \A c, d \in wrote :
      /\ Keyed(req[c]) /\ Key(req[c]) = Key(req[d])
      /\ req[c].ws \notin disturbed
      => c = d

Newest(w) == IF txs[w] = << >> THEN 0 ELSE txs[w][Len(txs[w])].new

\* The transactions of an undisturbed wallet are a gapless audit trail: each
\* starts at the total where its predecessor ended, and the newest one ends at
\* the total of the wallet unless its successor is just being stored.
AuditTrail ==
  OneUsePerReference =>
    \A w \in Workspace \ disturbed :
      /\ \A i \in DOMAIN txs[w] :
           txs[w][i].prev = IF i = 1 THEN 0 ELSE txs[w][i - 1].new
      /\ \/ Total(balance[w]) = Newest(w)
         \/ \E c \in Call : pc[c] = "record" /\ On(c, w)

\* To its callers an undisturbed wallet is the atomic ledger, provided that
\* OneUsePerReference holds.
Atomic == INSTANCE AtomicLedger WITH
  taken <- [w \in Workspace |->
              {Key(req[c]) : c \in {d \in wrote : On(d, w) /\ Keyed(req[d])}}]

ImplementsAtomicLedger == Atomic!Spec
=============================================================================

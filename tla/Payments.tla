------------------------------ MODULE Payments ------------------------------
(***************************************************************************)
(* The payments of one workspace, through Razorpay.                        *)
(*                                                                         *)
(*   portal   --HTTP--> billing-service   an order; after checkout, the    *)
(*                                        callback that verifies it        *)
(*   Razorpay --HTTP--> billing-service   payment.captured, delivered      *)
(*                                        again until it is answered 200   *)
(*   billing-service --pub/sub--> auth-service     plan_purchased          *)
(*                                                                         *)
(* A Request is the callback of a payment or one delivery of its webhook;  *)
(* both do the same work, and whoever gets there first does it.  A payment *)
(* buys the plan PlanOf[p], or credits the wallet when that is NoPlan (a   *)
(* payment that verifies a card does so too, and has no callback here).    *)
(*                                                                         *)
(* The plan of a workspace is kept three times: in the workspace and the   *)
(* subscription of billing-service, and in auth-service's workspace, whose *)
(* limits chat-service and contact-service enforce.                        *)
(***************************************************************************)
EXTENDS Integers, FiniteSets

CONSTANTS
  Payment,   \* payments
  Plan,      \* plans that cost something
  Free,      \* the plan that costs nothing
  NoPlan,    \* none
  PlanOf,    \* Payment -> Plan, or NoPlan for a recharge
  Request,   \* callbacks and webhook deliveries
  PayOf,     \* Request -> Payment
  Webhooks,  \* the requests that are webhook deliveries
  MaxFaults  \* bound on faults

ASSUME PaymentsAssumption ==
  /\ {Free, NoPlan} \cap Plan = {} /\ Free # NoPlan
  /\ PlanOf \in [Payment -> Plan \cup {NoPlan}]
  /\ PayOf \in [Request -> Payment]
  /\ Webhooks \subseteq Request
  /\ MaxFaults \in Nat

VARIABLES
  orders,       \* payments whose order is in razorpayorders
  captured,     \* payments the provider took
  step,         \* Request -> what it does next
  writes,       \* Request -> activation writes sent to MongoDB, not yet done
  credits,      \* payment -> times the wallet was credited for it
  txs,          \* payments with a transaction in the ledger
  sequence,     \* the last invoice number drawn
  drawn,        \* Request -> the number it drew
  invoices,     \* payment -> number of its invoice, 0 for none
  catalogue,    \* plans on offer
  workspace,    \* planId of billing-service's workspace
  subscription, \* planId of its subscription
  events,       \* purchases published, on their way to auth-service
  entitled,     \* plan of auth-service's workspace
  activated,    \* history: payment -> the documents its activation wrote
  published,    \* history: payments whose event was published
  spoiled,      \* history: payments that met a fault
  faults        \* faults so far; bounds TLC

checkout == <<orders, captured>>
books == <<credits, txs>>
invoicing == <<sequence, drawn, invoices>>
plans == <<workspace, subscription, activated>>
bus == <<events, published, entitled>>
trouble == <<spoiled, faults>>
vars == <<checkout, step, writes, books, invoicing, catalogue, plans, bus,
          trouble>>

Documents == {"workspace", "subscription"}
Steps ==
  {"idle", "check", "record", "plan", "activate", "credit", "book", "findTx",
   "find", "draw", "create", "publish", "done", "refused"}
Paid(r) == PayOf[r]
PlanFor(r) == PlanOf[PayOf[r]]
Buys(p) == PlanOf[p] # NoPlan

TypeOK ==
  /\ orders \subseteq Payment
  /\ captured \subseteq orders
  /\ step \in [Request -> Steps]
  /\ writes \in [Request -> SUBSET Documents]
  /\ credits \in [Payment -> Nat]
  /\ txs \subseteq captured
  /\ sequence \in Nat
  /\ drawn \in [Request -> 0..sequence]
  /\ invoices \in [Payment -> 0..sequence]
  /\ catalogue \subseteq Plan
  /\ {workspace, subscription, entitled} \subseteq Plan \cup {Free, NoPlan}
  /\ events \subseteq published
  /\ published \subseteq Payment
  /\ activated \in [Payment -> SUBSET Documents]
  /\ spoiled \subseteq Payment
  /\ faults \in 0..MaxFaults

Init ==
  /\ orders = {} /\ captured = {}
  /\ step = [r \in Request |-> "idle"]
  /\ writes = [r \in Request |-> {}]
  /\ credits = [p \in Payment |-> 0]
  /\ txs = {}
  /\ sequence = 0
  /\ drawn = [r \in Request |-> 0]
  /\ invoices = [p \in Payment |-> 0]
  /\ catalogue = Plan
  /\ workspace = NoPlan /\ subscription = NoPlan /\ entitled = NoPlan
  /\ events = {} /\ published = {}
  /\ activated = [p \in Payment |-> {}]
  /\ spoiled = {} /\ faults = 0

-----------------------------------------------------------------------------
(* The portal and the provider. *)

\* The portal learns of an order only when it is in razorpayorders as well.
CreateOrder(p) ==
  /\ p \notin orders
  /\ Buys(p) => PlanOf[p] \in catalogue
  /\ orders' = orders \cup {p}
  /\ UNCHANGED <<captured, step, writes, books, invoicing, catalogue, plans,
                 bus, trouble>>

Capture(p) ==
  /\ p \in orders \ captured
  /\ captured' = captured \cup {p}
  /\ UNCHANGED <<orders, step, writes, books, invoicing, catalogue, plans,
                 bus, trouble>>

\* A plan that costs nothing is activated at once, in one document.
SwitchToFree ==
  /\ workspace' = Free
  /\ UNCHANGED <<checkout, step, writes, books, invoicing, catalogue,
                 subscription, activated, bus, trouble>>

deletePlan(pl) ==
  /\ pl \in catalogue
  /\ catalogue' = catalogue \ {pl}
  /\ UNCHANGED <<checkout, step, writes, books, invoicing, plans, bus, trouble>>

-----------------------------------------------------------------------------
(* The requests. *)

In(r, s) == step[r] = s
Go(r, s) == step' = [step EXCEPT ![r] = s]
Work(r) == IF Buys(Paid(r)) THEN "record" ELSE "credit"

\* The bug of answering a webhook 200 whatever happened.
MutantAfterError(r) ==
  IF r \in Webhooks \/ step[r] \in {"findTx", "find", "draw", "create"}
  THEN "done" ELSE "refused"

\* Thrown errors: the callback's is final, the provider delivers its webhook
\* again, and a callback swallows what goes wrong with the invoice.
AfterError(r) ==
  IF r \in Webhooks THEN "check"
  ELSE IF step[r] \in {"findTx", "find", "draw", "create"} THEN "done"
  ELSE "refused"
AfterInvoice(r) == IF r \in Webhooks THEN "publish" ELSE "done"

\* Signature and order are right; a webhook looks for the transaction first.
Arrive(r) ==
  /\ In(r, "idle")
  /\ Paid(r) \in captured
  /\ Go(r, IF r \in Webhooks THEN "check" ELSE Work(r))
  /\ UNCHANGED <<checkout, writes, books, invoicing, catalogue, plans, bus,
                 trouble>>

Check(r) ==
  /\ In(r, "check")
  /\ Go(r, IF Paid(r) \in txs THEN "done" ELSE Work(r))
  /\ UNCHANGED <<checkout, writes, books, invoicing, catalogue, plans, bus,
                 trouble>>

\* The bug of activating a purchase that is in the ledger already.
MutantRecord(r) ==
  /\ In(r, "record")
  /\ txs' = txs \cup {Paid(r)}
  /\ Go(r, "plan")
  /\ UNCHANGED <<checkout, writes, credits, invoicing, catalogue, plans, bus,
                 trouble>>

\* A purchase is recorded; the payment id is unique among transactions.
Record(r) ==
  /\ In(r, "record")
  /\ txs' = txs \cup {Paid(r)}
  /\ Go(r, IF Paid(r) \in txs THEN AfterError(r) ELSE "plan")
  /\ UNCHANGED <<checkout, writes, credits, invoicing, catalogue, plans, bus,
                 trouble>>

\* Without the plan a callback gives up; a webhook leaves out the activation.
FindPlan(r) ==
  /\ In(r, "plan")
  /\ IF PlanFor(r) \in catalogue
     THEN /\ writes' = [writes EXCEPT ![r] = Documents]
          /\ Go(r, "activate")
     ELSE /\ Go(r, IF r \in Webhooks THEN "find" ELSE "refused")
          /\ UNCHANGED writes
  /\ UNCHANGED <<checkout, books, invoicing, catalogue, plans, bus, trouble>>

\* The bug of going on after one of the two writes.
MutantActivate(r, d) ==
  /\ d \in writes[r]
  /\ writes' = [writes EXCEPT ![r] = @ \ {d}]
  /\ workspace' = IF d = "workspace" THEN PlanFor(r) ELSE workspace
  /\ subscription' = IF d = "subscription" THEN PlanFor(r) ELSE subscription
  /\ activated' = [activated EXCEPT ![Paid(r)] = @ \cup {d}]
  /\ IF In(r, "activate")
     THEN Go(r, IF r \in Webhooks THEN "find" ELSE "publish")
     ELSE UNCHANGED step
  /\ UNCHANGED <<checkout, books, invoicing, catalogue, bus, trouble>>

\* One of the two writes of an activation, sent together, is done; the request
\* goes on after both, and a write outlives a request that stopped waiting.
Activate(r, d) ==
  /\ d \in writes[r]
  /\ writes' = [writes EXCEPT ![r] = @ \ {d}]
  /\ workspace' = IF d = "workspace" THEN PlanFor(r) ELSE workspace
  /\ subscription' = IF d = "subscription" THEN PlanFor(r) ELSE subscription
  /\ activated' = [activated EXCEPT ![Paid(r)] = @ \cup {d}]
  /\ IF In(r, "activate") /\ writes[r] = {d}
     THEN Go(r, IF r \in Webhooks THEN "find" ELSE "publish")
     ELSE UNCHANGED step
  /\ UNCHANGED <<checkout, books, invoicing, catalogue, bus, trouble>>

\* The bug of crediting whatever the wallet has processed.
MutantCredit(r) ==
  /\ In(r, "credit")
  /\ credits' = [credits EXCEPT ![Paid(r)] = @ + 1]
  /\ Go(r, "book")
  /\ UNCHANGED <<checkout, writes, txs, invoicing, catalogue, plans, bus,
                 trouble>>

\* The wallet takes a payment id once; whoever credits it books it too.
Credit(r) ==
  /\ In(r, "credit")
  /\ IF credits[Paid(r)] = 0
     THEN credits' = [credits EXCEPT ![Paid(r)] = @ + 1] /\ Go(r, "book")
     ELSE Go(r, "findTx") /\ UNCHANGED credits
  /\ UNCHANGED <<checkout, writes, txs, invoicing, catalogue, plans, bus,
                 trouble>>

Book(r) ==
  /\ In(r, "book")
  /\ txs' = txs \cup {Paid(r)}
  /\ Go(r, "findTx")
  /\ UNCHANGED <<checkout, writes, credits, invoicing, catalogue, plans, bus,
                 trouble>>

FindTx(r) ==
  /\ In(r, "findTx")
  /\ Go(r, IF Paid(r) \in txs THEN "find" ELSE AfterInvoice(r))
  /\ UNCHANGED <<checkout, writes, books, invoicing, catalogue, plans, bus,
                 trouble>>

\* The bug of taking any invoice of the workspace for this payment's.
MutantFindInvoice(r) ==
  /\ In(r, "find")
  /\ Go(r, IF \E p \in Payment : invoices[p] # 0 THEN AfterInvoice(r) ELSE "draw")
  /\ UNCHANGED <<checkout, writes, books, invoicing, catalogue, plans, bus,
                 trouble>>

FindInvoice(r) ==
  /\ In(r, "find")
  /\ Go(r, IF invoices[Paid(r)] # 0 THEN AfterInvoice(r) ELSE "draw")
  /\ UNCHANGED <<checkout, writes, books, invoicing, catalogue, plans, bus,
                 trouble>>

\* The number is drawn.  For a plan, the portal's callback comes without
\* workspaceDetails: reading their country throws, here, with the number spent.
DrawNumber(r) ==
  /\ In(r, "draw")
  /\ sequence' = sequence + 1
  /\ drawn' = [drawn EXCEPT ![r] = sequence + 1]
  /\ Go(r, IF r \notin Webhooks /\ Buys(Paid(r)) THEN AfterError(r) ELSE "create")
  /\ UNCHANGED <<checkout, writes, books, invoices, catalogue, plans, bus,
                 trouble>>

\* Numbers and transactions are unique among invoices.
CreateInvoice(r) ==
  LET p == Paid(r) IN
  /\ In(r, "create")
  /\ IF invoices[p] = 0 /\ \A q \in Payment : invoices[q] # drawn[r]
     THEN /\ invoices' = [invoices EXCEPT ![p] = drawn[r]]
          /\ Go(r, AfterInvoice(r))
     ELSE Go(r, AfterError(r)) /\ UNCHANGED invoices
  /\ UNCHANGED <<checkout, writes, books, sequence, drawn, catalogue, plans, bus,
                 trouble>>

\* The bug of leaving the event to the webhook.
MutantPublish(r) ==
  LET p == Paid(r) IN
  /\ In(r, "publish")
  /\ IF r \in Webhooks
     THEN /\ published' = published \cup {p}
          /\ events' = IF Buys(p) THEN events \cup {p} ELSE events
     ELSE UNCHANGED <<published, events>>
  /\ Go(r, IF r \in Webhooks THEN "done" ELSE "find")
  /\ UNCHANGED <<checkout, writes, books, invoicing, catalogue, plans, entitled,
                 trouble>>

\* plan_purchased or wallet_recharged; auth-service acts on the first.
Publish(r) ==
  LET p == Paid(r) IN
  /\ In(r, "publish")
  /\ published' = published \cup {p}
  /\ events' = IF Buys(p) THEN events \cup {p} ELSE events
  /\ Go(r, IF r \in Webhooks THEN "done" ELSE "find")
  /\ UNCHANGED <<checkout, writes, books, invoicing, catalogue, plans, entitled,
                 trouble>>

\* auth-service; its handlers do not wait for one another.
applyPurchasedPlan(p) ==
  /\ p \in events
  /\ events' = events \ {p}
  /\ entitled' = PlanOf[p]
  /\ UNCHANGED <<checkout, step, writes, books, invoicing, catalogue, plans,
                 published, trouble>>

-----------------------------------------------------------------------------
(* Faults. *)

Faulty(p) ==
  /\ faults < MaxFaults
  /\ faults' = faults + 1
  /\ spoiled' = spoiled \cup {p}

Over(r) == step[r] \in {"idle", "done", "refused"}

\* A write or a publish fails, or the process dies.  Writes already sent may be
\* done all the same.
Fail(r) ==
  /\ ~Over(r)
  /\ \E left \in SUBSET writes[r] :
       /\ In(r, "activate") => left # writes[r]
       /\ writes' = [writes EXCEPT ![r] = left]
  /\ Go(r, AfterError(r))
  /\ Faulty(Paid(r))
  /\ UNCHANGED <<checkout, books, invoicing, catalogue, plans, bus>>

\* Redis keeps nothing for a subscriber that is away.
LoseEvent(p) ==
  /\ p \in events
  /\ events' = events \ {p}
  /\ Faulty(p)
  /\ UNCHANGED <<checkout, step, writes, books, invoicing, catalogue, plans,
                 published, entitled>>

-----------------------------------------------------------------------------
Serve(r) ==
  \/ Arrive(r) \/ Check(r) \/ Record(r) \/ FindPlan(r) \/ Credit(r) \/ Book(r)
  \/ FindTx(r) \/ FindInvoice(r) \/ DrawNumber(r) \/ CreateInvoice(r)
  \/ Publish(r)
  \/ \E d \in Documents : Activate(r, d)

Next ==
  \/ \E p \in Payment : CreateOrder(p) \/ Capture(p) \/ applyPurchasedPlan(p)
                        \/ LoseEvent(p)
  \/ \E pl \in Plan : deletePlan(pl)
  \/ SwitchToFree
  \/ \E r \in Request : Serve(r) \/ Fail(r)

\* Requests that were received are served, the provider delivers until it is
\* answered, and auth-service handles what it was sent.  Nobody has to pay, and
\* no callback has to come.
Fairness ==
  /\ \A r \in Request : WF_vars(Serve(r) /\ (r \in Webhooks \/ ~In(r, "idle")))
  /\ \A p \in Payment : WF_vars(applyPurchasedPlan(p))

Spec == Init /\ [][Next]_vars
FairSpec == Spec /\ Fairness

-----------------------------------------------------------------------------
RequestsOf(p) == {r \in Request : PayOf[r] = p}
Settled(p) == \A r \in RequestsOf(p) : Over(r)
Withdrawn(p) == PlanOf[p] \notin catalogue

\* The wallet and its ledger agree: a payment is credited once however often it
\* is reported, what is booked was credited, and what was credited is booked or
\* about to be, unless a fault came between.
WalletIsBooked ==
  \A p \in Payment : ~Buys(p) =>
    /\ p \in txs => credits[p] = 1
    /\ /\ credits[p] > 0
       /\ p \notin spoiled
       /\ \A r \in RequestsOf(p) : ~In(r, "book")
       => p \in txs

\* Somebody paid for every plan that any of the three documents names.
PlansArePaid ==
  {workspace, subscription, entitled} \ {NoPlan, Free} \subseteq {PlanOf[p] : p \in txs}

\* A recorded purchase is carried through by whoever recorded it, though every
\* other request of it is turned away: with none under way and no fault met, both
\* documents were written and auth-service was told, if the plan still exists.
PurchaseCompletes ==
  \A p \in txs \ spoiled :
    Buys(p) /\ Settled(p) /\ ~Withdrawn(p)
    => activated[p] = Documents /\ p \in published

\* Invoices stand for transactions, and no number is used twice; an undisturbed
\* recharge has its invoice in the end, whoever of callback and webhook made it.
InvoicesAreRight ==
  /\ \A p \in Payment : invoices[p] # 0 =>
       /\ p \in txs
       /\ \A q \in Payment \ {p} : invoices[q] # invoices[p]
  /\ \A p \in txs \ spoiled : ~Buys(p) /\ Settled(p) => invoices[p] # 0

\* Money the provider took reaches the books, whatever fails on the way, if a
\* webhook reports it.
CapturedIsKept ==
  \A p \in Payment :
    (/\ p \in captured
     /\ \E r \in RequestsOf(p) : r \in Webhooks)
    ~> (IF Buys(p) THEN p \in txs ELSE credits[p] = 1)

\* A purchase that met no fault becomes the limits that are enforced.
PurchaseIsApplied ==
  \A p \in {q \in Payment : Buys(q)} :
    p \in txs
    ~> (\/ p \in published \ events
        \/ p \in spoiled
        \/ Withdrawn(p))

\* A payment has had its chance to change what auth-service enforces when the event
\* is no longer on its way, whether it was handled or lost.
Used(p) ==
  activated[p] \cup (IF Buys(p) /\ p \in published \ events THEN {"limits"} ELSE {})

\* Whoever reports a payment, however often, and whatever dies in between: money,
\* books, plans and invoices change as PaidWorkspace allows.  A late report never
\* takes back a plan that was bought since.
Desk == INSTANCE PaidWorkspace
          WITH taken <- captured, booked <- txs,
               granted <- [p \in Payment |-> Used(p)],
               plan <- [d \in {"workspace", "subscription", "limits"} |->
                          IF d = "workspace" THEN workspace
                          ELSE IF d = "subscription" THEN subscription
                          ELSE entitled]

ImplementsDesk == Desk!Spec
=============================================================================

--------------------------- MODULE PaymentsProofs ---------------------------
(***************************************************************************)
(* Proofs about Payments, for any number of payments, plans and requests,  *)
(* however the requests are divided among the payments, and any number of  *)
(* faults.                                                                 *)
(***************************************************************************)
EXTENDS Payments, TLAPS

-----------------------------------------------------------------------------
(* The inductive invariant: types; what a request knows at each step; who    *)
(* carries a purchase through; which invoice numbers are spoken for.         *)

CheckoutOK ==
  /\ orders \subseteq Payment
  /\ captured \subseteq orders
  /\ txs \subseteq captured
  /\ events \subseteq published
  /\ published \subseteq Payment
  /\ spoiled \subseteq Payment
  /\ faults \in 0..MaxFaults

RequestOK ==
  /\ step \in [Request -> Steps]
  /\ writes \in [Request -> SUBSET Documents]
  /\ activated \in [Payment -> SUBSET Documents]

NumberOK ==
  /\ credits \in [Payment -> Nat]
  /\ sequence \in Nat
  /\ drawn \in [Request -> Nat]
  /\ invoices \in [Payment -> Nat]
  /\ \A r \in Request : drawn[r] <= sequence
  /\ \A p \in Payment : invoices[p] <= sequence

PlanOK ==
  /\ catalogue \subseteq Plan
  /\ workspace \in Plan \cup {Free, NoPlan}
  /\ subscription \in Plan \cup {Free, NoPlan}
  /\ entitled \in Plan \cup {Free, NoPlan}

\* What a request at a step may take for granted about its payment.
Knows(r) ==
  /\ step[r] # "idle" => Paid(r) \in captured
  /\ step[r] \in {"credit", "book", "findTx"} => ~Buys(Paid(r))
  /\ step[r] \in {"record", "plan", "activate"} => Buys(Paid(r))
  /\ r \notin Webhooks => step[r] # "check"
  /\ r \notin Webhooks /\ step[r] = "publish" => Buys(Paid(r))
  /\ step[r] \in {"plan", "activate", "find", "draw", "create"} => Paid(r) \in txs
  /\ step[r] = "publish" /\ Buys(Paid(r)) => Paid(r) \in txs
  /\ step[r] = "book" => credits[Paid(r)] = 1
  /\ writes[r] # {} => Buys(Paid(r)) /\ Paid(r) \in txs
  /\ step[r] = "activate" => writes[r] # {}

KnowledgeInv == \A r \in Request : Knows(r)

\* The request that recorded a purchase, until it ends; nobody else gets there.
Drives(r) == step[r] \in {"plan", "activate", "publish", "find", "draw", "create"}

DriverInv ==
  /\ \A r, s \in Request :
       Drives(r) /\ Drives(s) /\ Paid(r) = Paid(s) /\ Buys(Paid(r)) => r = s
  /\ \A r \in Request :
       step[r] \in {"draw", "create"} /\ Buys(Paid(r)) => invoices[Paid(r)] = 0

\* A number that was drawn for an invoice is nobody else's.
NumberInv ==
  /\ \A r \in Request : step[r] = "create" =>
       /\ drawn[r] # 0
       /\ \A q \in Payment : invoices[q] # drawn[r]
  /\ \A r, s \in Request :
       step[r] = "create" /\ step[s] = "create" /\ drawn[r] = drawn[s] => r = s
  /\ \A p \in Payment : invoices[p] # 0 => p \in txs
  /\ \A p, q \in Payment : invoices[p] # 0 /\ invoices[p] = invoices[q] => p = q

\* The invoice of a booked recharge exists or is on its way.
InvoiceInv ==
  \A p \in txs \ spoiled : ~Buys(p) =>
    \/ invoices[p] # 0
    \/ \E r \in Request : Paid(r) = p /\ step[r] \in {"findTx", "find", "draw", "create"}

\* The money of a recharge that was credited is in the ledger or about to be.
WalletInv ==
  \A p \in Payment : ~Buys(p) =>
    /\ p \in txs => credits[p] = 1
    /\ credits[p] # 0 /\ p \notin spoiled /\ p \notin txs
       => \E r \in Request : Paid(r) = p /\ step[r] = "book"

PaidFor(pl) == pl \in {NoPlan, Free} \/ \E p \in txs : PlanOf[p] = pl

PlansInv ==
  /\ PaidFor(workspace) /\ PaidFor(subscription) /\ PaidFor(entitled)
  /\ \A p \in events : p \in txs /\ Buys(p)

\* A recorded purchase is being carried through, or was.
Carried(p) ==
  \/ Withdrawn(p)
  \/ \E r \in Request : Paid(r) = p /\ step[r] = "plan"
  \/ \E r \in Request : /\ Paid(r) = p /\ step[r] = "activate"
                        /\ Documents \subseteq writes[r] \cup activated[p]
  \/ /\ Documents \subseteq activated[p]
     /\ \/ p \in published
        \/ \E r \in Request :
             /\ Paid(r) = p
             /\ \/ step[r] = "publish"
                \/ r \in Webhooks /\ step[r] \in {"find", "draw", "create"}

PurchaseInv == \A p \in txs \ spoiled : Buys(p) => Carried(p)

BeforeEvent(r) ==
  /\ Buys(Paid(r))
  /\ \/ step[r] \in {"plan", "activate", "publish"}
     \/ r \in Webhooks /\ step[r] \in {"find", "draw", "create"}

\* What a purchase has still to do it has not done yet, and nobody else is to do it:
\* a write of its activation is sent once, and so is its event.
OnceInv ==
  /\ \A p \in Payment :
       Buys(p) /\ p \notin txs => activated[p] = {} /\ p \notin published
  /\ \A r \in Request : \A d \in writes[r] : d \notin activated[Paid(r)]
  /\ \A r, s \in Request :
       writes[r] # {} /\ writes[s] # {} /\ Paid(r) = Paid(s) => r = s
  /\ \A r, s \in Request :
       step[r] = "plan" /\ Paid(s) = Paid(r)
       => writes[s] = {} /\ activated[Paid(r)] = {}
  /\ \A r \in Request : BeforeEvent(r) => Paid(r) \notin published

Shape == CheckoutOK /\ RequestOK /\ NumberOK /\ PlanOK
Inv ==
  /\ Shape /\ KnowledgeInv /\ DriverInv /\ NumberInv
  /\ InvoiceInv /\ WalletInv /\ PlansInv /\ PurchaseInv /\ OnceInv

LEMMA InitInv == Init => Inv
BY PaymentsAssumption
   DEF Init, Inv, Shape, CheckoutOK, RequestOK, NumberOK, PlanOK, KnowledgeInv,
       Knows, DriverInv, Drives, NumberInv, InvoiceInv, WalletInv, PlansInv,
       PaidFor, PurchaseInv, OnceInv, BeforeEvent, Steps

-----------------------------------------------------------------------------
(* Each part is kept by every step.                                        *)

LEMMA CheckoutKept ==
  ASSUME CheckoutOK, KnowledgeInv, Next
  PROVE  CheckoutOK'
<1> USE PaymentsAssumption DEF In, Go, Paid, CheckoutOK, Knows, KnowledgeInv
<1>1. ASSUME NEW p \in Payment, CreateOrder(p) PROVE CheckoutOK'
  BY <1>1 DEF CreateOrder, Buys, checkout, books, invoicing, plans, bus,
      trouble
<1>2. ASSUME NEW p \in Payment, Capture(p) PROVE CheckoutOK'
  BY <1>2 DEF Capture, checkout, books, invoicing, plans, bus, trouble
<1>3. ASSUME NEW p \in Payment, applyPurchasedPlan(p) PROVE CheckoutOK'
  BY <1>3 DEF applyPurchasedPlan, checkout, books, invoicing, plans, bus,
      trouble
<1>4. ASSUME NEW p \in Payment, LoseEvent(p) PROVE CheckoutOK'
  BY <1>4 DEF LoseEvent, Faulty, checkout, books, invoicing, plans, bus,
      trouble
<1>5. ASSUME NEW pl \in Plan, deletePlan(pl) PROVE CheckoutOK'
  BY <1>5 DEF deletePlan, checkout, books, invoicing, plans, bus, trouble
<1>6. ASSUME SwitchToFree PROVE CheckoutOK'
  BY <1>6 DEF SwitchToFree, checkout, books, invoicing, plans, bus, trouble
<1>7. ASSUME NEW r \in Request, Arrive(r) PROVE CheckoutOK'
  BY <1>7 DEF Arrive, Work, Buys, checkout, books, invoicing, plans, bus,
      trouble
<1>8. ASSUME NEW r \in Request, Check(r) PROVE CheckoutOK'
  BY <1>8 DEF Check, Work, Buys, checkout, books, invoicing, plans, bus,
      trouble
<1>9. ASSUME NEW r \in Request, Record(r) PROVE CheckoutOK'
  BY <1>9 DEF Record, AfterError, checkout, books, invoicing, plans, bus,
      trouble
<1>10. ASSUME NEW r \in Request, FindPlan(r) PROVE CheckoutOK'
  BY <1>10 DEF FindPlan, PlanFor, Documents, checkout, books, invoicing, plans,
      bus, trouble
<1>11. ASSUME NEW r \in Request, NEW d \in Documents, Activate(r, d)
     PROVE  CheckoutOK'
  BY <1>11 DEF Activate, PlanFor, Documents, checkout, books, invoicing, plans,
      bus, trouble
<1>12. ASSUME NEW r \in Request, Credit(r) PROVE CheckoutOK'
  BY <1>12 DEF Credit, checkout, books, invoicing, plans, bus, trouble
<1>13. ASSUME NEW r \in Request, Book(r) PROVE CheckoutOK'
  BY <1>13 DEF Book, checkout, books, invoicing, plans, bus, trouble
<1>14. ASSUME NEW r \in Request, FindTx(r) PROVE CheckoutOK'
  BY <1>14 DEF FindTx, AfterInvoice, checkout, books, invoicing, plans, bus,
      trouble
<1>15. ASSUME NEW r \in Request, FindInvoice(r) PROVE CheckoutOK'
  BY <1>15 DEF FindInvoice, AfterInvoice, checkout, books, invoicing, plans,
      bus, trouble
<1>16. ASSUME NEW r \in Request, DrawNumber(r) PROVE CheckoutOK'
  BY <1>16 DEF DrawNumber, AfterError, Buys, checkout, books, invoicing, plans,
      bus, trouble
<1>17. ASSUME NEW r \in Request, CreateInvoice(r) PROVE CheckoutOK'
  BY <1>17 DEF CreateInvoice, AfterInvoice, AfterError, checkout, books,
      invoicing, plans, bus, trouble
<1>18. ASSUME NEW r \in Request, Publish(r) PROVE CheckoutOK'
  BY <1>18 DEF Publish, Buys, checkout, books, invoicing, plans, bus, trouble
<1>19. ASSUME NEW r \in Request, Fail(r) PROVE CheckoutOK'
  BY <1>19 DEF Fail, AfterError, Over, Faulty, checkout, books, invoicing,
      plans, bus, trouble
<1> QED
  BY <1>1, <1>2, <1>3, <1>4, <1>5, <1>6, <1>7, <1>8, <1>9, <1>10, <1>11, <1>12,
      <1>13, <1>14, <1>15, <1>16, <1>17, <1>18, <1>19 DEF Next, Serve

LEMMA RequestKept ==
  ASSUME RequestOK, Next
  PROVE  RequestOK'
<1> USE PaymentsAssumption DEF In, Go, Paid, RequestOK, Steps
<1>1. ASSUME NEW p \in Payment, CreateOrder(p) PROVE RequestOK'
  BY <1>1 DEF CreateOrder, Buys, checkout, books, invoicing, plans, bus,
      trouble
<1>2. ASSUME NEW p \in Payment, Capture(p) PROVE RequestOK'
  BY <1>2 DEF Capture, checkout, books, invoicing, plans, bus, trouble
<1>3. ASSUME NEW p \in Payment, applyPurchasedPlan(p) PROVE RequestOK'
  BY <1>3 DEF applyPurchasedPlan, checkout, books, invoicing, plans, bus,
      trouble
<1>4. ASSUME NEW p \in Payment, LoseEvent(p) PROVE RequestOK'
  BY <1>4 DEF LoseEvent, Faulty, checkout, books, invoicing, plans, bus,
      trouble
<1>5. ASSUME NEW pl \in Plan, deletePlan(pl) PROVE RequestOK'
  BY <1>5 DEF deletePlan, checkout, books, invoicing, plans, bus, trouble
<1>6. ASSUME SwitchToFree PROVE RequestOK'
  BY <1>6 DEF SwitchToFree, checkout, books, invoicing, plans, bus, trouble
<1>7. ASSUME NEW r \in Request, Arrive(r) PROVE RequestOK'
  BY <1>7 DEF Arrive, Work, Buys, checkout, books, invoicing, plans, bus,
      trouble
<1>8. ASSUME NEW r \in Request, Check(r) PROVE RequestOK'
  BY <1>8 DEF Check, Work, Buys, checkout, books, invoicing, plans, bus,
      trouble
<1>9. ASSUME NEW r \in Request, Record(r) PROVE RequestOK'
  BY <1>9 DEF Record, AfterError, checkout, books, invoicing, plans, bus,
      trouble
<1>10. ASSUME NEW r \in Request, FindPlan(r) PROVE RequestOK'
  BY <1>10 DEF FindPlan, PlanFor, Documents, checkout, books, invoicing, plans,
      bus, trouble
<1>11. ASSUME NEW r \in Request, NEW d \in Documents, Activate(r, d)
     PROVE  RequestOK'
  BY <1>11 DEF Activate, PlanFor, Documents, checkout, books, invoicing, plans,
      bus, trouble
<1>12. ASSUME NEW r \in Request, Credit(r) PROVE RequestOK'
  BY <1>12 DEF Credit, checkout, books, invoicing, plans, bus, trouble
<1>13. ASSUME NEW r \in Request, Book(r) PROVE RequestOK'
  BY <1>13 DEF Book, checkout, books, invoicing, plans, bus, trouble
<1>14. ASSUME NEW r \in Request, FindTx(r) PROVE RequestOK'
  BY <1>14 DEF FindTx, AfterInvoice, checkout, books, invoicing, plans, bus,
      trouble
<1>15. ASSUME NEW r \in Request, FindInvoice(r) PROVE RequestOK'
  BY <1>15 DEF FindInvoice, AfterInvoice, checkout, books, invoicing, plans,
      bus, trouble
<1>16. ASSUME NEW r \in Request, DrawNumber(r) PROVE RequestOK'
  BY <1>16 DEF DrawNumber, AfterError, Buys, checkout, books, invoicing, plans,
      bus, trouble
<1>17. ASSUME NEW r \in Request, CreateInvoice(r) PROVE RequestOK'
  BY <1>17 DEF CreateInvoice, AfterInvoice, AfterError, checkout, books,
      invoicing, plans, bus, trouble
<1>18. ASSUME NEW r \in Request, Publish(r) PROVE RequestOK'
  BY <1>18 DEF Publish, Buys, checkout, books, invoicing, plans, bus, trouble
<1>19. ASSUME NEW r \in Request, Fail(r) PROVE RequestOK'
  BY <1>19 DEF Fail, AfterError, Over, Faulty, checkout, books, invoicing,
      plans, bus, trouble
<1> QED
  BY <1>1, <1>2, <1>3, <1>4, <1>5, <1>6, <1>7, <1>8, <1>9, <1>10, <1>11, <1>12,
      <1>13, <1>14, <1>15, <1>16, <1>17, <1>18, <1>19 DEF Next, Serve

LEMMA NumberKept ==
  ASSUME NumberOK, Next
  PROVE  NumberOK'
<1> USE PaymentsAssumption DEF In, Go, Paid, NumberOK
<1>1. ASSUME NEW p \in Payment, CreateOrder(p) PROVE NumberOK'
  BY <1>1 DEF CreateOrder, Buys, checkout, books, invoicing, plans, bus,
      trouble
<1>2. ASSUME NEW p \in Payment, Capture(p) PROVE NumberOK'
  BY <1>2 DEF Capture, checkout, books, invoicing, plans, bus, trouble
<1>3. ASSUME NEW p \in Payment, applyPurchasedPlan(p) PROVE NumberOK'
  BY <1>3 DEF applyPurchasedPlan, checkout, books, invoicing, plans, bus,
      trouble
<1>4. ASSUME NEW p \in Payment, LoseEvent(p) PROVE NumberOK'
  BY <1>4 DEF LoseEvent, Faulty, checkout, books, invoicing, plans, bus,
      trouble
<1>5. ASSUME NEW pl \in Plan, deletePlan(pl) PROVE NumberOK'
  BY <1>5 DEF deletePlan, checkout, books, invoicing, plans, bus, trouble
<1>6. ASSUME SwitchToFree PROVE NumberOK'
  BY <1>6 DEF SwitchToFree, checkout, books, invoicing, plans, bus, trouble
<1>7. ASSUME NEW r \in Request, Arrive(r) PROVE NumberOK'
  BY <1>7 DEF Arrive, Work, Buys, checkout, books, invoicing, plans, bus,
      trouble
<1>8. ASSUME NEW r \in Request, Check(r) PROVE NumberOK'
  BY <1>8 DEF Check, Work, Buys, checkout, books, invoicing, plans, bus,
      trouble
<1>9. ASSUME NEW r \in Request, Record(r) PROVE NumberOK'
  BY <1>9 DEF Record, AfterError, checkout, books, invoicing, plans, bus,
      trouble
<1>10. ASSUME NEW r \in Request, FindPlan(r) PROVE NumberOK'
  BY <1>10 DEF FindPlan, PlanFor, Documents, checkout, books, invoicing, plans,
      bus, trouble
<1>11. ASSUME NEW r \in Request, NEW d \in Documents, Activate(r, d)
     PROVE  NumberOK'
  BY <1>11 DEF Activate, PlanFor, Documents, checkout, books, invoicing, plans,
      bus, trouble
<1>12. ASSUME NEW r \in Request, Credit(r) PROVE NumberOK'
  BY <1>12 DEF Credit, checkout, books, invoicing, plans, bus, trouble
<1>13. ASSUME NEW r \in Request, Book(r) PROVE NumberOK'
  BY <1>13 DEF Book, checkout, books, invoicing, plans, bus, trouble
<1>14. ASSUME NEW r \in Request, FindTx(r) PROVE NumberOK'
  BY <1>14 DEF FindTx, AfterInvoice, checkout, books, invoicing, plans, bus,
      trouble
<1>15. ASSUME NEW r \in Request, FindInvoice(r) PROVE NumberOK'
  BY <1>15 DEF FindInvoice, AfterInvoice, checkout, books, invoicing, plans,
      bus, trouble
<1>16. ASSUME NEW r \in Request, DrawNumber(r) PROVE NumberOK'
  BY <1>16 DEF DrawNumber, AfterError, Buys, checkout, books, invoicing, plans,
      bus, trouble
<1>17. ASSUME NEW r \in Request, CreateInvoice(r) PROVE NumberOK'
  BY <1>17 DEF CreateInvoice, AfterInvoice, AfterError, checkout, books,
      invoicing, plans, bus, trouble
<1>18. ASSUME NEW r \in Request, Publish(r) PROVE NumberOK'
  BY <1>18 DEF Publish, Buys, checkout, books, invoicing, plans, bus, trouble
<1>19. ASSUME NEW r \in Request, Fail(r) PROVE NumberOK'
  BY <1>19 DEF Fail, AfterError, Over, Faulty, checkout, books, invoicing,
      plans, bus, trouble
<1> QED
  BY <1>1, <1>2, <1>3, <1>4, <1>5, <1>6, <1>7, <1>8, <1>9, <1>10, <1>11, <1>12,
      <1>13, <1>14, <1>15, <1>16, <1>17, <1>18, <1>19 DEF Next, Serve

LEMMA PlanKept ==
  ASSUME PlanOK, RequestOK, CheckoutOK, PlansInv, Next
  PROVE  PlanOK'
<1> USE PaymentsAssumption DEF In, Go, Paid, PlanOK, PlansInv
<1>1. ASSUME NEW p \in Payment, CreateOrder(p) PROVE PlanOK'
  BY <1>1 DEF CreateOrder, Buys, RequestOK, CheckoutOK, checkout, books,
      invoicing, plans, bus, trouble
<1>2. ASSUME NEW p \in Payment, Capture(p) PROVE PlanOK'
  BY <1>2 DEF Capture, RequestOK, CheckoutOK, checkout, books, invoicing,
      plans, bus, trouble
<1>3. ASSUME NEW p \in Payment, applyPurchasedPlan(p) PROVE PlanOK'
  BY <1>3 DEF applyPurchasedPlan, RequestOK, CheckoutOK, checkout, books,
      invoicing, plans, bus, trouble
<1>4. ASSUME NEW p \in Payment, LoseEvent(p) PROVE PlanOK'
  BY <1>4 DEF LoseEvent, Faulty, RequestOK, CheckoutOK, checkout, books,
      invoicing, plans, bus, trouble
<1>5. ASSUME NEW pl \in Plan, deletePlan(pl) PROVE PlanOK'
  BY <1>5 DEF deletePlan, RequestOK, CheckoutOK, checkout, books, invoicing,
      plans, bus, trouble
<1>6. ASSUME SwitchToFree PROVE PlanOK'
  BY <1>6 DEF SwitchToFree, RequestOK, CheckoutOK, checkout, books, invoicing,
      plans, bus, trouble
<1>7. ASSUME NEW r \in Request, Arrive(r) PROVE PlanOK'
  BY <1>7 DEF Arrive, Work, Buys, RequestOK, CheckoutOK, checkout, books,
      invoicing, plans, bus, trouble
<1>8. ASSUME NEW r \in Request, Check(r) PROVE PlanOK'
  BY <1>8 DEF Check, Work, Buys, RequestOK, CheckoutOK, checkout, books,
      invoicing, plans, bus, trouble
<1>9. ASSUME NEW r \in Request, Record(r) PROVE PlanOK'
  BY <1>9 DEF Record, AfterError, RequestOK, CheckoutOK, checkout, books,
      invoicing, plans, bus, trouble
<1>10. ASSUME NEW r \in Request, FindPlan(r) PROVE PlanOK'
  BY <1>10 DEF FindPlan, PlanFor, Documents, RequestOK, CheckoutOK, checkout,
      books, invoicing, plans, bus, trouble
<1>11. ASSUME NEW r \in Request, NEW d \in Documents, Activate(r, d)
     PROVE  PlanOK'
  BY <1>11 DEF Activate, PlanFor, Documents, RequestOK, CheckoutOK, checkout,
      books, invoicing, plans, bus, trouble
<1>12. ASSUME NEW r \in Request, Credit(r) PROVE PlanOK'
  BY <1>12 DEF Credit, RequestOK, CheckoutOK, checkout, books, invoicing,
      plans, bus, trouble
<1>13. ASSUME NEW r \in Request, Book(r) PROVE PlanOK'
  BY <1>13 DEF Book, RequestOK, CheckoutOK, checkout, books, invoicing, plans,
      bus, trouble
<1>14. ASSUME NEW r \in Request, FindTx(r) PROVE PlanOK'
  BY <1>14 DEF FindTx, AfterInvoice, RequestOK, CheckoutOK, checkout, books,
      invoicing, plans, bus, trouble
<1>15. ASSUME NEW r \in Request, FindInvoice(r) PROVE PlanOK'
  BY <1>15 DEF FindInvoice, AfterInvoice, RequestOK, CheckoutOK, checkout,
      books, invoicing, plans, bus, trouble
<1>16. ASSUME NEW r \in Request, DrawNumber(r) PROVE PlanOK'
  BY <1>16 DEF DrawNumber, AfterError, Buys, RequestOK, CheckoutOK, checkout,
      books, invoicing, plans, bus, trouble
<1>17. ASSUME NEW r \in Request, CreateInvoice(r) PROVE PlanOK'
  BY <1>17 DEF CreateInvoice, AfterInvoice, AfterError, RequestOK, CheckoutOK,
      checkout, books, invoicing, plans, bus, trouble
<1>18. ASSUME NEW r \in Request, Publish(r) PROVE PlanOK'
  BY <1>18 DEF Publish, Buys, RequestOK, CheckoutOK, checkout, books,
      invoicing, plans, bus, trouble
<1>19. ASSUME NEW r \in Request, Fail(r) PROVE PlanOK'
  BY <1>19 DEF Fail, AfterError, Over, Faulty, RequestOK, CheckoutOK, checkout,
      books, invoicing, plans, bus, trouble
<1> QED
  BY <1>1, <1>2, <1>3, <1>4, <1>5, <1>6, <1>7, <1>8, <1>9, <1>10, <1>11, <1>12,
      <1>13, <1>14, <1>15, <1>16, <1>17, <1>18, <1>19 DEF Next, Serve

LEMMA KnowledgeKept ==
  ASSUME CheckoutOK, RequestOK, NumberOK, KnowledgeInv, Next
  PROVE  KnowledgeInv'
<1> USE PaymentsAssumption DEF In, Go, Paid, KnowledgeInv, Knows
<1>1. ASSUME NEW p \in Payment, CreateOrder(p) PROVE KnowledgeInv'
  BY <1>1 DEF CreateOrder, Buys, CheckoutOK, RequestOK, NumberOK, checkout,
      books, invoicing, plans, bus, trouble
<1>2. ASSUME NEW p \in Payment, Capture(p) PROVE KnowledgeInv'
  BY <1>2 DEF Capture, CheckoutOK, RequestOK, NumberOK, checkout, books,
      invoicing, plans, bus, trouble
<1>3. ASSUME NEW p \in Payment, applyPurchasedPlan(p) PROVE KnowledgeInv'
  BY <1>3 DEF applyPurchasedPlan, CheckoutOK, RequestOK, NumberOK, checkout,
      books, invoicing, plans, bus, trouble
<1>4. ASSUME NEW p \in Payment, LoseEvent(p) PROVE KnowledgeInv'
  BY <1>4 DEF LoseEvent, Faulty, CheckoutOK, RequestOK, NumberOK, checkout,
      books, invoicing, plans, bus, trouble
<1>5. ASSUME NEW pl \in Plan, deletePlan(pl) PROVE KnowledgeInv'
  BY <1>5 DEF deletePlan, CheckoutOK, RequestOK, NumberOK, checkout, books,
      invoicing, plans, bus, trouble
<1>6. ASSUME SwitchToFree PROVE KnowledgeInv'
  BY <1>6 DEF SwitchToFree, CheckoutOK, RequestOK, NumberOK, checkout, books,
      invoicing, plans, bus, trouble
<1>7. ASSUME NEW r \in Request, Arrive(r) PROVE KnowledgeInv'
  BY <1>7 DEF Arrive, Work, Buys, CheckoutOK, RequestOK, NumberOK, checkout,
      books, invoicing, plans, bus, trouble
<1>8. ASSUME NEW r \in Request, Check(r) PROVE KnowledgeInv'
  BY <1>8 DEF Check, Work, Buys, CheckoutOK, RequestOK, NumberOK, checkout,
      books, invoicing, plans, bus, trouble
<1>9. ASSUME NEW r \in Request, Record(r) PROVE KnowledgeInv'
  BY <1>9 DEF Record, AfterError, CheckoutOK, RequestOK, NumberOK, checkout,
      books, invoicing, plans, bus, trouble
<1>10. ASSUME NEW r \in Request, FindPlan(r) PROVE KnowledgeInv'
  <2>1. Documents # {}
    BY DEF Documents
  <2>2. CASE PlanFor(r) \in catalogue
    BY <1>10, <2>1, <2>2
    DEF FindPlan, RequestOK, CheckoutOK, checkout, books, plans, bus, trouble
  <2>3. CASE PlanFor(r) \notin catalogue
    BY <1>10, <2>3 DEF FindPlan, RequestOK, checkout, books, plans, bus, trouble
  <2> QED
    BY <2>2, <2>3
<1>11. ASSUME NEW r \in Request, NEW d \in Documents, Activate(r, d)
     PROVE  KnowledgeInv'
  BY <1>11 DEF Activate, PlanFor, Documents, CheckoutOK, RequestOK, NumberOK,
      checkout, books, invoicing, plans, bus, trouble
<1>12. ASSUME NEW r \in Request, Credit(r) PROVE KnowledgeInv'
  BY <1>12 DEF Credit, CheckoutOK, RequestOK, NumberOK, checkout, books,
      invoicing, plans, bus, trouble
<1>13. ASSUME NEW r \in Request, Book(r) PROVE KnowledgeInv'
  BY <1>13 DEF Book, CheckoutOK, RequestOK, NumberOK, checkout, books,
      invoicing, plans, bus, trouble
<1>14. ASSUME NEW r \in Request, FindTx(r) PROVE KnowledgeInv'
  BY <1>14 DEF FindTx, AfterInvoice, CheckoutOK, RequestOK, NumberOK, checkout,
      books, invoicing, plans, bus, trouble
<1>15. ASSUME NEW r \in Request, FindInvoice(r) PROVE KnowledgeInv'
  BY <1>15 DEF FindInvoice, AfterInvoice, CheckoutOK, RequestOK, NumberOK,
      checkout, books, invoicing, plans, bus, trouble
<1>16. ASSUME NEW r \in Request, DrawNumber(r) PROVE KnowledgeInv'
  BY <1>16 DEF DrawNumber, AfterError, Buys, CheckoutOK, RequestOK, NumberOK,
      checkout, books, invoicing, plans, bus, trouble
<1>17. ASSUME NEW r \in Request, CreateInvoice(r) PROVE KnowledgeInv'
  BY <1>17 DEF CreateInvoice, AfterInvoice, AfterError, CheckoutOK, RequestOK,
      NumberOK, checkout, books, invoicing, plans, bus, trouble
<1>18. ASSUME NEW r \in Request, Publish(r) PROVE KnowledgeInv'
  BY <1>18 DEF Publish, Buys, CheckoutOK, RequestOK, NumberOK, checkout, books,
      invoicing, plans, bus, trouble
<1>19. ASSUME NEW r \in Request, Fail(r) PROVE KnowledgeInv'
  BY <1>19 DEF Fail, AfterError, Over, Faulty, CheckoutOK, RequestOK, NumberOK,
      checkout, books, invoicing, plans, bus, trouble
<1> QED
  BY <1>1, <1>2, <1>3, <1>4, <1>5, <1>6, <1>7, <1>8, <1>9, <1>10, <1>11, <1>12,
      <1>13, <1>14, <1>15, <1>16, <1>17, <1>18, <1>19 DEF Next, Serve

LEMMA DriverKept ==
  ASSUME CheckoutOK, RequestOK, NumberOK, KnowledgeInv, DriverInv, Next
  PROVE  DriverInv'
<1> USE PaymentsAssumption DEF In, Go, Paid, DriverInv, Drives
<1>1. ASSUME NEW p \in Payment, CreateOrder(p) PROVE DriverInv'
  BY <1>1 DEF CreateOrder, Buys, CheckoutOK, RequestOK, NumberOK, KnowledgeInv,
      Knows, checkout, books, invoicing, plans, bus, trouble
<1>2. ASSUME NEW p \in Payment, Capture(p) PROVE DriverInv'
  BY <1>2 DEF Capture, CheckoutOK, RequestOK, NumberOK, KnowledgeInv, Knows,
      checkout, books, invoicing, plans, bus, trouble
<1>3. ASSUME NEW p \in Payment, applyPurchasedPlan(p) PROVE DriverInv'
  BY <1>3 DEF applyPurchasedPlan, CheckoutOK, RequestOK, NumberOK,
      KnowledgeInv, Knows, checkout, books, invoicing, plans, bus, trouble
<1>4. ASSUME NEW p \in Payment, LoseEvent(p) PROVE DriverInv'
  BY <1>4 DEF LoseEvent, Faulty, CheckoutOK, RequestOK, NumberOK, KnowledgeInv,
      Knows, checkout, books, invoicing, plans, bus, trouble
<1>5. ASSUME NEW pl \in Plan, deletePlan(pl) PROVE DriverInv'
  BY <1>5 DEF deletePlan, CheckoutOK, RequestOK, NumberOK, KnowledgeInv, Knows,
      checkout, books, invoicing, plans, bus, trouble
<1>6. ASSUME SwitchToFree PROVE DriverInv'
  BY <1>6 DEF SwitchToFree, CheckoutOK, RequestOK, NumberOK, KnowledgeInv,
      Knows, checkout, books, invoicing, plans, bus, trouble
<1>7. ASSUME NEW r \in Request, Arrive(r) PROVE DriverInv'
  BY <1>7 DEF Arrive, Work, Buys, CheckoutOK, RequestOK, NumberOK,
      KnowledgeInv, Knows, checkout, books, invoicing, plans, bus, trouble
<1>8. ASSUME NEW r \in Request, Check(r) PROVE DriverInv'
  BY <1>8 DEF Check, Work, Buys, CheckoutOK, RequestOK, NumberOK, KnowledgeInv,
      Knows, checkout, books, invoicing, plans, bus, trouble
<1>9. ASSUME NEW r \in Request, Record(r) PROVE DriverInv'
  BY <1>9 DEF Record, AfterError, CheckoutOK, RequestOK, NumberOK,
      KnowledgeInv, Knows, checkout, books, invoicing, plans, bus, trouble
<1>10. ASSUME NEW r \in Request, FindPlan(r) PROVE DriverInv'
  BY <1>10 DEF FindPlan, PlanFor, Documents, CheckoutOK, RequestOK, NumberOK,
      KnowledgeInv, Knows, checkout, books, invoicing, plans, bus, trouble
<1>11. ASSUME NEW r \in Request, NEW d \in Documents, Activate(r, d)
     PROVE  DriverInv'
  BY <1>11 DEF Activate, PlanFor, Documents, CheckoutOK, RequestOK, NumberOK,
      KnowledgeInv, Knows, checkout, books, invoicing, plans, bus, trouble
<1>12. ASSUME NEW r \in Request, Credit(r) PROVE DriverInv'
  BY <1>12 DEF Credit, CheckoutOK, RequestOK, NumberOK, KnowledgeInv, Knows,
      checkout, books, invoicing, plans, bus, trouble
<1>13. ASSUME NEW r \in Request, Book(r) PROVE DriverInv'
  BY <1>13 DEF Book, CheckoutOK, RequestOK, NumberOK, KnowledgeInv, Knows,
      checkout, books, invoicing, plans, bus, trouble
<1>14. ASSUME NEW r \in Request, FindTx(r) PROVE DriverInv'
  BY <1>14 DEF FindTx, AfterInvoice, CheckoutOK, RequestOK, NumberOK,
      KnowledgeInv, Knows, checkout, books, invoicing, plans, bus, trouble
<1>15. ASSUME NEW r \in Request, FindInvoice(r) PROVE DriverInv'
  BY <1>15 DEF FindInvoice, AfterInvoice, CheckoutOK, RequestOK, NumberOK,
      KnowledgeInv, Knows, checkout, books, invoicing, plans, bus, trouble
<1>16. ASSUME NEW r \in Request, DrawNumber(r) PROVE DriverInv'
  BY <1>16 DEF DrawNumber, AfterError, Buys, CheckoutOK, RequestOK, NumberOK,
      KnowledgeInv, Knows, checkout, books, invoicing, plans, bus, trouble
<1>17. ASSUME NEW r \in Request, CreateInvoice(r) PROVE DriverInv'
  BY <1>17 DEF CreateInvoice, AfterInvoice, AfterError, CheckoutOK, RequestOK,
      NumberOK, KnowledgeInv, Knows, checkout, books, invoicing, plans, bus,
      trouble
<1>18. ASSUME NEW r \in Request, Publish(r) PROVE DriverInv'
  BY <1>18 DEF Publish, Buys, CheckoutOK, RequestOK, NumberOK, KnowledgeInv,
      Knows, checkout, books, invoicing, plans, bus, trouble
<1>19. ASSUME NEW r \in Request, Fail(r) PROVE DriverInv'
  BY <1>19 DEF Fail, AfterError, Over, Faulty, CheckoutOK, RequestOK, NumberOK,
      KnowledgeInv, Knows, checkout, books, invoicing, plans, bus, trouble
<1> QED
  BY <1>1, <1>2, <1>3, <1>4, <1>5, <1>6, <1>7, <1>8, <1>9, <1>10, <1>11, <1>12,
      <1>13, <1>14, <1>15, <1>16, <1>17, <1>18, <1>19 DEF Next, Serve

LEMMA NumbersKept ==
  ASSUME CheckoutOK, RequestOK, NumberOK, KnowledgeInv, NumberInv, Next
  PROVE  NumberInv'
<1> USE PaymentsAssumption DEF In, Go, Paid, NumberInv
<1>1. ASSUME NEW p \in Payment, CreateOrder(p) PROVE NumberInv'
  BY <1>1 DEF CreateOrder, Buys, CheckoutOK, RequestOK, NumberOK, KnowledgeInv,
      Knows, checkout, books, invoicing, plans, bus, trouble
<1>2. ASSUME NEW p \in Payment, Capture(p) PROVE NumberInv'
  BY <1>2 DEF Capture, CheckoutOK, RequestOK, NumberOK, KnowledgeInv, Knows,
      checkout, books, invoicing, plans, bus, trouble
<1>3. ASSUME NEW p \in Payment, applyPurchasedPlan(p) PROVE NumberInv'
  BY <1>3 DEF applyPurchasedPlan, CheckoutOK, RequestOK, NumberOK,
      KnowledgeInv, Knows, checkout, books, invoicing, plans, bus, trouble
<1>4. ASSUME NEW p \in Payment, LoseEvent(p) PROVE NumberInv'
  BY <1>4 DEF LoseEvent, Faulty, CheckoutOK, RequestOK, NumberOK, KnowledgeInv,
      Knows, checkout, books, invoicing, plans, bus, trouble
<1>5. ASSUME NEW pl \in Plan, deletePlan(pl) PROVE NumberInv'
  BY <1>5 DEF deletePlan, CheckoutOK, RequestOK, NumberOK, KnowledgeInv, Knows,
      checkout, books, invoicing, plans, bus, trouble
<1>6. ASSUME SwitchToFree PROVE NumberInv'
  BY <1>6 DEF SwitchToFree, CheckoutOK, RequestOK, NumberOK, KnowledgeInv,
      Knows, checkout, books, invoicing, plans, bus, trouble
<1>7. ASSUME NEW r \in Request, Arrive(r) PROVE NumberInv'
  BY <1>7 DEF Arrive, Work, Buys, CheckoutOK, RequestOK, NumberOK,
      KnowledgeInv, Knows, checkout, books, invoicing, plans, bus, trouble
<1>8. ASSUME NEW r \in Request, Check(r) PROVE NumberInv'
  BY <1>8 DEF Check, Work, Buys, CheckoutOK, RequestOK, NumberOK, KnowledgeInv,
      Knows, checkout, books, invoicing, plans, bus, trouble
<1>9. ASSUME NEW r \in Request, Record(r) PROVE NumberInv'
  BY <1>9 DEF Record, AfterError, CheckoutOK, RequestOK, NumberOK,
      KnowledgeInv, Knows, checkout, books, invoicing, plans, bus, trouble
<1>10. ASSUME NEW r \in Request, FindPlan(r) PROVE NumberInv'
  BY <1>10 DEF FindPlan, PlanFor, Documents, CheckoutOK, RequestOK, NumberOK,
      KnowledgeInv, Knows, checkout, books, invoicing, plans, bus, trouble
<1>11. ASSUME NEW r \in Request, NEW d \in Documents, Activate(r, d)
     PROVE  NumberInv'
  BY <1>11 DEF Activate, PlanFor, Documents, CheckoutOK, RequestOK, NumberOK,
      KnowledgeInv, Knows, checkout, books, invoicing, plans, bus, trouble
<1>12. ASSUME NEW r \in Request, Credit(r) PROVE NumberInv'
  BY <1>12 DEF Credit, CheckoutOK, RequestOK, NumberOK, KnowledgeInv, Knows,
      checkout, books, invoicing, plans, bus, trouble
<1>13. ASSUME NEW r \in Request, Book(r) PROVE NumberInv'
  BY <1>13 DEF Book, CheckoutOK, RequestOK, NumberOK, KnowledgeInv, Knows,
      checkout, books, invoicing, plans, bus, trouble
<1>14. ASSUME NEW r \in Request, FindTx(r) PROVE NumberInv'
  BY <1>14 DEF FindTx, AfterInvoice, CheckoutOK, RequestOK, NumberOK,
      KnowledgeInv, Knows, checkout, books, invoicing, plans, bus, trouble
<1>15. ASSUME NEW r \in Request, FindInvoice(r) PROVE NumberInv'
  BY <1>15 DEF FindInvoice, AfterInvoice, CheckoutOK, RequestOK, NumberOK,
      KnowledgeInv, Knows, checkout, books, invoicing, plans, bus, trouble
<1>16. ASSUME NEW r \in Request, DrawNumber(r) PROVE NumberInv'
  BY <1>16 DEF DrawNumber, AfterError, Buys, CheckoutOK, RequestOK, NumberOK,
      KnowledgeInv, Knows, checkout, books, invoicing, plans, bus, trouble
<1>17. ASSUME NEW r \in Request, CreateInvoice(r) PROVE NumberInv'
  BY <1>17 DEF CreateInvoice, AfterInvoice, AfterError, CheckoutOK, RequestOK,
      NumberOK, KnowledgeInv, Knows, checkout, books, invoicing, plans, bus,
      trouble
<1>18. ASSUME NEW r \in Request, Publish(r) PROVE NumberInv'
  BY <1>18 DEF Publish, Buys, CheckoutOK, RequestOK, NumberOK, KnowledgeInv,
      Knows, checkout, books, invoicing, plans, bus, trouble
<1>19. ASSUME NEW r \in Request, Fail(r) PROVE NumberInv'
  BY <1>19 DEF Fail, AfterError, Over, Faulty, CheckoutOK, RequestOK, NumberOK,
      KnowledgeInv, Knows, checkout, books, invoicing, plans, bus, trouble
<1> QED
  BY <1>1, <1>2, <1>3, <1>4, <1>5, <1>6, <1>7, <1>8, <1>9, <1>10, <1>11, <1>12,
      <1>13, <1>14, <1>15, <1>16, <1>17, <1>18, <1>19 DEF Next, Serve

LEMMA InvoiceKept ==
  ASSUME CheckoutOK, RequestOK, NumberOK, KnowledgeInv, NumberInv, InvoiceInv, Next
  PROVE  InvoiceInv'
<1> USE PaymentsAssumption DEF In, Go, Paid, InvoiceInv
<1>1. ASSUME NEW p \in Payment, CreateOrder(p) PROVE InvoiceInv'
  BY <1>1 DEF CreateOrder, Buys, CheckoutOK, RequestOK, NumberOK, KnowledgeInv,
      NumberInv, Knows, checkout, books, invoicing, plans, bus, trouble
<1>2. ASSUME NEW p \in Payment, Capture(p) PROVE InvoiceInv'
  BY <1>2 DEF Capture, CheckoutOK, RequestOK, NumberOK, KnowledgeInv,
      NumberInv, Knows, checkout, books, invoicing, plans, bus, trouble
<1>3. ASSUME NEW p \in Payment, applyPurchasedPlan(p) PROVE InvoiceInv'
  BY <1>3 DEF applyPurchasedPlan, CheckoutOK, RequestOK, NumberOK,
      KnowledgeInv, NumberInv, Knows, checkout, books, invoicing, plans, bus,
      trouble
<1>4. ASSUME NEW p \in Payment, LoseEvent(p) PROVE InvoiceInv'
  BY <1>4 DEF LoseEvent, Faulty, CheckoutOK, RequestOK, NumberOK, KnowledgeInv,
      NumberInv, Knows, checkout, books, invoicing, plans, bus, trouble
<1>5. ASSUME NEW pl \in Plan, deletePlan(pl) PROVE InvoiceInv'
  BY <1>5 DEF deletePlan, CheckoutOK, RequestOK, NumberOK, KnowledgeInv,
      NumberInv, Knows, checkout, books, invoicing, plans, bus, trouble
<1>6. ASSUME SwitchToFree PROVE InvoiceInv'
  BY <1>6 DEF SwitchToFree, CheckoutOK, RequestOK, NumberOK, KnowledgeInv,
      NumberInv, Knows, checkout, books, invoicing, plans, bus, trouble
<1>7. ASSUME NEW r \in Request, Arrive(r) PROVE InvoiceInv'
  BY <1>7 DEF Arrive, Work, Buys, CheckoutOK, RequestOK, NumberOK,
      KnowledgeInv, NumberInv, Knows, checkout, books, invoicing, plans, bus,
      trouble
<1>8. ASSUME NEW r \in Request, Check(r) PROVE InvoiceInv'
  BY <1>8 DEF Check, Work, Buys, CheckoutOK, RequestOK, NumberOK, KnowledgeInv,
      NumberInv, Knows, checkout, books, invoicing, plans, bus, trouble
<1>9. ASSUME NEW r \in Request, Record(r) PROVE InvoiceInv'
  BY <1>9 DEF Record, AfterError, CheckoutOK, RequestOK, NumberOK,
      KnowledgeInv, NumberInv, Knows, checkout, books, invoicing, plans, bus,
      trouble
<1>10. ASSUME NEW r \in Request, FindPlan(r) PROVE InvoiceInv'
  BY <1>10 DEF FindPlan, PlanFor, Documents, CheckoutOK, RequestOK, NumberOK,
      KnowledgeInv, NumberInv, Knows, checkout, books, invoicing, plans, bus,
      trouble
<1>11. ASSUME NEW r \in Request, NEW d \in Documents, Activate(r, d)
     PROVE  InvoiceInv'
  BY <1>11 DEF Activate, PlanFor, Documents, CheckoutOK, RequestOK, NumberOK,
      KnowledgeInv, NumberInv, Knows, checkout, books, invoicing, plans, bus,
      trouble
<1>12. ASSUME NEW r \in Request, Credit(r) PROVE InvoiceInv'
  BY <1>12 DEF Credit, CheckoutOK, RequestOK, NumberOK, KnowledgeInv,
      NumberInv, Knows, checkout, books, invoicing, plans, bus, trouble
<1>13. ASSUME NEW r \in Request, Book(r) PROVE InvoiceInv'
  BY <1>13 DEF Book, CheckoutOK, RequestOK, NumberOK, KnowledgeInv, NumberInv,
      Knows, checkout, books, invoicing, plans, bus, trouble
<1>14. ASSUME NEW r \in Request, FindTx(r) PROVE InvoiceInv'
  BY <1>14 DEF FindTx, AfterInvoice, CheckoutOK, RequestOK, NumberOK,
      KnowledgeInv, NumberInv, Knows, checkout, books, invoicing, plans, bus,
      trouble
<1>15. ASSUME NEW r \in Request, FindInvoice(r) PROVE InvoiceInv'
  BY <1>15 DEF FindInvoice, AfterInvoice, CheckoutOK, RequestOK, NumberOK,
      KnowledgeInv, NumberInv, Knows, checkout, books, invoicing, plans, bus,
      trouble
<1>16. ASSUME NEW r \in Request, DrawNumber(r) PROVE InvoiceInv'
  BY <1>16 DEF DrawNumber, AfterError, Buys, CheckoutOK, RequestOK, NumberOK,
      KnowledgeInv, NumberInv, Knows, checkout, books, invoicing, plans, bus,
      trouble
<1>17. ASSUME NEW r \in Request, CreateInvoice(r) PROVE InvoiceInv'
  BY <1>17 DEF CreateInvoice, AfterInvoice, AfterError, CheckoutOK, RequestOK,
      NumberOK, KnowledgeInv, NumberInv, Knows, checkout, books, invoicing,
      plans, bus, trouble
<1>18. ASSUME NEW r \in Request, Publish(r) PROVE InvoiceInv'
  BY <1>18 DEF Publish, Buys, CheckoutOK, RequestOK, NumberOK, KnowledgeInv,
      NumberInv, Knows, checkout, books, invoicing, plans, bus, trouble
<1>19. ASSUME NEW r \in Request, Fail(r) PROVE InvoiceInv'
  BY <1>19 DEF Fail, AfterError, Over, Faulty, CheckoutOK, RequestOK, NumberOK,
      KnowledgeInv, NumberInv, Knows, checkout, books, invoicing, plans, bus,
      trouble
<1> QED
  BY <1>1, <1>2, <1>3, <1>4, <1>5, <1>6, <1>7, <1>8, <1>9, <1>10, <1>11, <1>12,
      <1>13, <1>14, <1>15, <1>16, <1>17, <1>18, <1>19 DEF Next, Serve

LEMMA WalletKept ==
  ASSUME CheckoutOK, RequestOK, NumberOK, KnowledgeInv, WalletInv, Next
  PROVE  WalletInv'
<1> USE PaymentsAssumption DEF In, Go, Paid, WalletInv
<1>1. ASSUME NEW p \in Payment, CreateOrder(p) PROVE WalletInv'
  BY <1>1 DEF CreateOrder, Buys, CheckoutOK, RequestOK, NumberOK, KnowledgeInv,
      Knows, checkout, books, invoicing, plans, bus, trouble
<1>2. ASSUME NEW p \in Payment, Capture(p) PROVE WalletInv'
  BY <1>2 DEF Capture, CheckoutOK, RequestOK, NumberOK, KnowledgeInv, Knows,
      checkout, books, invoicing, plans, bus, trouble
<1>3. ASSUME NEW p \in Payment, applyPurchasedPlan(p) PROVE WalletInv'
  BY <1>3 DEF applyPurchasedPlan, CheckoutOK, RequestOK, NumberOK,
      KnowledgeInv, Knows, checkout, books, invoicing, plans, bus, trouble
<1>4. ASSUME NEW p \in Payment, LoseEvent(p) PROVE WalletInv'
  BY <1>4 DEF LoseEvent, Faulty, CheckoutOK, RequestOK, NumberOK, KnowledgeInv,
      Knows, checkout, books, invoicing, plans, bus, trouble
<1>5. ASSUME NEW pl \in Plan, deletePlan(pl) PROVE WalletInv'
  BY <1>5 DEF deletePlan, CheckoutOK, RequestOK, NumberOK, KnowledgeInv, Knows,
      checkout, books, invoicing, plans, bus, trouble
<1>6. ASSUME SwitchToFree PROVE WalletInv'
  BY <1>6 DEF SwitchToFree, CheckoutOK, RequestOK, NumberOK, KnowledgeInv,
      Knows, checkout, books, invoicing, plans, bus, trouble
<1>7. ASSUME NEW r \in Request, Arrive(r) PROVE WalletInv'
  BY <1>7 DEF Arrive, Work, Buys, CheckoutOK, RequestOK, NumberOK,
      KnowledgeInv, Knows, checkout, books, invoicing, plans, bus, trouble
<1>8. ASSUME NEW r \in Request, Check(r) PROVE WalletInv'
  BY <1>8 DEF Check, Work, Buys, CheckoutOK, RequestOK, NumberOK, KnowledgeInv,
      Knows, checkout, books, invoicing, plans, bus, trouble
<1>9. ASSUME NEW r \in Request, Record(r) PROVE WalletInv'
  BY <1>9 DEF Record, AfterError, CheckoutOK, RequestOK, NumberOK,
      KnowledgeInv, Knows, checkout, books, invoicing, plans, bus, trouble
<1>10. ASSUME NEW r \in Request, FindPlan(r) PROVE WalletInv'
  BY <1>10 DEF FindPlan, PlanFor, Documents, CheckoutOK, RequestOK, NumberOK,
      KnowledgeInv, Knows, checkout, books, invoicing, plans, bus, trouble
<1>11. ASSUME NEW r \in Request, NEW d \in Documents, Activate(r, d)
     PROVE  WalletInv'
  BY <1>11 DEF Activate, PlanFor, Documents, CheckoutOK, RequestOK, NumberOK,
      KnowledgeInv, Knows, checkout, books, invoicing, plans, bus, trouble
<1>12. ASSUME NEW r \in Request, Credit(r) PROVE WalletInv'
  BY <1>12 DEF Credit, CheckoutOK, RequestOK, NumberOK, KnowledgeInv, Knows,
      checkout, books, invoicing, plans, bus, trouble
<1>13. ASSUME NEW r \in Request, Book(r) PROVE WalletInv'
  BY <1>13 DEF Book, CheckoutOK, RequestOK, NumberOK, KnowledgeInv, Knows,
      checkout, books, invoicing, plans, bus, trouble
<1>14. ASSUME NEW r \in Request, FindTx(r) PROVE WalletInv'
  BY <1>14 DEF FindTx, AfterInvoice, CheckoutOK, RequestOK, NumberOK,
      KnowledgeInv, Knows, checkout, books, invoicing, plans, bus, trouble
<1>15. ASSUME NEW r \in Request, FindInvoice(r) PROVE WalletInv'
  BY <1>15 DEF FindInvoice, AfterInvoice, CheckoutOK, RequestOK, NumberOK,
      KnowledgeInv, Knows, checkout, books, invoicing, plans, bus, trouble
<1>16. ASSUME NEW r \in Request, DrawNumber(r) PROVE WalletInv'
  BY <1>16 DEF DrawNumber, AfterError, Buys, CheckoutOK, RequestOK, NumberOK,
      KnowledgeInv, Knows, checkout, books, invoicing, plans, bus, trouble
<1>17. ASSUME NEW r \in Request, CreateInvoice(r) PROVE WalletInv'
  BY <1>17 DEF CreateInvoice, AfterInvoice, AfterError, CheckoutOK, RequestOK,
      NumberOK, KnowledgeInv, Knows, checkout, books, invoicing, plans, bus,
      trouble
<1>18. ASSUME NEW r \in Request, Publish(r) PROVE WalletInv'
  BY <1>18 DEF Publish, Buys, CheckoutOK, RequestOK, NumberOK, KnowledgeInv,
      Knows, checkout, books, invoicing, plans, bus, trouble
<1>19. ASSUME NEW r \in Request, Fail(r) PROVE WalletInv'
  BY <1>19 DEF Fail, AfterError, Over, Faulty, CheckoutOK, RequestOK, NumberOK,
      KnowledgeInv, Knows, checkout, books, invoicing, plans, bus, trouble
<1> QED
  BY <1>1, <1>2, <1>3, <1>4, <1>5, <1>6, <1>7, <1>8, <1>9, <1>10, <1>11, <1>12,
      <1>13, <1>14, <1>15, <1>16, <1>17, <1>18, <1>19 DEF Next, Serve

LEMMA PlansKept ==
  ASSUME CheckoutOK, RequestOK, NumberOK, KnowledgeInv, PlansInv, Next
  PROVE  PlansInv'
<1> USE PaymentsAssumption DEF In, Go, Paid, PlansInv, PaidFor
<1>1. ASSUME NEW p \in Payment, CreateOrder(p) PROVE PlansInv'
  BY <1>1 DEF CreateOrder, Buys, CheckoutOK, RequestOK, NumberOK, KnowledgeInv,
      Knows, checkout, books, invoicing, plans, bus, trouble
<1>2. ASSUME NEW p \in Payment, Capture(p) PROVE PlansInv'
  BY <1>2 DEF Capture, CheckoutOK, RequestOK, NumberOK, KnowledgeInv, Knows,
      checkout, books, invoicing, plans, bus, trouble
<1>3. ASSUME NEW p \in Payment, applyPurchasedPlan(p) PROVE PlansInv'
  BY <1>3 DEF applyPurchasedPlan, CheckoutOK, RequestOK, NumberOK,
      KnowledgeInv, Knows, checkout, books, invoicing, plans, bus, trouble
<1>4. ASSUME NEW p \in Payment, LoseEvent(p) PROVE PlansInv'
  BY <1>4 DEF LoseEvent, Faulty, CheckoutOK, RequestOK, NumberOK, KnowledgeInv,
      Knows, checkout, books, invoicing, plans, bus, trouble
<1>5. ASSUME NEW pl \in Plan, deletePlan(pl) PROVE PlansInv'
  BY <1>5 DEF deletePlan, CheckoutOK, RequestOK, NumberOK, KnowledgeInv, Knows,
      checkout, books, invoicing, plans, bus, trouble
<1>6. ASSUME SwitchToFree PROVE PlansInv'
  BY <1>6 DEF SwitchToFree, CheckoutOK, RequestOK, NumberOK, KnowledgeInv,
      Knows, checkout, books, invoicing, plans, bus, trouble
<1>7. ASSUME NEW r \in Request, Arrive(r) PROVE PlansInv'
  BY <1>7 DEF Arrive, Work, Buys, CheckoutOK, RequestOK, NumberOK,
      KnowledgeInv, Knows, checkout, books, invoicing, plans, bus, trouble
<1>8. ASSUME NEW r \in Request, Check(r) PROVE PlansInv'
  BY <1>8 DEF Check, Work, Buys, CheckoutOK, RequestOK, NumberOK, KnowledgeInv,
      Knows, checkout, books, invoicing, plans, bus, trouble
<1>9. ASSUME NEW r \in Request, Record(r) PROVE PlansInv'
  BY <1>9 DEF Record, AfterError, CheckoutOK, RequestOK, NumberOK,
      KnowledgeInv, Knows, checkout, books, invoicing, plans, bus, trouble
<1>10. ASSUME NEW r \in Request, FindPlan(r) PROVE PlansInv'
  BY <1>10 DEF FindPlan, PlanFor, Documents, CheckoutOK, RequestOK, NumberOK,
      KnowledgeInv, Knows, checkout, books, invoicing, plans, bus, trouble
<1>11. ASSUME NEW r \in Request, NEW d \in Documents, Activate(r, d)
     PROVE  PlansInv'
  BY <1>11 DEF Activate, PlanFor, Documents, CheckoutOK, RequestOK, NumberOK,
      KnowledgeInv, Knows, checkout, books, invoicing, plans, bus, trouble
<1>12. ASSUME NEW r \in Request, Credit(r) PROVE PlansInv'
  BY <1>12 DEF Credit, CheckoutOK, RequestOK, NumberOK, KnowledgeInv, Knows,
      checkout, books, invoicing, plans, bus, trouble
<1>13. ASSUME NEW r \in Request, Book(r) PROVE PlansInv'
  BY <1>13 DEF Book, CheckoutOK, RequestOK, NumberOK, KnowledgeInv, Knows,
      checkout, books, invoicing, plans, bus, trouble
<1>14. ASSUME NEW r \in Request, FindTx(r) PROVE PlansInv'
  BY <1>14 DEF FindTx, AfterInvoice, CheckoutOK, RequestOK, NumberOK,
      KnowledgeInv, Knows, checkout, books, invoicing, plans, bus, trouble
<1>15. ASSUME NEW r \in Request, FindInvoice(r) PROVE PlansInv'
  BY <1>15 DEF FindInvoice, AfterInvoice, CheckoutOK, RequestOK, NumberOK,
      KnowledgeInv, Knows, checkout, books, invoicing, plans, bus, trouble
<1>16. ASSUME NEW r \in Request, DrawNumber(r) PROVE PlansInv'
  BY <1>16 DEF DrawNumber, AfterError, Buys, CheckoutOK, RequestOK, NumberOK,
      KnowledgeInv, Knows, checkout, books, invoicing, plans, bus, trouble
<1>17. ASSUME NEW r \in Request, CreateInvoice(r) PROVE PlansInv'
  BY <1>17 DEF CreateInvoice, AfterInvoice, AfterError, CheckoutOK, RequestOK,
      NumberOK, KnowledgeInv, Knows, checkout, books, invoicing, plans, bus,
      trouble
<1>18. ASSUME NEW r \in Request, Publish(r) PROVE PlansInv'
  BY <1>18 DEF Publish, Buys, CheckoutOK, RequestOK, NumberOK, KnowledgeInv,
      Knows, checkout, books, invoicing, plans, bus, trouble
<1>19. ASSUME NEW r \in Request, Fail(r) PROVE PlansInv'
  BY <1>19 DEF Fail, AfterError, Over, Faulty, CheckoutOK, RequestOK, NumberOK,
      KnowledgeInv, Knows, checkout, books, invoicing, plans, bus, trouble
<1> QED
  BY <1>1, <1>2, <1>3, <1>4, <1>5, <1>6, <1>7, <1>8, <1>9, <1>10, <1>11, <1>12,
      <1>13, <1>14, <1>15, <1>16, <1>17, <1>18, <1>19 DEF Next, Serve

LEMMA PurchaseKept ==
  ASSUME CheckoutOK, RequestOK, NumberOK, KnowledgeInv, NumberInv, DriverInv, PurchaseInv, Next
  PROVE  PurchaseInv'
<1> USE PaymentsAssumption DEF In, Go, Paid, PurchaseInv, Carried, Withdrawn
<1>1. ASSUME NEW p \in Payment, CreateOrder(p) PROVE PurchaseInv'
  BY <1>1 DEF CreateOrder, Buys, CheckoutOK, RequestOK, NumberOK, KnowledgeInv,
      NumberInv, DriverInv, Knows, checkout, books, invoicing, plans, bus,
      trouble
<1>2. ASSUME NEW p \in Payment, Capture(p) PROVE PurchaseInv'
  BY <1>2 DEF Capture, CheckoutOK, RequestOK, NumberOK, KnowledgeInv,
      NumberInv, DriverInv, Knows, checkout, books, invoicing, plans, bus,
      trouble
<1>3. ASSUME NEW p \in Payment, applyPurchasedPlan(p) PROVE PurchaseInv'
  BY <1>3 DEF applyPurchasedPlan, CheckoutOK, RequestOK, NumberOK,
      KnowledgeInv, NumberInv, DriverInv, Knows, checkout, books, invoicing,
      plans, bus, trouble
<1>4. ASSUME NEW p \in Payment, LoseEvent(p) PROVE PurchaseInv'
  BY <1>4 DEF LoseEvent, Faulty, CheckoutOK, RequestOK, NumberOK, KnowledgeInv,
      NumberInv, DriverInv, Knows, checkout, books, invoicing, plans, bus,
      trouble
<1>5. ASSUME NEW pl \in Plan, deletePlan(pl) PROVE PurchaseInv'
  BY <1>5 DEF deletePlan, CheckoutOK, RequestOK, NumberOK, KnowledgeInv,
      NumberInv, DriverInv, Knows, checkout, books, invoicing, plans, bus,
      trouble
<1>6. ASSUME SwitchToFree PROVE PurchaseInv'
  BY <1>6 DEF SwitchToFree, CheckoutOK, RequestOK, NumberOK, KnowledgeInv,
      NumberInv, DriverInv, Knows, checkout, books, invoicing, plans, bus,
      trouble
<1>7. ASSUME NEW r \in Request, Arrive(r) PROVE PurchaseInv'
  BY <1>7 DEF Arrive, Work, Buys, CheckoutOK, RequestOK, NumberOK,
      KnowledgeInv, NumberInv, DriverInv, Knows, checkout, books, invoicing,
      plans, bus, trouble
<1>8. ASSUME NEW r \in Request, Check(r) PROVE PurchaseInv'
  BY <1>8 DEF Check, Work, Buys, CheckoutOK, RequestOK, NumberOK, KnowledgeInv,
      NumberInv, DriverInv, Knows, checkout, books, invoicing, plans, bus,
      trouble
<1>9. ASSUME NEW r \in Request, Record(r) PROVE PurchaseInv'
  BY <1>9 DEF Record, AfterError, CheckoutOK, RequestOK, NumberOK,
      KnowledgeInv, NumberInv, DriverInv, Knows, checkout, books, invoicing,
      plans, bus, trouble
<1>10. ASSUME NEW r \in Request, FindPlan(r) PROVE PurchaseInv'
  BY <1>10 DEF FindPlan, PlanFor, Documents, CheckoutOK, RequestOK, NumberOK,
      KnowledgeInv, NumberInv, DriverInv, Knows, checkout, books, invoicing,
      plans, bus, trouble
<1>11. ASSUME NEW r \in Request, NEW d \in Documents, Activate(r, d)
     PROVE  PurchaseInv'
  BY <1>11 DEF Activate, PlanFor, Documents, CheckoutOK, RequestOK, NumberOK,
      KnowledgeInv, NumberInv, DriverInv, Knows, checkout, books, invoicing,
      plans, bus, trouble
<1>12. ASSUME NEW r \in Request, Credit(r) PROVE PurchaseInv'
  BY <1>12 DEF Credit, CheckoutOK, RequestOK, NumberOK, KnowledgeInv,
      NumberInv, DriverInv, Knows, checkout, books, invoicing, plans, bus,
      trouble
<1>13. ASSUME NEW r \in Request, Book(r) PROVE PurchaseInv'
  BY <1>13 DEF Book, CheckoutOK, RequestOK, NumberOK, KnowledgeInv, NumberInv,
      DriverInv, Knows, checkout, books, invoicing, plans, bus, trouble
<1>14. ASSUME NEW r \in Request, FindTx(r) PROVE PurchaseInv'
  BY <1>14 DEF FindTx, AfterInvoice, CheckoutOK, RequestOK, NumberOK,
      KnowledgeInv, NumberInv, DriverInv, Knows, checkout, books, invoicing,
      plans, bus, trouble
<1>15. ASSUME NEW r \in Request, FindInvoice(r) PROVE PurchaseInv'
  BY <1>15 DEF FindInvoice, AfterInvoice, CheckoutOK, RequestOK, NumberOK,
      KnowledgeInv, NumberInv, DriverInv, Knows, checkout, books, invoicing,
      plans, bus, trouble
<1>16. ASSUME NEW r \in Request, DrawNumber(r) PROVE PurchaseInv'
  BY <1>16 DEF DrawNumber, AfterError, Buys, CheckoutOK, RequestOK, NumberOK,
      KnowledgeInv, NumberInv, DriverInv, Knows, checkout, books, invoicing,
      plans, bus, trouble
<1>17. ASSUME NEW r \in Request, CreateInvoice(r) PROVE PurchaseInv'
  BY <1>17 DEF CreateInvoice, AfterInvoice, AfterError, CheckoutOK, RequestOK,
      NumberOK, KnowledgeInv, NumberInv, DriverInv, Knows, checkout, books,
      invoicing, plans, bus, trouble
<1>18. ASSUME NEW r \in Request, Publish(r) PROVE PurchaseInv'
  BY <1>18 DEF Publish, Buys, CheckoutOK, RequestOK, NumberOK, KnowledgeInv,
      NumberInv, DriverInv, Knows, checkout, books, invoicing, plans, bus,
      trouble
<1>19. ASSUME NEW r \in Request, Fail(r) PROVE PurchaseInv'
  BY <1>19 DEF Fail, AfterError, Over, Faulty, CheckoutOK, RequestOK, NumberOK,
      KnowledgeInv, NumberInv, DriverInv, Knows, checkout, books, invoicing,
      plans, bus, trouble
<1> QED
  BY <1>1, <1>2, <1>3, <1>4, <1>5, <1>6, <1>7, <1>8, <1>9, <1>10, <1>11, <1>12,
      <1>13, <1>14, <1>15, <1>16, <1>17, <1>18, <1>19 DEF Next, Serve

\* Each write of an activation and the event of a purchase happen once at most.
LEMMA OnceKept ==
  ASSUME CheckoutOK, RequestOK, KnowledgeInv, DriverInv, OnceInv, Next
  PROVE  OnceInv'
<1> USE PaymentsAssumption
    DEF In, Go, Paid, Buys, OnceInv, BeforeEvent, CheckoutOK, RequestOK
<1>1. ASSUME UNCHANGED <<step, writes, txs, activated, published>>
      PROVE  OnceInv'
  BY <1>1
<1>2. ASSUME NEW p \in Payment,
             CreateOrder(p) \/ Capture(p) \/ applyPurchasedPlan(p) \/ LoseEvent(p)
      PROVE  OnceInv'
  BY <1>1, <1>2 DEF CreateOrder, Capture, applyPurchasedPlan, LoseEvent, books,
      plans, bus
<1>3. ASSUME SwitchToFree \/ \E pl \in Plan : deletePlan(pl) PROVE OnceInv'
  BY <1>1, <1>3 DEF SwitchToFree, deletePlan, books, plans, bus
<1>4. ASSUME NEW r \in Request, NEW t \in Steps \ {"plan"}, Go(r, t),
             BeforeEvent(r)' => BeforeEvent(r),
             UNCHANGED <<writes, activated, published>>, txs \subseteq txs'
      PROVE  OnceInv'
  BY <1>4
<1>5. ASSUME NEW r \in Request, Arrive(r) \/ Check(r) PROVE OnceInv'
  <2>1. PICK t \in {"check", "record", "credit", "done"} : Go(r, t)
    BY <1>5 DEF Arrive, Check, Work
  <2> QED
    BY <1>4, <1>5, <2>1 DEF Arrive, Check, books, plans, bus, Steps
<1>6. ASSUME NEW r \in Request, Credit(r) \/ Book(r) PROVE OnceInv'
  <2>1. PICK t \in {"book", "findTx"} : Go(r, t)
    BY <1>6 DEF Credit, Book
  <2> QED
    BY <1>4, <1>6, <2>1 DEF Credit, Book, plans, bus, Steps
<1>7. ASSUME NEW r \in Request, FindTx(r) PROVE OnceInv'
  <2>1. PICK t \in {"find", "publish", "done"} : Go(r, t)
    BY <1>7 DEF FindTx, AfterInvoice
  <2>2. ~Buys(Paid(r))
    BY <1>7 DEF FindTx, KnowledgeInv, Knows
  <2> QED
    BY <1>4, <1>7, <2>1, <2>2 DEF FindTx, books, plans, bus, Steps
<1>8. ASSUME NEW r \in Request,
             FindInvoice(r) \/ DrawNumber(r) \/ CreateInvoice(r)
      PROVE  OnceInv'
  <2>1. PICK t \in {"draw", "create", "publish", "done", "check"} : Go(r, t)
    BY <1>8 DEF FindInvoice, DrawNumber, CreateInvoice, AfterInvoice, AfterError
  <2>2. step[r] \in {"find", "draw", "create"} /\ (t = "publish" => r \in Webhooks)
    BY <1>8, <2>1 DEF FindInvoice, DrawNumber, CreateInvoice, AfterInvoice,
        AfterError
  <2>3. UNCHANGED <<writes, txs, activated, published>>
    BY <1>8 DEF FindInvoice, DrawNumber, CreateInvoice, books, plans, bus
  <2> QED
    BY <1>4, <2>1, <2>2, <2>3 DEF Steps
<1>9. ASSUME NEW r \in Request, Record(r) PROVE OnceInv'
  <2>1. UNCHANGED <<writes, activated, published>> /\ txs' = txs \cup {Paid(r)}
    BY <1>9 DEF Record, books, plans, bus
  <2>2. CASE Paid(r) \in txs
    <3>1. PICK t \in {"check", "refused"} : Go(r, t)
      BY <1>9, <2>2 DEF Record, AfterError
    <3> QED
      BY <1>4, <2>1, <3>1 DEF Steps
  <2>3. CASE Paid(r) \notin txs
    <3>1. Go(r, "plan") /\ Buys(Paid(r)) /\ step[r] = "record"
      BY <1>9, <2>3 DEF Record, KnowledgeInv, Knows
    <3>2. activated[Paid(r)] = {} /\ Paid(r) \notin published
      BY <2>3, <3>1
    <3>3. \A s \in Request : Paid(s) = Paid(r) => writes[s] = {}
      BY <2>3 DEF KnowledgeInv, Knows
    <3> QED
      BY <2>1, <3>1, <3>2, <3>3
  <2> QED
    BY <2>2, <2>3
<1>10. ASSUME NEW r \in Request, FindPlan(r) PROVE OnceInv'
  <2>1. UNCHANGED <<txs, activated, published>> /\ step[r] = "plan"
    BY <1>10 DEF FindPlan, books, plans, bus
  <2>2. CASE PlanFor(r) \in catalogue
    <3>1. writes' = [writes EXCEPT ![r] = Documents] /\ Go(r, "activate")
      BY <1>10, <2>2 DEF FindPlan
    <3>2. \A s \in Request :
            Paid(s) = Paid(r) => writes[s] = {} /\ activated[Paid(s)] = {}
      BY <2>1
    <3>3. \A s \in Request : step[s] = "plan" /\ Paid(s) = Paid(r) => s = r
      BY <2>1 DEF KnowledgeInv, Knows, DriverInv, Drives
    <3> QED
      BY <2>1, <3>1, <3>2, <3>3 DEF KnowledgeInv, Knows
  <2>3. CASE PlanFor(r) \notin catalogue
    <3>1. /\ Go(r, IF r \in Webhooks THEN "find" ELSE "refused")
          /\ UNCHANGED writes
      BY <1>10, <2>3 DEF FindPlan
    <3> QED
      BY <1>4, <2>1, <3>1 DEF Steps
  <2> QED
    BY <2>2, <2>3
<1>11. ASSUME NEW r \in Request, NEW d \in Documents, Activate(r, d)
      PROVE  OnceInv'
  <2>1. /\ d \in writes[r] /\ writes' = [writes EXCEPT ![r] = @ \ {d}]
        /\ activated' = [activated EXCEPT ![Paid(r)] = @ \cup {d}]
        /\ UNCHANGED <<txs, published>>
    BY <1>11 DEF Activate, books, bus
  <2>2. /\ Paid(r) \in txs /\ Buys(Paid(r))
        /\ \A s \in Request : Paid(s) = Paid(r) => step[s] # "plan"
    BY <2>1 DEF KnowledgeInv, Knows
  <2>3. \A s \in Request : step'[s] # step[s] =>
          /\ s = r /\ step[r] = "activate"
          /\ step'[r] = IF r \in Webhooks THEN "find" ELSE "publish"
    BY <1>11 DEF Activate
  <2> QED
    BY <2>1, <2>2, <2>3
<1>12. ASSUME NEW r \in Request, Publish(r) PROVE OnceInv'
  <2>1. /\ step[r] = "publish" /\ published' = published \cup {Paid(r)}
        /\ Go(r, IF r \in Webhooks THEN "done" ELSE "find")
        /\ UNCHANGED <<writes, txs, activated>>
    BY <1>12 DEF Publish, books, plans
  <2>2. Buys(Paid(r)) => Paid(r) \in txs
    BY <2>1 DEF KnowledgeInv, Knows
  <2>3. \A s \in Request : BeforeEvent(s) /\ Paid(s) = Paid(r) => s = r
    BY <2>1 DEF DriverInv, Drives
  <2> QED
    BY <2>1, <2>2, <2>3
<1>13. ASSUME NEW r \in Request, Fail(r) PROVE OnceInv'
  <2>1. /\ UNCHANGED <<txs, activated, published>>
        /\ Go(r, AfterError(r))
        /\ \E left \in SUBSET writes[r] : writes' = [writes EXCEPT ![r] = left]
    BY <1>13 DEF Fail, books, plans, bus
  <2>2. AfterError(r) \in {"check", "done", "refused"}
    BY DEF AfterError
  <2> QED
    BY <2>1, <2>2
<1> QED
  BY <1>2, <1>3, <1>5, <1>6, <1>7, <1>8, <1>9, <1>10, <1>11, <1>12, <1>13
     DEF Next, Serve

LEMMA Stuttering == ASSUME Inv, UNCHANGED vars PROVE Inv'
BY DEF Inv, Shape, CheckoutOK, RequestOK, NumberOK, PlanOK, KnowledgeInv, Knows,
       DriverInv, Drives, NumberInv, InvoiceInv, WalletInv, PlansInv, PaidFor,
       PurchaseInv, Carried, Withdrawn, OnceInv, BeforeEvent, In, Paid, vars,
       checkout, books, invoicing, plans, bus, trouble

LEMMA NextInv == ASSUME Inv, [Next]_vars PROVE Inv'
<1>1. CASE Next
  BY <1>1, CheckoutKept, RequestKept, NumberKept, PlanKept, KnowledgeKept,
     DriverKept, NumbersKept, InvoiceKept, WalletKept, PlansKept, PurchaseKept,
     OnceKept
     DEF Inv, Shape
<1>2. CASE UNCHANGED vars
  BY <1>2, Stuttering
<1> QED
  BY <1>1, <1>2

LEMMA InvAlways == Spec => []Inv
<1> QED
  BY InitInv, NextInv, PTL DEF Spec

-----------------------------------------------------------------------------
(* What follows from it.                                                   *)

\* Every reachable state has its type.
THEOREM TypeCorrect == Spec => []TypeOK
<1>1. Inv => TypeOK
  BY DEF Inv, Shape, CheckoutOK, RequestOK, NumberOK, PlanOK, TypeOK
<1> QED
  BY <1>1, InvAlways, PTL

\* A recharge is credited once, and what is credited is booked unless a fault
\* came between LedgerService.credit's two writes.
THEOREM WalletAgreesWithLedger == Spec => []WalletIsBooked
<1>1. Inv => WalletIsBooked
  BY DEF Inv, Shape, NumberOK, WalletInv, WalletIsBooked, RequestsOf, In, Paid
<1> QED
  BY <1>1, InvAlways, PTL

\* None of the three documents names a plan that nobody paid for.
THEOREM NoUnpaidPlan == Spec => []PlansArePaid
<1>1. Inv => PlansArePaid
  BY DEF Inv, PlansInv, PaidFor, PlansArePaid
<1> QED
  BY <1>1, InvAlways, PTL

\* The request that recorded a purchase carries it through, though all others are
\* turned away.
THEOREM RecordedPurchaseCompletes == Spec => []PurchaseCompletes
<1>1. ASSUME Inv, NEW p \in txs \ spoiled, Buys(p), Settled(p), ~Withdrawn(p)
      PROVE  activated[p] = Documents /\ p \in published
  <2>1. Carried(p)
    BY <1>1 DEF Inv, PurchaseInv
  <2>2. \A r \in Request : Paid(r) = p => step[r] \in {"idle", "done", "refused"}
    BY <1>1 DEF Settled, RequestsOf, Over, Paid
  <2>3. Documents \subseteq activated[p] /\ p \in published
    BY <1>1, <2>1, <2>2 DEF Carried
  <2>4. p \in Payment
    BY <1>1 DEF Inv, Shape, CheckoutOK
  <2> QED
    BY <1>1, <2>3, <2>4 DEF Inv, Shape, RequestOK
<1>2. Inv => PurchaseCompletes
  BY <1>1 DEF PurchaseCompletes
<1> QED
  BY <1>2, InvAlways, PTL

\* Invoices stand for transactions under numbers of their own, and an undisturbed
\* recharge gets one whoever of callback and webhook loses the race.
THEOREM InvoicesCorrect == Spec => []InvoicesAreRight
<1>1. ASSUME Inv, NEW p \in txs \ spoiled, ~Buys(p), Settled(p)
      PROVE  invoices[p] # 0
  <2>1. \A r \in Request : Paid(r) = p => step[r] \in {"idle", "done", "refused"}
    BY <1>1 DEF Settled, RequestsOf, Over, Paid
  <2> QED
    BY <1>1, <2>1 DEF Inv, InvoiceInv
<1>2. Inv => \A p \in Payment : invoices[p] # 0 =>
               /\ p \in txs
               /\ \A q \in Payment \ {p} : invoices[q] # invoices[p]
  BY DEF Inv, NumberInv
<1>3. Inv => InvoicesAreRight
  BY <1>1, <1>2 DEF InvoicesAreRight
<1> QED
  BY <1>3, InvAlways, PTL

-----------------------------------------------------------------------------
(* The desk: every step is one of PaidWorkspace's or none.                 *)

Accounts == <<captured, credits, txs, activated, published, events, workspace,
              subscription, entitled, invoices>>

LEMMA AccountsStutter == UNCHANGED Accounts => UNCHANGED Desk!vars
BY DEF Accounts, Desk!vars, Used

\* A purchase that is booked moves a document it has not moved.
LEMMA UseOnce ==
  ASSUME NEW p \in Payment, NEW d \in {"workspace", "subscription", "limits"},
         p \in txs, Buys(p), d \notin Used(p), Used(p)' = Used(p) \cup {d},
         \A q \in Payment \ {p} : Used(q)' = Used(q),
         UNCHANGED <<captured, credits, txs, invoices>>
  PROVE  Desk!Use(p, d)
BY DEF Desk!Use, Buys

LEMMA PortalDesk ==
  ASSUME NEW p \in Payment, CreateOrder(p) \/ Capture(p)
  PROVE  UNCHANGED Accounts \/ Desk!Pay(p)
BY DEF CreateOrder, Capture, Accounts, books, invoicing, plans, bus, Used, Desk!Pay

LEMMA PlansDesk ==
  ASSUME SwitchToFree \/ \E pl \in Plan : deletePlan(pl)
  PROVE  UNCHANGED Accounts \/ Desk!SwitchToFree
BY DEF SwitchToFree, deletePlan, Accounts, checkout, books, invoicing, plans, bus,
       Used, Desk!SwitchToFree

\* What auth-service hears, and what it misses.
LEMMA LimitsDesk ==
  ASSUME Inv, NEW p \in Payment, applyPurchasedPlan(p) \/ LoseEvent(p)
  PROVE  Desk!Grant(p, "limits") \/ Desk!Miss(p)
<1>1. /\ p \in events /\ p \in published /\ events' = events \ {p}
      /\ UNCHANGED <<captured, credits, txs, activated, published, invoices,
                      workspace, subscription>>
  BY DEF applyPurchasedPlan, LoseEvent, checkout, books, invoicing, plans, Inv, Shape,
         CheckoutOK
<1>2. p \in txs /\ Buys(p)
  BY <1>1 DEF Inv, PlansInv
<1>3. "limits" \notin activated[p]
  BY DEF Inv, Shape, RequestOK, Documents
<1>4. /\ "limits" \notin Used(p) /\ Used(p)' = Used(p) \cup {"limits"}
      /\ \A q \in Payment \ {p} : Used(q)' = Used(q)
  BY <1>1, <1>2, <1>3 DEF Used, Buys
<1>5. Desk!Use(p, "limits")
  BY <1>1, <1>2, <1>4, UseOnce
<1>6. CASE applyPurchasedPlan(p)
  BY <1>1, <1>5, <1>6 DEF applyPurchasedPlan, Desk!Grant
<1>7. CASE LoseEvent(p)
  BY <1>1, <1>5, <1>7 DEF LoseEvent, Desk!Miss
<1> QED
  BY <1>6, <1>7

\* One of the two writes of an activation.
LEMMA ActivateDesk ==
  ASSUME Inv, NEW r \in Request, NEW d \in Documents, Activate(r, d)
  PROVE  Desk!Grant(Paid(r), d)
<1>1. /\ d \in writes[r]
      /\ activated' = [activated EXCEPT ![Paid(r)] = @ \cup {d}]
      /\ UNCHANGED <<captured, credits, txs, published, events, entitled, invoices>>
      /\ workspace' = IF d = "workspace" THEN PlanOf[Paid(r)] ELSE workspace
      /\ subscription' = IF d = "subscription" THEN PlanOf[Paid(r)] ELSE subscription
  BY DEF Activate, checkout, books, bus, invoicing, PlanFor, Paid
<1>2. Paid(r) \in Payment /\ Paid(r) \in txs /\ Buys(Paid(r))
  BY <1>1, PaymentsAssumption DEF Inv, KnowledgeInv, Knows, Paid
<1>3. d \notin activated[Paid(r)]
  BY <1>1 DEF Inv, OnceInv
<1>4. /\ d \notin Used(Paid(r)) /\ Used(Paid(r))' = Used(Paid(r)) \cup {d}
      /\ \A q \in Payment \ {Paid(r)} : Used(q)' = Used(q)
  BY <1>1, <1>2, <1>3 DEF Used, Buys, Documents, Inv, Shape, RequestOK
<1>5. d \in {"workspace", "subscription", "limits"}
  BY DEF Documents
<1>6. Desk!Use(Paid(r), d)
  BY <1>1, <1>2, <1>4, <1>5, UseOnce
<1> QED
  BY <1>1, <1>6 DEF Desk!Grant, Documents

\* The money of a payment, and its entry in the ledger.
LEMMA BooksDesk ==
  ASSUME Inv, NEW r \in Request, Credit(r) \/ Book(r) \/ Record(r)
  PROVE  UNCHANGED Accounts \/ Desk!Credit(Paid(r)) \/ Desk!Book(Paid(r))
<1> USE DEF checkout, invoicing, plans, bus, Accounts, Used, Buys, In
<1>1. Paid(r) \in Payment
  BY PaymentsAssumption DEF Paid
<1>2. CASE Credit(r)
  <2>1. Paid(r) \in captured /\ ~Buys(Paid(r))
    BY <1>2 DEF Credit, Inv, KnowledgeInv, Knows
  <2> QED
    BY <1>1, <1>2, <2>1 DEF Credit, Desk!Credit
<1>3. CASE Book(r)
  <2>1. Paid(r) \in captured /\ credits[Paid(r)] = 1
    BY <1>3 DEF Book, Inv, KnowledgeInv, Knows
  <2> QED
    BY <1>1, <1>3, <2>1 DEF Book, Desk!Book
<1>4. CASE Record(r)
  <2>1. Paid(r) \in captured /\ Buys(Paid(r))
    BY <1>4 DEF Record, Inv, KnowledgeInv, Knows
  <2> QED
    BY <1>1, <1>4, <2>1 DEF Record, books, Desk!Book
<1> QED
  BY <1>2, <1>3, <1>4

LEMMA InvoiceDesk ==
  ASSUME Inv, NEW r \in Request, CreateInvoice(r)
  PROVE  UNCHANGED Accounts \/ Desk!Invoice(Paid(r))
<1>1. Paid(r) \in Payment /\ step[r] = "create"
  BY PaymentsAssumption DEF Paid, CreateInvoice, In
<1>2. /\ Paid(r) \in txs /\ drawn[r] # 0
      /\ \A q \in Payment : invoices[q] # drawn[r]
  BY <1>1 DEF Inv, KnowledgeInv, Knows, NumberInv
<1>3. UNCHANGED <<captured, credits, txs, activated, published, events, workspace,
                  subscription, entitled>>
  BY DEF CreateInvoice, checkout, books, plans, bus
<1>4. CASE UNCHANGED invoices
  BY <1>3, <1>4 DEF Accounts
<1>5. CASE ~UNCHANGED invoices
  <2>1. /\ invoices[Paid(r)] = 0
        /\ invoices' = [invoices EXCEPT ![Paid(r)] = drawn[r]]
    BY <1>5 DEF CreateInvoice
  <2>2. invoices'[Paid(r)] = drawn[r]
    BY <1>1, <2>1 DEF Inv, Shape, NumberOK
  <2> QED
    BY <1>2, <1>3, <2>1, <2>2 DEF Desk!Invoice, Used
<1> QED
  BY <1>4, <1>5

\* An event of a purchase is published once, so nothing is owed to it twice.
LEMMA PublishDesk ==
  ASSUME Inv, NEW r \in Request, Publish(r)
  PROVE  UNCHANGED Desk!vars
<1>1. /\ step[r] = "publish" /\ published' = published \cup {Paid(r)}
      /\ events' = IF Buys(Paid(r)) THEN events \cup {Paid(r)} ELSE events
      /\ UNCHANGED <<captured, credits, txs, activated, entitled, invoices,
                      workspace, subscription>>
  BY DEF Publish, In, checkout, books, invoicing, plans
<1>2. Buys(Paid(r)) => Paid(r) \notin published
  BY <1>1 DEF Inv, OnceInv, BeforeEvent
<1>3. events \subseteq published
  BY DEF Inv, Shape, CheckoutOK
<1>4. ASSUME NEW q \in Payment PROVE Used(q)' = Used(q)
  <2>1. Buys(q) => (q \in published' \ events' <=> q \in published \ events)
    BY <1>1, <1>2, <1>3
  <2> QED
    BY <1>1, <2>1 DEF Used, Buys
<1> QED
  BY <1>1, <1>4 DEF Desk!vars

LEMMA OtherDesk ==
  ASSUME NEW r \in Request,
         \/ Arrive(r) \/ Check(r) \/ FindPlan(r) \/ FindTx(r) \/ FindInvoice(r)
         \/ DrawNumber(r) \/ Fail(r)
  PROVE  UNCHANGED Accounts
BY DEF Arrive, Check, FindPlan, FindTx, FindInvoice, DrawNumber, Fail, checkout,
       books, invoicing, plans, bus, Accounts

LEMMA DeskStep ==
  ASSUME Inv, [Next]_vars
  PROVE  [Desk!Next]_(Desk!vars)
<1> SUFFICES ASSUME ~UNCHANGED Desk!vars PROVE Desk!Next
  OBVIOUS
<1>1. ~UNCHANGED Accounts
  BY AccountsStutter
<1>2. CASE UNCHANGED vars
  BY <1>1, <1>2 DEF vars, checkout, books, invoicing, plans, bus, Accounts
<1>3. ASSUME NEW p \in Payment, CreateOrder(p) \/ Capture(p) PROVE Desk!Next
  BY <1>1, <1>3, PortalDesk DEF Desk!Next
<1>4. ASSUME NEW p \in Payment, applyPurchasedPlan(p) \/ LoseEvent(p)
      PROVE  Desk!Next
  BY <1>4, LimitsDesk DEF Desk!Next, Desk!Copies
<1>5. ASSUME SwitchToFree \/ \E pl \in Plan : deletePlan(pl) PROVE Desk!Next
  BY <1>1, <1>5, PlansDesk DEF Desk!Next
<1>6. ASSUME NEW r \in Request, NEW d \in Documents, Activate(r, d)
      PROVE  Desk!Next
  <2>1. Desk!Grant(Paid(r), d) /\ Paid(r) \in Payment
    BY <1>6, ActivateDesk, PaymentsAssumption DEF Paid
  <2> QED
    BY <2>1 DEF Desk!Next, Desk!Copies, Documents
<1>7. ASSUME NEW r \in Request, Serve(r) \/ Fail(r),
             ~\E d \in Documents : Activate(r, d)
      PROVE  Desk!Next
  <2>1. Paid(r) \in Payment
    BY PaymentsAssumption DEF Paid
  <2>2. ~(\/ Arrive(r) \/ Check(r) \/ FindPlan(r) \/ FindTx(r) \/ FindInvoice(r)
          \/ DrawNumber(r) \/ Fail(r) \/ Publish(r))
    BY <1>1, OtherDesk, PublishDesk
  <2>3. Credit(r) \/ Book(r) \/ Record(r) \/ CreateInvoice(r)
    BY <1>7, <2>2 DEF Serve
  <2>4. Desk!Credit(Paid(r)) \/ Desk!Book(Paid(r)) \/ Desk!Invoice(Paid(r))
    BY <1>1, <2>3, BooksDesk, InvoiceDesk
  <2> QED
    BY <2>1, <2>4 DEF Desk!Next
<1> QED
  BY <1>2, <1>3, <1>4, <1>5, <1>6, <1>7 DEF Next

\* Callbacks, webhooks, retries and faults together do to money, books, plans and
\* invoices what PaidWorkspace allows: above all, each payment moves each of the
\* three documents once at most.
THEOREM PaymentsImplementDesk == Spec => ImplementsDesk
<1>1. Init => Desk!Init
  BY DEF Init, Used, Desk!Init, Desk!Copies
<1>2. Inv /\ [Next]_vars => [Desk!Next]_(Desk!vars)
  BY DeskStep
<1> QED
  BY <1>1, <1>2, InvAlways, PTL DEF Spec, ImplementsDesk, Desk!Spec
=============================================================================

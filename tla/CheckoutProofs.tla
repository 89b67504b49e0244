--------------------------- MODULE CheckoutProofs ---------------------------
(***************************************************************************)
(* Proofs about Checkout, for any number of customers, requests, orders    *)
(* and faults, and any stock.                                              *)
(***************************************************************************)
EXTENDS Checkout, Sums, TLAPS

-----------------------------------------------------------------------------
(* The inductive invariant.                                                *)

WorkerRecord ==
  [pc : Step, contact : Contact \cup {Nobody}, cart : Cart, online : BOOLEAN,
   order : Order \cup {NoOrder}, status : OrderStatus]

ShopOK ==
  /\ cart \in [Contact -> Cart]
  /\ expired \subseteq Contact
  /\ stock \in Int

WorkerOK == worker \in [Worker -> WorkerRecord]

OrderOK ==
  /\ order \in [Order -> OrderDoc]
  /\ links \subseteq Born
  /\ paid \subseteq links

TroubleOK ==
  /\ overlapped \subseteq Contact
  /\ early \subseteq paid
  /\ spoiled \subseteq Contact
  /\ faults \in 0..MaxFaults

\* The request that made an order, while it works on it.
Holds(w) == worker[w].pc \in {"deduct", "complete", "pay", "link"}

\* A request that is not idle has a customer, and from the order on an order of
\* his, which gets a link from nobody else.
Knows(w) ==
  /\ worker[w].pc = "idle" <=> Whose(w) = Nobody
  /\ Holds(w) => worker[w].order \in Born /\ order[worker[w].order].contact = Whose(w)
  /\ worker[w].pc \in {"deduct", "complete", "pay"} => worker[w].order \notin links
  /\ worker[w].pc = "link" => /\ worker[w].order \in links
                              /\ worker[w].order \in paid => worker[w].order \in early

KnowledgeInv ==
  /\ \A w \in Worker : Knows(w)
  /\ \A v, w \in Worker :
       Holds(v) /\ Holds(w) /\ worker[v].order = worker[w].order => v = w

\* One at a time, unless they are known to overlap.
AloneInv ==
  \A v, w \in Worker :
    worker[v].contact = worker[w].contact /\ worker[v].pc # "idle"
    => v = w \/ worker[v].contact \in overlapped

\* What a lone request has read is what the cart holds, and the total fits it.
CopyInv ==
  \A c \in Contact \ overlapped :
    /\ cart[c].total = cart[c].items
    /\ cart[c].state = "none" => cart[c].items = 0
    /\ \A w \in Worker :
         worker[w].contact = c /\ worker[w].pc # "create"
         => worker[w].cart.items = cart[c].items /\ worker[w].cart.total = cart[c].items
    /\ \A w \in Worker :
         worker[w].contact = c /\ worker[w].pc = "create"
         => worker[w].cart.items = 0 /\ worker[w].cart.total = 0

TotalsInv ==
  \A o \in Born :
    /\ order[o].contact \in Contact
    /\ order[o].contact \notin overlapped => order[o].total = order[o].items

\* While a lone request may still order, there is no order; once there is one, it
\* is on its way to completing the cart.
Before(w) ==
  worker[w].pc \in {"reset", "select", "quantity", "address", "payment", "order"}

OrderInv ==
  \A c \in Contact \ (overlapped \cup spoiled) :
    /\ \A o1, o2 \in Born :
         order[o1].contact = c /\ order[o2].contact = c => o1 = o2
    /\ \A o \in Born : order[o].contact = c =>
         /\ \/ cart[c].state = "order_completed"
            \/ \E w \in Worker :
                 worker[w].contact = c /\ worker[w].pc \in {"deduct", "complete"}
         /\ \A w \in Worker : worker[w].contact = c => ~Before(w)

CompletedInv ==
  \A c \in Contact : cart[c].state = "order_completed"
                     => \E o \in Born : order[o].contact = c

Shape == ShopOK /\ WorkerOK /\ OrderOK /\ TroubleOK
Inv ==
  /\ Shape /\ KnowledgeInv /\ AloneInv /\ CopyInv /\ TotalsInv
  /\ OrderInv /\ CompletedInv /\ PaidIsConfirmed

LEMMA InitInv == Init => Inv
BY CheckoutAssumption
   DEF Init, Inv, Shape, ShopOK, WorkerOK, OrderOK, TroubleOK, KnowledgeInv,
       Knows, Holds, AloneInv, CopyInv, TotalsInv, OrderInv, CompletedInv,
       PaidIsConfirmed, Born, Unborn, NoCart, Idle, Whose, Cart, CartState,
       OrderDoc, OrderStatus, WorkerRecord, Step

-----------------------------------------------------------------------------
(* Each part is kept by every step.                                        *)


LEMMA IdleWorks == Idle \in WorkerRecord
BY DEF Idle, NoCart, WorkerRecord, Cart, CartState, Step, OrderStatus

LEMMA EndKeepsWorker ==
  ASSUME WorkerOK, NEW w \in Worker, End(w) PROVE WorkerOK'
BY IdleWorks DEF WorkerOK, End

LEMMA GoKeepsWorker ==
  ASSUME WorkerOK, NEW w \in Worker, NEW s \in Step, Go(w, s) PROVE WorkerOK'
BY DEF WorkerOK, Go, WorkerRecord

LEMMA OpenedWorks ==
  ASSUME WorkerOK, NEW w \in Worker
  PROVE  [worker[w] EXCEPT !.pc = "select", !.cart.state = "welcome"] \in WorkerRecord
<1>1. worker[w] \in WorkerRecord
  BY DEF WorkerOK
<1>2. [worker[w].cart EXCEPT !.state = "welcome"] \in Cart
  BY <1>1 DEF WorkerRecord, Cart, CartState
<1>3. "select" \in Step
  BY DEF Step
<1> QED
  BY <1>1, <1>2, <1>3 DEF WorkerRecord

LEMMA DispatchWorks ==
  ASSUME NEW state \in CartState PROVE Dispatch(state) \in Step
BY DEF Dispatch, CartState, Step

LEMMA ShopKept ==
  ASSUME ShopOK, WorkerOK, OrderOK, KnowledgeInv, Next
  PROVE  ShopOK'
<1> USE CheckoutAssumption DEF At, Go, End, Whose, Idle, NoCart, Born, ShopOK,
    WorkerOK, WorkerRecord, Cart, CartState
<1>1. ASSUME NEW w \in Worker, CreateCart(w) PROVE ShopOK'
  BY <1>1 DEF CreateCart, OrderOK, KnowledgeInv, Knows, Holds, shop, payment,
      trouble
<1>2. ASSUME NEW w \in Worker, Reset(w) PROVE ShopOK'
  BY <1>2 DEF Reset, OrderOK, KnowledgeInv, Knows, Holds, shop, payment,
      trouble
<1>3. ASSUME NEW w \in Worker, Reply(w) PROVE ShopOK'
  BY <1>3 DEF Reply, OrderOK, KnowledgeInv, Knows, Holds, shop, payment,
      trouble
<1>4. ASSUME NEW w \in Worker, NEW s \in {"product_selection", "quantity_selection"}, Select(w, s)
     PROVE  ShopOK'
  BY <1>4 DEF Select, OrderOK, KnowledgeInv, Knows, Holds, shop, payment,
      trouble
<1>5. ASSUME NEW w \in Worker, NEW qty \in 1..MaxQty, Quantity(w, qty)
     PROVE  ShopOK'
  BY <1>5 DEF Quantity, OrderOK, KnowledgeInv, Knows, Holds, shop, payment,
      trouble
<1>6. ASSUME NEW w \in Worker, Address(w) PROVE ShopOK'
  BY <1>6 DEF Address, OrderOK, KnowledgeInv, Knows, Holds, shop, payment,
      trouble
<1>7. ASSUME NEW w \in Worker, NEW online \in BOOLEAN, Choose(w, online)
     PROVE  ShopOK'
  BY <1>7 DEF Choose, OrderOK, KnowledgeInv, Knows, Holds, shop, payment,
      trouble
<1>8. ASSUME NEW w \in Worker, NEW o \in Order, createOrder(w, o) PROVE ShopOK'
  BY <1>8 DEF createOrder, NewOrder, OrderOK, KnowledgeInv, Knows, Holds, shop,
      payment, trouble
<1>9. ASSUME NEW w \in Worker, Deduct(w) PROVE ShopOK'
  BY <1>9 DEF Deduct, OrderOK, KnowledgeInv, Knows, Holds, shop, payment,
      trouble
<1>10. ASSUME NEW w \in Worker, Complete(w) PROVE ShopOK'
  BY <1>10 DEF Complete, OrderOK, KnowledgeInv, Knows, Holds, shop, payment,
      trouble
<1>11. ASSUME NEW w \in Worker, PaymentLink(w) PROVE ShopOK'
  BY <1>11 DEF PaymentLink, OrderOK, KnowledgeInv, Knows, Holds, shop, payment,
      trouble
<1>12. ASSUME NEW w \in Worker, SaveLink(w) PROVE ShopOK'
  BY <1>12 DEF SaveLink, OrderOK, KnowledgeInv, Knows, Holds, shop, payment,
      trouble
<1>13. ASSUME NEW w \in Worker, Fail(w) PROVE ShopOK'
  BY <1>13 DEF Fail, OrderOK, KnowledgeInv, Knows, Holds, shop, payment,
      trouble
<1>14. ASSUME NEW w \in Worker, NEW c \in Contact, Receive(w, c) PROVE ShopOK'
  BY <1>14 DEF Receive, Busy, Dispatch, OrderOK, KnowledgeInv, Knows, Holds,
      shop, payment, trouble
<1>15. ASSUME NEW c \in Contact, Expire(c) PROVE ShopOK'
  BY <1>15 DEF Expire, OrderOK, KnowledgeInv, Knows, Holds, shop, payment,
      trouble
<1>16. ASSUME NEW o \in Order, PayLink(o) PROVE ShopOK'
  BY <1>16 DEF PayLink, OrderOK, KnowledgeInv, Knows, Holds, shop, payment,
      trouble
<1>17. ASSUME NEW o \in Order, markAsPaid(o) PROVE ShopOK'
  BY <1>17 DEF markAsPaid, OrderOK, KnowledgeInv, Knows, Holds, shop, payment,
      trouble
<1> QED
  BY <1>1, <1>2, <1>3, <1>4, <1>5, <1>6, <1>7, <1>8, <1>9, <1>10, <1>11, <1>12,
      <1>13, <1>14, <1>15, <1>16, <1>17 DEF Next, Serve

LEMMA WorkerKept ==
  ASSUME ShopOK, WorkerOK, OrderOK, KnowledgeInv, Next
  PROVE  WorkerOK'
<1>1. ASSUME NEW w \in Worker, CreateCart(w) PROVE WorkerOK'
  <2>1. CASE cart[Whose(w)].state = "none"
    BY <1>1, <2>1, OpenedWorks DEF CreateCart, WorkerOK
  <2>2. CASE cart[Whose(w)].state # "none"
    BY <1>1, <2>2, EndKeepsWorker DEF CreateCart
  <2> QED
    BY <2>1, <2>2
<1>2. ASSUME NEW w \in Worker, Reset(w) PROVE WorkerOK'
  BY <1>2, OpenedWorks DEF Reset, WorkerOK
<1>3. ASSUME NEW w \in Worker, Reply(w) PROVE WorkerOK'
  BY <1>3, EndKeepsWorker DEF Reply
<1>4. ASSUME NEW w \in Worker, NEW s \in {"product_selection", "quantity_selection"}, Select(w, s)
     PROVE  WorkerOK'
  BY <1>4, EndKeepsWorker DEF Select
<1>5. ASSUME NEW w \in Worker, NEW qty \in 1..MaxQty, Quantity(w, qty)
     PROVE  WorkerOK'
  BY <1>5, EndKeepsWorker DEF Quantity
<1>6. ASSUME NEW w \in Worker, Address(w) PROVE WorkerOK'
  BY <1>6, EndKeepsWorker DEF Address
<1>7. ASSUME NEW w \in Worker, NEW online \in BOOLEAN, Choose(w, online)
     PROVE  WorkerOK'
  <2>1. "order" \in Step
    BY DEF Step
  <2> QED
    BY <1>7, <2>1 DEF Choose, WorkerOK, WorkerRecord
<1>8. ASSUME NEW w \in Worker, NEW o \in Order, createOrder(w, o)
     PROVE  WorkerOK'
  <2>1. "deduct" \in Step
    BY DEF Step
  <2> QED
    BY <1>8, <2>1 DEF createOrder, WorkerOK, WorkerRecord
<1>9. ASSUME NEW w \in Worker, Deduct(w) PROVE WorkerOK'
  <2>1. "complete" \in Step
    BY DEF Step
  <2> QED
    BY <1>9, <2>1, GoKeepsWorker DEF Deduct
<1>10. ASSUME NEW w \in Worker, Complete(w) PROVE WorkerOK'
  <2>1. "pay" \in Step
    BY DEF Step
  <2> QED
    BY <1>10, <2>1, EndKeepsWorker, GoKeepsWorker DEF Complete
<1>11. ASSUME NEW w \in Worker, PaymentLink(w) PROVE WorkerOK'
  <2>1. CASE End(w)
    BY <2>1, EndKeepsWorker
  <2>2. CASE ~End(w)
    <3>1. "link" \in Step
      BY DEF Step
    <3>2. worker[w].order \in Order
      BY <1>11 DEF PaymentLink, KnowledgeInv, Knows, Holds, Born, At
    <3>3. order[worker[w].order].status \in OrderStatus
      BY <3>2 DEF OrderOK, OrderDoc
    <3> QED
      BY <1>11, <2>2, <3>1, <3>3 DEF PaymentLink, WorkerOK, WorkerRecord
  <2> QED
    BY <2>1, <2>2
<1>12. ASSUME NEW w \in Worker, SaveLink(w) PROVE WorkerOK'
  BY <1>12, EndKeepsWorker DEF SaveLink
<1>13. ASSUME NEW w \in Worker, Fail(w) PROVE WorkerOK'
  BY <1>13, EndKeepsWorker DEF Fail
<1>14. ASSUME NEW w \in Worker, NEW c \in Contact, Receive(w, c)
     PROVE  WorkerOK'
  <2> DEFINE open == cart[c].state \notin {"none", "order_completed"}
             read == IF open THEN cart[c] ELSE NoCart
             next == IF ~open THEN "create"
                     ELSE IF c \in expired THEN "reset"
                     ELSE Dispatch(cart[c].state)
  <2>1. cart[c] \in Cart /\ cart[c].state \in CartState
    BY DEF ShopOK, Cart
  <2>2. read \in Cart
    BY <2>1 DEF NoCart, Cart, CartState
  <2>3. "create" \in Step /\ "reset" \in Step
    BY DEF Step
  <2>4. next \in Step
    BY <2>1, <2>3, DispatchWorks
  <2> HIDE DEF read, next
  <2>5. [Idle EXCEPT !.contact = c, !.cart = read, !.pc = next] \in WorkerRecord
    BY <2>2, <2>4, IdleWorks DEF WorkerRecord
  <2>6. worker' = [worker EXCEPT ![w] =
                     [Idle EXCEPT !.contact = c, !.cart = read, !.pc = next]]
    BY <1>14 DEF Receive, read, next
  <2> QED
    BY <2>5, <2>6 DEF WorkerOK
<1>15. ASSUME NEW c \in Contact, Expire(c) PROVE WorkerOK'
  BY <1>15 DEF Expire, WorkerOK
<1>16. ASSUME NEW o \in Order, PayLink(o) PROVE WorkerOK'
  BY <1>16 DEF PayLink, WorkerOK
<1>17. ASSUME NEW o \in Order, markAsPaid(o) PROVE WorkerOK'
  BY <1>17 DEF markAsPaid, WorkerOK
<1> QED
  BY <1>1, <1>2, <1>3, <1>4, <1>5, <1>6, <1>7, <1>8, <1>9, <1>10, <1>11, <1>12,
      <1>13, <1>14, <1>15, <1>16, <1>17 DEF Next, Serve

LEMMA OrderKept ==
  ASSUME WorkerOK, OrderOK, KnowledgeInv, Next
  PROVE  OrderOK'
<1> USE CheckoutAssumption DEF At, Go, End, Whose, Idle, NoCart, Born, OrderOK,
    OrderDoc, OrderStatus
<1>1. ASSUME NEW w \in Worker, CreateCart(w) PROVE OrderOK'
  BY <1>1 DEF CreateCart, WorkerOK, KnowledgeInv, Knows, Holds, shop, payment,
      trouble
<1>2. ASSUME NEW w \in Worker, Reset(w) PROVE OrderOK'
  BY <1>2 DEF Reset, WorkerOK, KnowledgeInv, Knows, Holds, shop, payment,
      trouble
<1>3. ASSUME NEW w \in Worker, Reply(w) PROVE OrderOK'
  BY <1>3 DEF Reply, WorkerOK, KnowledgeInv, Knows, Holds, shop, payment,
      trouble
<1>4. ASSUME NEW w \in Worker, NEW s \in {"product_selection", "quantity_selection"}, Select(w, s)
     PROVE  OrderOK'
  BY <1>4 DEF Select, WorkerOK, KnowledgeInv, Knows, Holds, shop, payment,
      trouble
<1>5. ASSUME NEW w \in Worker, NEW qty \in 1..MaxQty, Quantity(w, qty)
     PROVE  OrderOK'
  BY <1>5 DEF Quantity, WorkerOK, KnowledgeInv, Knows, Holds, shop, payment,
      trouble
<1>6. ASSUME NEW w \in Worker, Address(w) PROVE OrderOK'
  BY <1>6 DEF Address, WorkerOK, KnowledgeInv, Knows, Holds, shop, payment,
      trouble
<1>7. ASSUME NEW w \in Worker, NEW online \in BOOLEAN, Choose(w, online)
     PROVE  OrderOK'
  BY <1>7 DEF Choose, WorkerOK, KnowledgeInv, Knows, Holds, shop, payment,
      trouble
<1>8. ASSUME NEW w \in Worker, NEW o \in Order, createOrder(w, o)
     PROVE  OrderOK'
  <2>1. NewOrder(w) \in OrderDoc
    BY DEF NewOrder, WorkerOK, WorkerRecord, Cart
  <2>2. order' \in [Order -> OrderDoc]
    BY <1>8, <2>1 DEF createOrder
  <2>3. Born \subseteq Born'
    BY <1>8, <2>2 DEF createOrder, NewOrder
  <2> QED
    BY <1>8, <2>2, <2>3 DEF createOrder, payment
<1>9. ASSUME NEW w \in Worker, Deduct(w) PROVE OrderOK'
  BY <1>9 DEF Deduct, WorkerOK, KnowledgeInv, Knows, Holds, shop, payment,
      trouble
<1>10. ASSUME NEW w \in Worker, Complete(w) PROVE OrderOK'
  BY <1>10 DEF Complete, WorkerOK, KnowledgeInv, Knows, Holds, shop, payment,
      trouble
<1>11. ASSUME NEW w \in Worker, PaymentLink(w) PROVE OrderOK'
  BY <1>11 DEF PaymentLink, WorkerOK, KnowledgeInv, Knows, Holds, shop,
      payment, trouble
<1>12. ASSUME NEW w \in Worker, SaveLink(w) PROVE OrderOK'
  BY <1>12 DEF SaveLink, WorkerOK, KnowledgeInv, Knows, Holds, shop, payment,
      trouble
<1>13. ASSUME NEW w \in Worker, Fail(w) PROVE OrderOK'
  BY <1>13 DEF Fail, WorkerOK, KnowledgeInv, Knows, Holds, shop, payment,
      trouble
<1>14. ASSUME NEW w \in Worker, NEW c \in Contact, Receive(w, c) PROVE OrderOK'
  BY <1>14 DEF Receive, Busy, Dispatch, WorkerOK, KnowledgeInv, Knows, Holds,
      shop, payment, trouble
<1>15. ASSUME NEW c \in Contact, Expire(c) PROVE OrderOK'
  BY <1>15 DEF Expire, WorkerOK, KnowledgeInv, Knows, Holds, shop, payment,
      trouble
<1>16. ASSUME NEW o \in Order, PayLink(o) PROVE OrderOK'
  BY <1>16 DEF PayLink, WorkerOK, KnowledgeInv, Knows, Holds, shop, payment,
      trouble
<1>17. ASSUME NEW o \in Order, markAsPaid(o) PROVE OrderOK'
  <2>1. order[o] \in OrderDoc
    OBVIOUS
  <2>2. \A s \in OrderStatus :
          [order[o] EXCEPT !.payment = "completed", !.status = s] \in OrderDoc
    BY <2>1
  <2> DEFINE status == IF order[o].status \in {"pending", "payment_initiated"}
                       THEN "confirmed" ELSE order[o].status
  <2>3. status \in OrderStatus
    BY <2>1
  <2> HIDE DEF status
  <2>4. order' = [order EXCEPT ![o] =
                    [order[o] EXCEPT !.payment = "completed", !.status = status]]
    BY <1>17 DEF markAsPaid, status
  <2>5. order' \in [Order -> OrderDoc]
    BY <2>2, <2>3, <2>4
  <2>6. order'[o].status # "none"
    BY <2>1, <2>4, <1>17 DEF markAsPaid, status, payment
  <2>7. Born \subseteq Born'
    BY <2>4, <2>5, <2>6
  <2> QED
    BY <1>17, <2>5, <2>7 DEF markAsPaid, payment
<1> QED
  BY <1>1, <1>2, <1>3, <1>4, <1>5, <1>6, <1>7, <1>8, <1>9, <1>10, <1>11, <1>12,
      <1>13, <1>14, <1>15, <1>16, <1>17 DEF Next, Serve

LEMMA TroubleKept ==
  ASSUME WorkerOK, OrderOK, TroubleOK, KnowledgeInv, Next
  PROVE  TroubleOK'
<1> USE CheckoutAssumption DEF At, Go, End, Whose, Idle, NoCart, Born,
    TroubleOK
<1>1. ASSUME NEW w \in Worker, CreateCart(w) PROVE TroubleOK'
  BY <1>1 DEF CreateCart, WorkerOK, OrderOK, KnowledgeInv, Knows, Holds, shop,
      payment, trouble
<1>2. ASSUME NEW w \in Worker, Reset(w) PROVE TroubleOK'
  BY <1>2 DEF Reset, WorkerOK, OrderOK, KnowledgeInv, Knows, Holds, shop,
      payment, trouble
<1>3. ASSUME NEW w \in Worker, Reply(w) PROVE TroubleOK'
  BY <1>3 DEF Reply, WorkerOK, OrderOK, KnowledgeInv, Knows, Holds, shop,
      payment, trouble
<1>4. ASSUME NEW w \in Worker, NEW s \in {"product_selection", "quantity_selection"}, Select(w, s)
     PROVE  TroubleOK'
  BY <1>4 DEF Select, WorkerOK, OrderOK, KnowledgeInv, Knows, Holds, shop,
      payment, trouble
<1>5. ASSUME NEW w \in Worker, NEW qty \in 1..MaxQty, Quantity(w, qty)
     PROVE  TroubleOK'
  BY <1>5 DEF Quantity, WorkerOK, OrderOK, KnowledgeInv, Knows, Holds, shop,
      payment, trouble
<1>6. ASSUME NEW w \in Worker, Address(w) PROVE TroubleOK'
  BY <1>6 DEF Address, WorkerOK, OrderOK, KnowledgeInv, Knows, Holds, shop,
      payment, trouble
<1>7. ASSUME NEW w \in Worker, NEW online \in BOOLEAN, Choose(w, online)
     PROVE  TroubleOK'
  BY <1>7 DEF Choose, WorkerOK, OrderOK, KnowledgeInv, Knows, Holds, shop,
      payment, trouble
<1>8. ASSUME NEW w \in Worker, NEW o \in Order, createOrder(w, o)
     PROVE  TroubleOK'
  BY <1>8 DEF createOrder, NewOrder, WorkerOK, OrderOK, KnowledgeInv, Knows,
      Holds, shop, payment, trouble
<1>9. ASSUME NEW w \in Worker, Deduct(w) PROVE TroubleOK'
  BY <1>9 DEF Deduct, WorkerOK, OrderOK, KnowledgeInv, Knows, Holds, shop,
      payment, trouble
<1>10. ASSUME NEW w \in Worker, Complete(w) PROVE TroubleOK'
  BY <1>10 DEF Complete, WorkerOK, OrderOK, KnowledgeInv, Knows, Holds, shop,
      payment, trouble
<1>11. ASSUME NEW w \in Worker, PaymentLink(w) PROVE TroubleOK'
  BY <1>11 DEF PaymentLink, WorkerOK, OrderOK, KnowledgeInv, Knows, Holds,
      shop, payment, trouble
<1>12. ASSUME NEW w \in Worker, SaveLink(w) PROVE TroubleOK'
  BY <1>12 DEF SaveLink, WorkerOK, OrderOK, KnowledgeInv, Knows, Holds, shop,
      payment, trouble
<1>13. ASSUME NEW w \in Worker, Fail(w) PROVE TroubleOK'
  <2>1. Whose(w) \in Contact
    BY <1>13 DEF Fail, KnowledgeInv, Knows, WorkerOK, WorkerRecord
  <2>2. MaxFaults \in Nat
    OBVIOUS
  <2> QED
    BY <1>13, <2>1, <2>2 DEF Fail, shop, payment
<1>14. ASSUME NEW w \in Worker, NEW c \in Contact, Receive(w, c)
     PROVE  TroubleOK'
  BY <1>14 DEF Receive, Busy, Dispatch, WorkerOK, OrderOK, KnowledgeInv, Knows,
      Holds, shop, payment, trouble
<1>15. ASSUME NEW c \in Contact, Expire(c) PROVE TroubleOK'
  BY <1>15 DEF Expire, WorkerOK, OrderOK, KnowledgeInv, Knows, Holds, shop,
      payment, trouble
<1>16. ASSUME NEW o \in Order, PayLink(o) PROVE TroubleOK'
  BY <1>16 DEF PayLink, WorkerOK, OrderOK, KnowledgeInv, Knows, Holds, shop,
      payment, trouble
<1>17. ASSUME NEW o \in Order, markAsPaid(o) PROVE TroubleOK'
  BY <1>17 DEF markAsPaid, WorkerOK, OrderOK, KnowledgeInv, Knows, Holds, shop,
      payment, trouble
<1> QED
  BY <1>1, <1>2, <1>3, <1>4, <1>5, <1>6, <1>7, <1>8, <1>9, <1>10, <1>11, <1>12,
      <1>13, <1>14, <1>15, <1>16, <1>17 DEF Next, Serve

LEMMA KnowledgeKept ==
  ASSUME ShopOK, WorkerOK, OrderOK, TroubleOK, KnowledgeInv, Next
  PROVE  KnowledgeInv'
<1> USE CheckoutAssumption DEF At, Go, End, Whose, Idle, NoCart, Born,
    KnowledgeInv, Knows, Holds
<1>1. ASSUME NEW w \in Worker, CreateCart(w) PROVE KnowledgeInv'
  <2>1. CASE /\ worker' = [worker EXCEPT ![w].pc = "select", ![w].cart.state = "welcome"]
             /\ cart' = [cart EXCEPT ![Whose(w)].state = "welcome"]
    BY <1>1, <2>1 DEF CreateCart, ShopOK, WorkerOK, OrderOK, TroubleOK, shop,
        payment, trouble
  <2>2. CASE End(w) /\ UNCHANGED cart
    BY <1>1, <2>2 DEF CreateCart, ShopOK, WorkerOK, OrderOK, TroubleOK, shop,
        payment, trouble
  <2> QED
    BY <1>1, <2>1, <2>2 DEF CreateCart
<1>2. ASSUME NEW w \in Worker, Reset(w) PROVE KnowledgeInv'
  BY <1>2 DEF Reset, ShopOK, WorkerOK, OrderOK, TroubleOK, shop, payment,
      trouble
<1>3. ASSUME NEW w \in Worker, Reply(w) PROVE KnowledgeInv'
  BY <1>3 DEF Reply, ShopOK, WorkerOK, OrderOK, TroubleOK, shop, payment,
      trouble
<1>4. ASSUME NEW w \in Worker, NEW s \in {"product_selection", "quantity_selection"}, Select(w, s)
     PROVE  KnowledgeInv'
  BY <1>4 DEF Select, ShopOK, WorkerOK, OrderOK, TroubleOK, shop, payment,
      trouble
<1>5. ASSUME NEW w \in Worker, NEW qty \in 1..MaxQty, Quantity(w, qty)
     PROVE  KnowledgeInv'
  BY <1>5 DEF Quantity, ShopOK, WorkerOK, OrderOK, TroubleOK, shop, payment,
      trouble
<1>6. ASSUME NEW w \in Worker, Address(w) PROVE KnowledgeInv'
  BY <1>6 DEF Address, ShopOK, WorkerOK, OrderOK, TroubleOK, shop, payment,
      trouble
<1>7. ASSUME NEW w \in Worker, NEW online \in BOOLEAN, Choose(w, online)
     PROVE  KnowledgeInv'
  BY <1>7 DEF Choose, ShopOK, WorkerOK, OrderOK, TroubleOK, shop, payment,
      trouble
<1>8. ASSUME NEW w \in Worker, NEW o \in Order, createOrder(w, o)
     PROVE  KnowledgeInv'
  BY <1>8 DEF createOrder, NewOrder, ShopOK, WorkerOK, OrderOK, TroubleOK,
      shop, payment, trouble
<1>9. ASSUME NEW w \in Worker, Deduct(w) PROVE KnowledgeInv'
  BY <1>9 DEF Deduct, ShopOK, WorkerOK, OrderOK, TroubleOK, shop, payment,
      trouble
<1>10. ASSUME NEW w \in Worker, Complete(w) PROVE KnowledgeInv'
  <2>1. CASE Go(w, "pay")
    BY <1>10, <2>1 DEF Complete, ShopOK, WorkerOK, OrderOK, TroubleOK, shop,
        payment, trouble
  <2>2. CASE End(w)
    BY <1>10, <2>2 DEF Complete, ShopOK, WorkerOK, OrderOK, TroubleOK, shop,
        payment, trouble
  <2> QED
    BY <1>10, <2>1, <2>2 DEF Complete
<1>11. ASSUME NEW w \in Worker, PaymentLink(w) PROVE KnowledgeInv'
  <2>1. CASE /\ links' = links \cup {worker[w].order}
             /\ worker' = [worker EXCEPT ![w].pc = "link",
                              ![w].status = order[worker[w].order].status]
    BY <1>11, <2>1 DEF PaymentLink, ShopOK, WorkerOK, OrderOK, TroubleOK, shop,
        payment, trouble
  <2>2. CASE End(w) /\ UNCHANGED links
    BY <1>11, <2>2 DEF PaymentLink, ShopOK, WorkerOK, OrderOK, TroubleOK, shop,
        payment, trouble
  <2> QED
    BY <1>11, <2>1, <2>2 DEF PaymentLink
<1>12. ASSUME NEW w \in Worker, SaveLink(w) PROVE KnowledgeInv'
  BY <1>12 DEF SaveLink, ShopOK, WorkerOK, OrderOK, TroubleOK, shop, payment,
      trouble
<1>13. ASSUME NEW w \in Worker, Fail(w) PROVE KnowledgeInv'
  BY <1>13 DEF Fail, ShopOK, WorkerOK, OrderOK, TroubleOK, shop, payment,
      trouble
<1>14. ASSUME NEW w \in Worker, NEW c \in Contact, Receive(w, c)
     PROVE  KnowledgeInv'
  <2> DEFINE next == IF ~(cart[c].state \notin {"none", "order_completed"}) THEN "create"
                     ELSE IF c \in expired THEN "reset"
                     ELSE Dispatch(cart[c].state)
  <2>1. next \notin {"deduct", "complete", "pay", "link"}
    BY DEF Dispatch
  <2>2. next # "idle"
    BY DEF Dispatch, ShopOK, Cart, CartState
  <2> HIDE DEF next
  <2>3. /\ worker'[w].pc = next /\ worker'[w].contact = c
        /\ \A v \in Worker \ {w} : worker'[v] = worker[v]
    BY <1>14 DEF Receive, WorkerOK, next
  <2>4. c # Nobody
    OBVIOUS
  <2> QED
    BY <1>14, <2>1, <2>2, <2>3, <2>4 DEF Receive, shop, payment
<1>15. ASSUME NEW c \in Contact, Expire(c) PROVE KnowledgeInv'
  BY <1>15 DEF Expire, ShopOK, WorkerOK, OrderOK, TroubleOK, shop, payment,
      trouble
<1>16. ASSUME NEW o \in Order, PayLink(o) PROVE KnowledgeInv'
  BY <1>16 DEF PayLink, ShopOK, WorkerOK, OrderOK, TroubleOK, shop, payment,
      trouble
<1>17. ASSUME NEW o \in Order, markAsPaid(o) PROVE KnowledgeInv'
  BY <1>17 DEF markAsPaid, ShopOK, WorkerOK, OrderOK, TroubleOK, shop, payment,
      trouble
<1> QED
  BY <1>1, <1>2, <1>3, <1>4, <1>5, <1>6, <1>7, <1>8, <1>9, <1>10, <1>11, <1>12,
      <1>13, <1>14, <1>15, <1>16, <1>17 DEF Next, Serve

LEMMA AloneKept ==
  ASSUME ShopOK, WorkerOK, OrderOK, TroubleOK, KnowledgeInv, AloneInv, Next
  PROVE  AloneInv'
<1> USE CheckoutAssumption DEF At, Go, End, Whose, Idle, NoCart, Born, AloneInv
<1>1. ASSUME NEW w \in Worker, CreateCart(w) PROVE AloneInv'
  <2>1. CASE /\ worker' = [worker EXCEPT ![w].pc = "select", ![w].cart.state = "welcome"]
             /\ cart' = [cart EXCEPT ![Whose(w)].state = "welcome"]
    BY <1>1, <2>1 DEF CreateCart, ShopOK, WorkerOK, OrderOK, TroubleOK,
        KnowledgeInv, Knows, Holds, shop, payment, trouble
  <2>2. CASE End(w) /\ UNCHANGED cart
    BY <1>1, <2>2 DEF CreateCart, ShopOK, WorkerOK, OrderOK, TroubleOK,
        KnowledgeInv, Knows, Holds, shop, payment, trouble
  <2> QED
    BY <1>1, <2>1, <2>2 DEF CreateCart
<1>2. ASSUME NEW w \in Worker, Reset(w) PROVE AloneInv'
  BY <1>2 DEF Reset, ShopOK, WorkerOK, OrderOK, TroubleOK, KnowledgeInv, Knows,
      Holds, shop, payment, trouble
<1>3. ASSUME NEW w \in Worker, Reply(w) PROVE AloneInv'
  BY <1>3 DEF Reply, ShopOK, WorkerOK, OrderOK, TroubleOK, KnowledgeInv, Knows,
      Holds, shop, payment, trouble
<1>4. ASSUME NEW w \in Worker, NEW s \in {"product_selection", "quantity_selection"}, Select(w, s)
     PROVE  AloneInv'
  BY <1>4 DEF Select, ShopOK, WorkerOK, OrderOK, TroubleOK, KnowledgeInv,
      Knows, Holds, shop, payment, trouble
<1>5. ASSUME NEW w \in Worker, NEW qty \in 1..MaxQty, Quantity(w, qty)
     PROVE  AloneInv'
  BY <1>5 DEF Quantity, ShopOK, WorkerOK, OrderOK, TroubleOK, KnowledgeInv,
      Knows, Holds, shop, payment, trouble
<1>6. ASSUME NEW w \in Worker, Address(w) PROVE AloneInv'
  BY <1>6 DEF Address, ShopOK, WorkerOK, OrderOK, TroubleOK, KnowledgeInv,
      Knows, Holds, shop, payment, trouble
<1>7. ASSUME NEW w \in Worker, NEW online \in BOOLEAN, Choose(w, online)
     PROVE  AloneInv'
  BY <1>7 DEF Choose, ShopOK, WorkerOK, OrderOK, TroubleOK, KnowledgeInv,
      Knows, Holds, shop, payment, trouble
<1>8. ASSUME NEW w \in Worker, NEW o \in Order, createOrder(w, o)
     PROVE  AloneInv'
  BY <1>8 DEF createOrder, NewOrder, ShopOK, WorkerOK, OrderOK, TroubleOK,
      KnowledgeInv, Knows, Holds, shop, payment, trouble
<1>9. ASSUME NEW w \in Worker, Deduct(w) PROVE AloneInv'
  BY <1>9 DEF Deduct, ShopOK, WorkerOK, OrderOK, TroubleOK, KnowledgeInv,
      Knows, Holds, shop, payment, trouble
<1>10. ASSUME NEW w \in Worker, Complete(w) PROVE AloneInv'
  <2>1. CASE Go(w, "pay")
    BY <1>10, <2>1 DEF Complete, ShopOK, WorkerOK, OrderOK, TroubleOK,
        KnowledgeInv, Knows, Holds, shop, payment, trouble
  <2>2. CASE End(w)
    BY <1>10, <2>2 DEF Complete, ShopOK, WorkerOK, OrderOK, TroubleOK,
        KnowledgeInv, Knows, Holds, shop, payment, trouble
  <2> QED
    BY <1>10, <2>1, <2>2 DEF Complete
<1>11. ASSUME NEW w \in Worker, PaymentLink(w) PROVE AloneInv'
  <2>1. CASE /\ links' = links \cup {worker[w].order}
             /\ worker' = [worker EXCEPT ![w].pc = "link",
                              ![w].status = order[worker[w].order].status]
    BY <1>11, <2>1 DEF PaymentLink, ShopOK, WorkerOK, OrderOK, TroubleOK,
        KnowledgeInv, Knows, Holds, shop, payment, trouble
  <2>2. CASE End(w) /\ UNCHANGED links
    BY <1>11, <2>2 DEF PaymentLink, ShopOK, WorkerOK, OrderOK, TroubleOK,
        KnowledgeInv, Knows, Holds, shop, payment, trouble
  <2> QED
    BY <1>11, <2>1, <2>2 DEF PaymentLink
<1>12. ASSUME NEW w \in Worker, SaveLink(w) PROVE AloneInv'
  BY <1>12 DEF SaveLink, ShopOK, WorkerOK, OrderOK, TroubleOK, KnowledgeInv,
      Knows, Holds, shop, payment, trouble
<1>13. ASSUME NEW w \in Worker, Fail(w) PROVE AloneInv'
  BY <1>13 DEF Fail, ShopOK, WorkerOK, OrderOK, TroubleOK, KnowledgeInv, Knows,
      Holds, shop, payment, trouble
<1>14. ASSUME NEW w \in Worker, NEW c \in Contact, Receive(w, c)
     PROVE  AloneInv'
  BY <1>14 DEF Receive, Busy, Dispatch, ShopOK, WorkerOK, OrderOK, TroubleOK,
      KnowledgeInv, Knows, Holds, shop, payment, trouble
<1>15. ASSUME NEW c \in Contact, Expire(c) PROVE AloneInv'
  BY <1>15 DEF Expire, ShopOK, WorkerOK, OrderOK, TroubleOK, KnowledgeInv,
      Knows, Holds, shop, payment, trouble
<1>16. ASSUME NEW o \in Order, PayLink(o) PROVE AloneInv'
  BY <1>16 DEF PayLink, ShopOK, WorkerOK, OrderOK, TroubleOK, KnowledgeInv,
      Knows, Holds, shop, payment, trouble
<1>17. ASSUME NEW o \in Order, markAsPaid(o) PROVE AloneInv'
  BY <1>17 DEF markAsPaid, ShopOK, WorkerOK, OrderOK, TroubleOK, KnowledgeInv,
      Knows, Holds, shop, payment, trouble
<1> QED
  BY <1>1, <1>2, <1>3, <1>4, <1>5, <1>6, <1>7, <1>8, <1>9, <1>10, <1>11, <1>12,
      <1>13, <1>14, <1>15, <1>16, <1>17 DEF Next, Serve

LEMMA CopyKept ==
  ASSUME ShopOK, WorkerOK, OrderOK, TroubleOK, KnowledgeInv, AloneInv, CopyInv, Next
  PROVE  CopyInv'
<1> USE CheckoutAssumption DEF At, Go, End, Whose, Idle, NoCart, Born, CopyInv
<1>1. ASSUME NEW w \in Worker, CreateCart(w) PROVE CopyInv'
  <2>1. CASE /\ worker' = [worker EXCEPT ![w].pc = "select", ![w].cart.state = "welcome"]
             /\ cart' = [cart EXCEPT ![Whose(w)].state = "welcome"]
    BY <1>1, <2>1 DEF CreateCart, ShopOK, WorkerOK, OrderOK, TroubleOK,
        KnowledgeInv, AloneInv, Knows, Holds, shop, payment, trouble
  <2>2. CASE End(w) /\ UNCHANGED cart
    BY <1>1, <2>2 DEF CreateCart, ShopOK, WorkerOK, OrderOK, TroubleOK,
        KnowledgeInv, AloneInv, Knows, Holds, shop, payment, trouble
  <2> QED
    BY <1>1, <2>1, <2>2 DEF CreateCart
<1>2. ASSUME NEW w \in Worker, Reset(w) PROVE CopyInv'
  BY <1>2 DEF Reset, ShopOK, WorkerOK, OrderOK, TroubleOK, KnowledgeInv,
      AloneInv, Knows, Holds, shop, payment, trouble
<1>3. ASSUME NEW w \in Worker, Reply(w) PROVE CopyInv'
  BY <1>3 DEF Reply, ShopOK, WorkerOK, OrderOK, TroubleOK, KnowledgeInv,
      AloneInv, Knows, Holds, shop, payment, trouble
<1>4. ASSUME NEW w \in Worker, NEW s \in {"product_selection", "quantity_selection"}, Select(w, s)
     PROVE  CopyInv'
  BY <1>4 DEF Select, ShopOK, WorkerOK, OrderOK, TroubleOK, KnowledgeInv,
      AloneInv, Knows, Holds, shop, payment, trouble
<1>5. ASSUME NEW w \in Worker, NEW qty \in 1..MaxQty, Quantity(w, qty)
     PROVE  CopyInv'
  BY <1>5 DEF Quantity, ShopOK, WorkerOK, OrderOK, TroubleOK, KnowledgeInv,
      AloneInv, Knows, Holds, shop, payment, trouble
<1>6. ASSUME NEW w \in Worker, Address(w) PROVE CopyInv'
  BY <1>6 DEF Address, ShopOK, WorkerOK, OrderOK, TroubleOK, KnowledgeInv,
      AloneInv, Knows, Holds, shop, payment, trouble
<1>7. ASSUME NEW w \in Worker, NEW online \in BOOLEAN, Choose(w, online)
     PROVE  CopyInv'
  BY <1>7 DEF Choose, ShopOK, WorkerOK, OrderOK, TroubleOK, KnowledgeInv,
      AloneInv, Knows, Holds, shop, payment, trouble
<1>8. ASSUME NEW w \in Worker, NEW o \in Order, createOrder(w, o)
     PROVE  CopyInv'
  BY <1>8 DEF createOrder, NewOrder, ShopOK, WorkerOK, OrderOK, TroubleOK,
      KnowledgeInv, AloneInv, Knows, Holds, shop, payment, trouble
<1>9. ASSUME NEW w \in Worker, Deduct(w) PROVE CopyInv'
  BY <1>9 DEF Deduct, ShopOK, WorkerOK, OrderOK, TroubleOK, KnowledgeInv,
      AloneInv, Knows, Holds, shop, payment, trouble
<1>10. ASSUME NEW w \in Worker, Complete(w) PROVE CopyInv'
  <2>1. CASE Go(w, "pay")
    BY <1>10, <2>1 DEF Complete, ShopOK, WorkerOK, OrderOK, TroubleOK,
        KnowledgeInv, AloneInv, Knows, Holds, shop, payment, trouble
  <2>2. CASE End(w)
    BY <1>10, <2>2 DEF Complete, ShopOK, WorkerOK, OrderOK, TroubleOK,
        KnowledgeInv, AloneInv, Knows, Holds, shop, payment, trouble
  <2> QED
    BY <1>10, <2>1, <2>2 DEF Complete
<1>11. ASSUME NEW w \in Worker, PaymentLink(w) PROVE CopyInv'
  <2>1. CASE /\ links' = links \cup {worker[w].order}
             /\ worker' = [worker EXCEPT ![w].pc = "link",
                              ![w].status = order[worker[w].order].status]
    BY <1>11, <2>1 DEF PaymentLink, ShopOK, WorkerOK, OrderOK, TroubleOK,
        KnowledgeInv, AloneInv, Knows, Holds, shop, payment, trouble
  <2>2. CASE End(w) /\ UNCHANGED links
    BY <1>11, <2>2 DEF PaymentLink, ShopOK, WorkerOK, OrderOK, TroubleOK,
        KnowledgeInv, AloneInv, Knows, Holds, shop, payment, trouble
  <2> QED
    BY <1>11, <2>1, <2>2 DEF PaymentLink
<1>12. ASSUME NEW w \in Worker, SaveLink(w) PROVE CopyInv'
  BY <1>12 DEF SaveLink, ShopOK, WorkerOK, OrderOK, TroubleOK, KnowledgeInv,
      AloneInv, Knows, Holds, shop, payment, trouble
<1>13. ASSUME NEW w \in Worker, Fail(w) PROVE CopyInv'
  BY <1>13 DEF Fail, ShopOK, WorkerOK, OrderOK, TroubleOK, KnowledgeInv,
      AloneInv, Knows, Holds, shop, payment, trouble
<1>14. ASSUME NEW w \in Worker, NEW c \in Contact, Receive(w, c) PROVE CopyInv'
  BY <1>14 DEF Receive, Busy, Dispatch, ShopOK, WorkerOK, OrderOK, TroubleOK,
      KnowledgeInv, AloneInv, Knows, Holds, shop, payment, trouble
<1>15. ASSUME NEW c \in Contact, Expire(c) PROVE CopyInv'
  BY <1>15 DEF Expire, ShopOK, WorkerOK, OrderOK, TroubleOK, KnowledgeInv,
      AloneInv, Knows, Holds, shop, payment, trouble
<1>16. ASSUME NEW o \in Order, PayLink(o) PROVE CopyInv'
  BY <1>16 DEF PayLink, ShopOK, WorkerOK, OrderOK, TroubleOK, KnowledgeInv,
      AloneInv, Knows, Holds, shop, payment, trouble
<1>17. ASSUME NEW o \in Order, markAsPaid(o) PROVE CopyInv'
  BY <1>17 DEF markAsPaid, ShopOK, WorkerOK, OrderOK, TroubleOK, KnowledgeInv,
      AloneInv, Knows, Holds, shop, payment, trouble
<1> QED
  BY <1>1, <1>2, <1>3, <1>4, <1>5, <1>6, <1>7, <1>8, <1>9, <1>10, <1>11, <1>12,
      <1>13, <1>14, <1>15, <1>16, <1>17 DEF Next, Serve

LEMMA TotalsKept ==
  ASSUME ShopOK, WorkerOK, OrderOK, TroubleOK, KnowledgeInv, CopyInv, TotalsInv, Next
  PROVE  TotalsInv'
<1> USE CheckoutAssumption DEF At, Go, End, Whose, Idle, NoCart, Born,
    TotalsInv
<1>1. ASSUME NEW w \in Worker, CreateCart(w) PROVE TotalsInv'
  BY <1>1 DEF CreateCart, ShopOK, WorkerOK, OrderOK, TroubleOK, KnowledgeInv,
      CopyInv, Knows, Holds, shop, payment, trouble
<1>2. ASSUME NEW w \in Worker, Reset(w) PROVE TotalsInv'
  BY <1>2 DEF Reset, ShopOK, WorkerOK, OrderOK, TroubleOK, KnowledgeInv,
      CopyInv, Knows, Holds, shop, payment, trouble
<1>3. ASSUME NEW w \in Worker, Reply(w) PROVE TotalsInv'
  BY <1>3 DEF Reply, ShopOK, WorkerOK, OrderOK, TroubleOK, KnowledgeInv,
      CopyInv, Knows, Holds, shop, payment, trouble
<1>4. ASSUME NEW w \in Worker, NEW s \in {"product_selection", "quantity_selection"}, Select(w, s)
     PROVE  TotalsInv'
  BY <1>4 DEF Select, ShopOK, WorkerOK, OrderOK, TroubleOK, KnowledgeInv,
      CopyInv, Knows, Holds, shop, payment, trouble
<1>5. ASSUME NEW w \in Worker, NEW qty \in 1..MaxQty, Quantity(w, qty)
     PROVE  TotalsInv'
  BY <1>5 DEF Quantity, ShopOK, WorkerOK, OrderOK, TroubleOK, KnowledgeInv,
      CopyInv, Knows, Holds, shop, payment, trouble
<1>6. ASSUME NEW w \in Worker, Address(w) PROVE TotalsInv'
  BY <1>6 DEF Address, ShopOK, WorkerOK, OrderOK, TroubleOK, KnowledgeInv,
      CopyInv, Knows, Holds, shop, payment, trouble
<1>7. ASSUME NEW w \in Worker, NEW online \in BOOLEAN, Choose(w, online)
     PROVE  TotalsInv'
  BY <1>7 DEF Choose, ShopOK, WorkerOK, OrderOK, TroubleOK, KnowledgeInv,
      CopyInv, Knows, Holds, shop, payment, trouble
<1>8. ASSUME NEW w \in Worker, NEW o \in Order, createOrder(w, o)
     PROVE  TotalsInv'
  <2>1. Whose(w) \in Contact
    BY <1>8 DEF createOrder, KnowledgeInv, Knows, WorkerOK, WorkerRecord
  <2>2. Whose(w) \notin overlapped => worker[w].cart.total = worker[w].cart.items
    BY <1>8, <2>1 DEF createOrder, CopyInv
  <2>3. order'[o].contact = Whose(w) /\ order'[o].total = worker[w].cart.total
        /\ order'[o].items = worker[w].cart.items
        /\ \A x \in Order \ {o} : order'[x] = order[x]
    BY <1>8 DEF createOrder, NewOrder, OrderOK
  <2> QED
    BY <1>8, <2>1, <2>2, <2>3 DEF createOrder, trouble
<1>9. ASSUME NEW w \in Worker, Deduct(w) PROVE TotalsInv'
  BY <1>9 DEF Deduct, ShopOK, WorkerOK, OrderOK, TroubleOK, KnowledgeInv,
      CopyInv, Knows, Holds, shop, payment, trouble
<1>10. ASSUME NEW w \in Worker, Complete(w) PROVE TotalsInv'
  BY <1>10 DEF Complete, ShopOK, WorkerOK, OrderOK, TroubleOK, KnowledgeInv,
      CopyInv, Knows, Holds, shop, payment, trouble
<1>11. ASSUME NEW w \in Worker, PaymentLink(w) PROVE TotalsInv'
  BY <1>11 DEF PaymentLink, ShopOK, WorkerOK, OrderOK, TroubleOK, KnowledgeInv,
      CopyInv, Knows, Holds, shop, payment, trouble
<1>12. ASSUME NEW w \in Worker, SaveLink(w) PROVE TotalsInv'
  BY <1>12 DEF SaveLink, ShopOK, WorkerOK, OrderOK, TroubleOK, KnowledgeInv,
      CopyInv, Knows, Holds, shop, payment, trouble
<1>13. ASSUME NEW w \in Worker, Fail(w) PROVE TotalsInv'
  BY <1>13 DEF Fail, ShopOK, WorkerOK, OrderOK, TroubleOK, KnowledgeInv,
      CopyInv, Knows, Holds, shop, payment, trouble
<1>14. ASSUME NEW w \in Worker, NEW c \in Contact, Receive(w, c)
     PROVE  TotalsInv'
  BY <1>14 DEF Receive, Busy, Dispatch, ShopOK, WorkerOK, OrderOK, TroubleOK,
      KnowledgeInv, CopyInv, Knows, Holds, shop, payment, trouble
<1>15. ASSUME NEW c \in Contact, Expire(c) PROVE TotalsInv'
  BY <1>15 DEF Expire, ShopOK, WorkerOK, OrderOK, TroubleOK, KnowledgeInv,
      CopyInv, Knows, Holds, shop, payment, trouble
<1>16. ASSUME NEW o \in Order, PayLink(o) PROVE TotalsInv'
  BY <1>16 DEF PayLink, ShopOK, WorkerOK, OrderOK, TroubleOK, KnowledgeInv,
      CopyInv, Knows, Holds, shop, payment, trouble
<1>17. ASSUME NEW o \in Order, markAsPaid(o) PROVE TotalsInv'
  BY <1>17 DEF markAsPaid, ShopOK, WorkerOK, OrderOK, TroubleOK, KnowledgeInv,
      CopyInv, Knows, Holds, shop, payment, trouble
<1> QED
  BY <1>1, <1>2, <1>3, <1>4, <1>5, <1>6, <1>7, <1>8, <1>9, <1>10, <1>11, <1>12,
      <1>13, <1>14, <1>15, <1>16, <1>17 DEF Next, Serve

LEMMA OrdersKept ==
  ASSUME ShopOK, WorkerOK, OrderOK, TroubleOK, KnowledgeInv, AloneInv, OrderInv, Next
  PROVE  OrderInv'
<1> USE CheckoutAssumption DEF At, Go, End, Whose, Idle, NoCart, Born,
    OrderInv, Before
<1>1. ASSUME NEW w \in Worker, CreateCart(w) PROVE OrderInv'
  <2>1. CASE /\ worker' = [worker EXCEPT ![w].pc = "select", ![w].cart.state = "welcome"]
             /\ cart' = [cart EXCEPT ![Whose(w)].state = "welcome"]
    BY <1>1, <2>1 DEF CreateCart, ShopOK, WorkerOK, OrderOK, TroubleOK,
        KnowledgeInv, AloneInv, Knows, Holds, shop, payment, trouble
  <2>2. CASE End(w) /\ UNCHANGED cart
    BY <1>1, <2>2 DEF CreateCart, ShopOK, WorkerOK, OrderOK, TroubleOK,
        KnowledgeInv, AloneInv, Knows, Holds, shop, payment, trouble
  <2> QED
    BY <1>1, <2>1, <2>2 DEF CreateCart
<1>2. ASSUME NEW w \in Worker, Reset(w) PROVE OrderInv'
  BY <1>2 DEF Reset, ShopOK, WorkerOK, OrderOK, TroubleOK, KnowledgeInv,
      AloneInv, Knows, Holds, shop, payment, trouble
<1>3. ASSUME NEW w \in Worker, Reply(w) PROVE OrderInv'
  BY <1>3 DEF Reply, ShopOK, WorkerOK, OrderOK, TroubleOK, KnowledgeInv,
      AloneInv, Knows, Holds, shop, payment, trouble
<1>4. ASSUME NEW w \in Worker, NEW s \in {"product_selection", "quantity_selection"}, Select(w, s)
     PROVE  OrderInv'
  BY <1>4 DEF Select, ShopOK, WorkerOK, OrderOK, TroubleOK, KnowledgeInv,
      AloneInv, Knows, Holds, shop, payment, trouble
<1>5. ASSUME NEW w \in Worker, NEW qty \in 1..MaxQty, Quantity(w, qty)
     PROVE  OrderInv'
  BY <1>5 DEF Quantity, ShopOK, WorkerOK, OrderOK, TroubleOK, KnowledgeInv,
      AloneInv, Knows, Holds, shop, payment, trouble
<1>6. ASSUME NEW w \in Worker, Address(w) PROVE OrderInv'
  BY <1>6 DEF Address, ShopOK, WorkerOK, OrderOK, TroubleOK, KnowledgeInv,
      AloneInv, Knows, Holds, shop, payment, trouble
<1>7. ASSUME NEW w \in Worker, NEW online \in BOOLEAN, Choose(w, online)
     PROVE  OrderInv'
  BY <1>7 DEF Choose, ShopOK, WorkerOK, OrderOK, TroubleOK, KnowledgeInv,
      AloneInv, Knows, Holds, shop, payment, trouble
<1>8. ASSUME NEW w \in Worker, NEW o \in Order, createOrder(w, o)
     PROVE  OrderInv'
  BY <1>8 DEF createOrder, NewOrder, ShopOK, WorkerOK, OrderOK, TroubleOK,
      KnowledgeInv, AloneInv, Knows, Holds, shop, payment, trouble
<1>9. ASSUME NEW w \in Worker, Deduct(w) PROVE OrderInv'
  BY <1>9 DEF Deduct, ShopOK, WorkerOK, OrderOK, TroubleOK, KnowledgeInv,
      AloneInv, Knows, Holds, shop, payment, trouble
<1>10. ASSUME NEW w \in Worker, Complete(w) PROVE OrderInv'
  <2>1. CASE Go(w, "pay")
    BY <1>10, <2>1 DEF Complete, ShopOK, WorkerOK, OrderOK, TroubleOK,
        KnowledgeInv, AloneInv, Knows, Holds, shop, payment, trouble
  <2>2. CASE End(w)
    BY <1>10, <2>2 DEF Complete, ShopOK, WorkerOK, OrderOK, TroubleOK,
        KnowledgeInv, AloneInv, Knows, Holds, shop, payment, trouble
  <2> QED
    BY <1>10, <2>1, <2>2 DEF Complete
<1>11. ASSUME NEW w \in Worker, PaymentLink(w) PROVE OrderInv'
  <2>1. CASE /\ links' = links \cup {worker[w].order}
             /\ worker' = [worker EXCEPT ![w].pc = "link",
                              ![w].status = order[worker[w].order].status]
    BY <1>11, <2>1 DEF PaymentLink, ShopOK, WorkerOK, OrderOK, TroubleOK,
        KnowledgeInv, AloneInv, Knows, Holds, shop, payment, trouble
  <2>2. CASE End(w) /\ UNCHANGED links
    BY <1>11, <2>2 DEF PaymentLink, ShopOK, WorkerOK, OrderOK, TroubleOK,
        KnowledgeInv, AloneInv, Knows, Holds, shop, payment, trouble
  <2> QED
    BY <1>11, <2>1, <2>2 DEF PaymentLink
<1>12. ASSUME NEW w \in Worker, SaveLink(w) PROVE OrderInv'
  BY <1>12 DEF SaveLink, ShopOK, WorkerOK, OrderOK, TroubleOK, KnowledgeInv,
      AloneInv, Knows, Holds, shop, payment, trouble
<1>13. ASSUME NEW w \in Worker, Fail(w) PROVE OrderInv'
  BY <1>13 DEF Fail, ShopOK, WorkerOK, OrderOK, TroubleOK, KnowledgeInv,
      AloneInv, Knows, Holds, shop, payment, trouble
<1>14. ASSUME NEW w \in Worker, NEW c \in Contact, Receive(w, c)
     PROVE  OrderInv'
  BY <1>14 DEF Receive, Busy, Dispatch, ShopOK, WorkerOK, OrderOK, TroubleOK,
      KnowledgeInv, AloneInv, Knows, Holds, shop, payment, trouble
<1>15. ASSUME NEW c \in Contact, Expire(c) PROVE OrderInv'
  BY <1>15 DEF Expire, ShopOK, WorkerOK, OrderOK, TroubleOK, KnowledgeInv,
      AloneInv, Knows, Holds, shop, payment, trouble
<1>16. ASSUME NEW o \in Order, PayLink(o) PROVE OrderInv'
  BY <1>16 DEF PayLink, ShopOK, WorkerOK, OrderOK, TroubleOK, KnowledgeInv,
      AloneInv, Knows, Holds, shop, payment, trouble
<1>17. ASSUME NEW o \in Order, markAsPaid(o) PROVE OrderInv'
  BY <1>17 DEF markAsPaid, ShopOK, WorkerOK, OrderOK, TroubleOK, KnowledgeInv,
      AloneInv, Knows, Holds, shop, payment, trouble
<1> QED
  BY <1>1, <1>2, <1>3, <1>4, <1>5, <1>6, <1>7, <1>8, <1>9, <1>10, <1>11, <1>12,
      <1>13, <1>14, <1>15, <1>16, <1>17 DEF Next, Serve

LEMMA CompletedKept ==
  ASSUME ShopOK, WorkerOK, OrderOK, TroubleOK, KnowledgeInv, CompletedInv, Next
  PROVE  CompletedInv'
<1> USE CheckoutAssumption DEF At, Go, End, Whose, Idle, NoCart, Born,
    CompletedInv
<1>1. ASSUME NEW w \in Worker, CreateCart(w) PROVE CompletedInv'
  <2>1. CASE /\ worker' = [worker EXCEPT ![w].pc = "select", ![w].cart.state = "welcome"]
             /\ cart' = [cart EXCEPT ![Whose(w)].state = "welcome"]
    BY <1>1, <2>1 DEF CreateCart, ShopOK, WorkerOK, OrderOK, TroubleOK,
        KnowledgeInv, Knows, Holds, shop, payment, trouble
  <2>2. CASE End(w) /\ UNCHANGED cart
    BY <1>1, <2>2 DEF CreateCart, ShopOK, WorkerOK, OrderOK, TroubleOK,
        KnowledgeInv, Knows, Holds, shop, payment, trouble
  <2> QED
    BY <1>1, <2>1, <2>2 DEF CreateCart
<1>2. ASSUME NEW w \in Worker, Reset(w) PROVE CompletedInv'
  BY <1>2 DEF Reset, ShopOK, WorkerOK, OrderOK, TroubleOK, KnowledgeInv, Knows,
      Holds, shop, payment, trouble
<1>3. ASSUME NEW w \in Worker, Reply(w) PROVE CompletedInv'
  BY <1>3 DEF Reply, ShopOK, WorkerOK, OrderOK, TroubleOK, KnowledgeInv, Knows,
      Holds, shop, payment, trouble
<1>4. ASSUME NEW w \in Worker, NEW s \in {"product_selection", "quantity_selection"}, Select(w, s)
     PROVE  CompletedInv'
  BY <1>4 DEF Select, ShopOK, WorkerOK, OrderOK, TroubleOK, KnowledgeInv,
      Knows, Holds, shop, payment, trouble
<1>5. ASSUME NEW w \in Worker, NEW qty \in 1..MaxQty, Quantity(w, qty)
     PROVE  CompletedInv'
  BY <1>5 DEF Quantity, ShopOK, WorkerOK, OrderOK, TroubleOK, KnowledgeInv,
      Knows, Holds, shop, payment, trouble
<1>6. ASSUME NEW w \in Worker, Address(w) PROVE CompletedInv'
  BY <1>6 DEF Address, ShopOK, WorkerOK, OrderOK, TroubleOK, KnowledgeInv,
      Knows, Holds, shop, payment, trouble
<1>7. ASSUME NEW w \in Worker, NEW online \in BOOLEAN, Choose(w, online)
     PROVE  CompletedInv'
  BY <1>7 DEF Choose, ShopOK, WorkerOK, OrderOK, TroubleOK, KnowledgeInv,
      Knows, Holds, shop, payment, trouble
<1>8. ASSUME NEW w \in Worker, NEW o \in Order, createOrder(w, o)
     PROVE  CompletedInv'
  BY <1>8 DEF createOrder, NewOrder, ShopOK, WorkerOK, OrderOK, TroubleOK,
      KnowledgeInv, Knows, Holds, shop, payment, trouble
<1>9. ASSUME NEW w \in Worker, Deduct(w) PROVE CompletedInv'
  BY <1>9 DEF Deduct, ShopOK, WorkerOK, OrderOK, TroubleOK, KnowledgeInv,
      Knows, Holds, shop, payment, trouble
<1>10. ASSUME NEW w \in Worker, Complete(w) PROVE CompletedInv'
  BY <1>10 DEF Complete, ShopOK, WorkerOK, OrderOK, TroubleOK, KnowledgeInv,
      Knows, Holds, shop, payment, trouble
<1>11. ASSUME NEW w \in Worker, PaymentLink(w) PROVE CompletedInv'
  BY <1>11 DEF PaymentLink, ShopOK, WorkerOK, OrderOK, TroubleOK, KnowledgeInv,
      Knows, Holds, shop, payment, trouble
<1>12. ASSUME NEW w \in Worker, SaveLink(w) PROVE CompletedInv'
  BY <1>12 DEF SaveLink, ShopOK, WorkerOK, OrderOK, TroubleOK, KnowledgeInv,
      Knows, Holds, shop, payment, trouble
<1>13. ASSUME NEW w \in Worker, Fail(w) PROVE CompletedInv'
  BY <1>13 DEF Fail, ShopOK, WorkerOK, OrderOK, TroubleOK, KnowledgeInv, Knows,
      Holds, shop, payment, trouble
<1>14. ASSUME NEW w \in Worker, NEW c \in Contact, Receive(w, c)
     PROVE  CompletedInv'
  BY <1>14 DEF Receive, Busy, Dispatch, ShopOK, WorkerOK, OrderOK, TroubleOK,
      KnowledgeInv, Knows, Holds, shop, payment, trouble
<1>15. ASSUME NEW c \in Contact, Expire(c) PROVE CompletedInv'
  BY <1>15 DEF Expire, ShopOK, WorkerOK, OrderOK, TroubleOK, KnowledgeInv,
      Knows, Holds, shop, payment, trouble
<1>16. ASSUME NEW o \in Order, PayLink(o) PROVE CompletedInv'
  BY <1>16 DEF PayLink, ShopOK, WorkerOK, OrderOK, TroubleOK, KnowledgeInv,
      Knows, Holds, shop, payment, trouble
<1>17. ASSUME NEW o \in Order, markAsPaid(o) PROVE CompletedInv'
  BY <1>17 DEF markAsPaid, ShopOK, WorkerOK, OrderOK, TroubleOK, KnowledgeInv,
      Knows, Holds, shop, payment, trouble
<1> QED
  BY <1>1, <1>2, <1>3, <1>4, <1>5, <1>6, <1>7, <1>8, <1>9, <1>10, <1>11, <1>12,
      <1>13, <1>14, <1>15, <1>16, <1>17 DEF Next, Serve

LEMMA PaidKept ==
  ASSUME ShopOK, WorkerOK, OrderOK, TroubleOK, KnowledgeInv, PaidIsConfirmed, Next
  PROVE  PaidIsConfirmed'
<1> USE CheckoutAssumption DEF At, Go, End, Whose, Idle, NoCart, Born,
    PaidIsConfirmed
<1>1. ASSUME NEW w \in Worker, CreateCart(w) PROVE PaidIsConfirmed'
  BY <1>1 DEF CreateCart, ShopOK, WorkerOK, OrderOK, TroubleOK, KnowledgeInv,
      Knows, Holds, shop, payment, trouble
<1>2. ASSUME NEW w \in Worker, Reset(w) PROVE PaidIsConfirmed'
  BY <1>2 DEF Reset, ShopOK, WorkerOK, OrderOK, TroubleOK, KnowledgeInv, Knows,
      Holds, shop, payment, trouble
<1>3. ASSUME NEW w \in Worker, Reply(w) PROVE PaidIsConfirmed'
  BY <1>3 DEF Reply, ShopOK, WorkerOK, OrderOK, TroubleOK, KnowledgeInv, Knows,
      Holds, shop, payment, trouble
<1>4. ASSUME NEW w \in Worker, NEW s \in {"product_selection", "quantity_selection"}, Select(w, s)
     PROVE  PaidIsConfirmed'
  BY <1>4 DEF Select, ShopOK, WorkerOK, OrderOK, TroubleOK, KnowledgeInv,
      Knows, Holds, shop, payment, trouble
<1>5. ASSUME NEW w \in Worker, NEW qty \in 1..MaxQty, Quantity(w, qty)
     PROVE  PaidIsConfirmed'
  BY <1>5 DEF Quantity, ShopOK, WorkerOK, OrderOK, TroubleOK, KnowledgeInv,
      Knows, Holds, shop, payment, trouble
<1>6. ASSUME NEW w \in Worker, Address(w) PROVE PaidIsConfirmed'
  BY <1>6 DEF Address, ShopOK, WorkerOK, OrderOK, TroubleOK, KnowledgeInv,
      Knows, Holds, shop, payment, trouble
<1>7. ASSUME NEW w \in Worker, NEW online \in BOOLEAN, Choose(w, online)
     PROVE  PaidIsConfirmed'
  BY <1>7 DEF Choose, ShopOK, WorkerOK, OrderOK, TroubleOK, KnowledgeInv,
      Knows, Holds, shop, payment, trouble
<1>8. ASSUME NEW w \in Worker, NEW o \in Order, createOrder(w, o)
     PROVE  PaidIsConfirmed'
  BY <1>8 DEF createOrder, NewOrder, ShopOK, WorkerOK, OrderOK, TroubleOK,
      KnowledgeInv, Knows, Holds, shop, payment, trouble
<1>9. ASSUME NEW w \in Worker, Deduct(w) PROVE PaidIsConfirmed'
  BY <1>9 DEF Deduct, ShopOK, WorkerOK, OrderOK, TroubleOK, KnowledgeInv,
      Knows, Holds, shop, payment, trouble
<1>10. ASSUME NEW w \in Worker, Complete(w) PROVE PaidIsConfirmed'
  BY <1>10 DEF Complete, ShopOK, WorkerOK, OrderOK, TroubleOK, KnowledgeInv,
      Knows, Holds, shop, payment, trouble
<1>11. ASSUME NEW w \in Worker, PaymentLink(w) PROVE PaidIsConfirmed'
  BY <1>11 DEF PaymentLink, ShopOK, WorkerOK, OrderOK, TroubleOK, KnowledgeInv,
      Knows, Holds, shop, payment, trouble
<1>12. ASSUME NEW w \in Worker, SaveLink(w) PROVE PaidIsConfirmed'
  BY <1>12 DEF SaveLink, ShopOK, WorkerOK, OrderOK, TroubleOK, KnowledgeInv,
      Knows, Holds, shop, payment, trouble
<1>13. ASSUME NEW w \in Worker, Fail(w) PROVE PaidIsConfirmed'
  BY <1>13 DEF Fail, ShopOK, WorkerOK, OrderOK, TroubleOK, KnowledgeInv, Knows,
      Holds, shop, payment, trouble
<1>14. ASSUME NEW w \in Worker, NEW c \in Contact, Receive(w, c)
     PROVE  PaidIsConfirmed'
  BY <1>14 DEF Receive, Busy, Dispatch, ShopOK, WorkerOK, OrderOK, TroubleOK,
      KnowledgeInv, Knows, Holds, shop, payment, trouble
<1>15. ASSUME NEW c \in Contact, Expire(c) PROVE PaidIsConfirmed'
  BY <1>15 DEF Expire, ShopOK, WorkerOK, OrderOK, TroubleOK, KnowledgeInv,
      Knows, Holds, shop, payment, trouble
<1>16. ASSUME NEW o \in Order, PayLink(o) PROVE PaidIsConfirmed'
  BY <1>16 DEF PayLink, ShopOK, WorkerOK, OrderOK, TroubleOK, KnowledgeInv,
      Knows, Holds, shop, payment, trouble
<1>17. ASSUME NEW o \in Order, markAsPaid(o) PROVE PaidIsConfirmed'
  <2>1. order[o] \in OrderDoc
    BY DEF OrderOK
  <2>2. order'[o].payment = "completed" /\ o \notin early => order'[o].status = "confirmed"
    BY <1>17, <2>1 DEF markAsPaid, OrderOK, OrderDoc, OrderStatus, KnowledgeInv, Knows, Born
  <2>3. \A x \in Order \ {o} : order'[x] = order[x]
    BY <1>17 DEF markAsPaid, OrderOK
  <2> QED
    BY <1>17, <2>2, <2>3 DEF markAsPaid, payment, trouble
<1> QED
  BY <1>1, <1>2, <1>3, <1>4, <1>5, <1>6, <1>7, <1>8, <1>9, <1>10, <1>11, <1>12,
      <1>13, <1>14, <1>15, <1>16, <1>17 DEF Next, Serve

LEMMA Stuttering == ASSUME Inv, UNCHANGED vars PROVE Inv'
BY DEF Inv, Shape, ShopOK, WorkerOK, OrderOK, TroubleOK, KnowledgeInv, Knows,
       Holds, AloneInv, CopyInv, TotalsInv, OrderInv, Before, CompletedInv,
       PaidIsConfirmed, Born, At, Whose, vars, shop, payment, trouble

LEMMA NextInv == ASSUME Inv, [Next]_vars PROVE Inv'
<1>1. CASE Next
  BY <1>1, ShopKept, WorkerKept, OrderKept, TroubleKept, KnowledgeKept,
     AloneKept, CopyKept, TotalsKept, OrdersKept, CompletedKept, PaidKept
     DEF Inv, Shape
<1>2. CASE UNCHANGED vars
  BY <1>2, Stuttering
<1> QED
  BY <1>1, <1>2

LEMMA InvAlways == Spec => []Inv
<1> QED
  BY InitInv, NextInv, PTL DEF Spec

-----------------------------------------------------------------------------
(* What follows from it.                                                   *)

\* Every reachable state has its type.
THEOREM TypeCorrect == Spec => []TypeOK
<1>1. Inv => TypeOK
  BY DEF Inv, Shape, ShopOK, WorkerOK, WorkerRecord, OrderOK, TroubleOK, Born,
         TypeOK
<1> QED
  BY <1>1, InvAlways, PTL

\* A cart becomes one order if its messages came one at a time and none failed.
THEOREM OneOrderPerCart == Spec => []OneOrder
<1>1. Inv => OneOrder
  BY DEF Inv, OrderInv, OneOrder, OrdersOf
<1> QED
  BY <1>1, InvAlways, PTL

\* An order costs what is in it unless two messages were counted at once, also
\* after faults and when the cart was reset.
THEOREM OrdersCostTheirContents == Spec => []ChargedForContents
<1>1. Inv => ChargedForContents
  BY DEF Inv, Shape, OrderOK, OrderDoc, TotalsInv, KnowledgeInv, Knows,
         ChargedForContents, Born
<1> QED
  BY <1>1, InvAlways, PTL

\* A cart is completed if and only if it was ordered, apart from failed and
\* overlapping messages for the second half.
THEOREM OrdersCloseCarts == Spec => []OrderClosesCart
<1>1. ASSUME Inv, NEW c \in Contact, cart[c].state = "order_completed"
      PROVE  OrdersOf(c) # {}
  BY <1>1 DEF Inv, CompletedInv, OrdersOf
<1>2. ASSUME Inv, NEW c \in Contact \ (overlapped \cup spoiled),
             OrdersOf(c) # {}, ~Busy(c)
      PROVE  cart[c].state = "order_completed"
  <2>1. PICK o \in Born : order[o].contact = c
    BY <1>2 DEF OrdersOf
  <2>2. \A w \in Worker : worker[w].contact # c
    BY <1>2 DEF Busy
  <2> QED
    BY <1>2, <2>1, <2>2 DEF Inv, OrderInv
<1>3. Inv => OrderClosesCart
  BY <1>1, <1>2 DEF OrderClosesCart
<1> QED
  BY <1>3, InvAlways, PTL

\* Only paid orders count as paid, and those stay confirmed unless they were paid
\* before their link was saved.
THEOREM PaidOrdersAreConfirmed == Spec => []PaidIsConfirmed
<1>1. Inv => PaidIsConfirmed
  BY DEF Inv
<1> QED
  BY <1>1, InvAlways, PTL

LEMMA NextKeepsPayment ==
  ASSUME Inv, [Next]_vars, NEW x \in Order, order[x].payment = "completed"
  PROVE  order'[x].payment = "completed"
<1> USE DEF Inv, Shape, OrderOK, OrderDoc
<1>1. x \in Born
  BY DEF KnowledgeInv, PaidIsConfirmed, Born
<1>2. ASSUME NEW w \in Worker, NEW o \in Order, createOrder(w, o)
      PROVE  order'[x].payment = "completed"
  BY <1>1, <1>2 DEF createOrder
<1>3. ASSUME NEW w \in Worker, SaveLink(w)
      PROVE  order'[x].payment = "completed"
  BY <1>3 DEF SaveLink
<1>4. ASSUME NEW o \in Order, markAsPaid(o)
      PROVE  order'[x].payment = "completed"
  BY <1>4 DEF markAsPaid
<1>5. \/ order' = order
      \/ \E w \in Worker : SaveLink(w) \/ \E o \in Order : createOrder(w, o)
      \/ \E o \in Order : markAsPaid(o)
  BY DEF Next, Serve, CreateCart, Reset, Reply, Select, Quantity, Address,
     Choose, Deduct, Complete, PaymentLink, Fail, Receive, Expire, PayLink, vars
<1> QED
  BY <1>2, <1>3, <1>4, <1>5

\* No step takes a completed payment back.
THEOREM PaymentIsKept == Spec => PaidStaysPaid
<1>1. Inv /\ [Next]_vars =>
        [\A o \in Order : order[o].payment = "completed"
                          => order'[o].payment = "completed"]_vars
  BY NextKeepsPayment
<1> QED
  BY <1>1, InvAlways, PTL DEF Spec, PaidStaysPaid

-----------------------------------------------------------------------------
(* The stock.                                                              *)

\* The orders whose goods were taken, or will not be.
Taken == Born \ NotTaken

\* A request that is about to take the goods takes what it ordered.
StockInv ==
  /\ IsFiniteSet(Born)
  /\ \A w \in Worker :
       At(w, "deduct") => worker[w].cart.items = order[worker[w].order].items
  /\ StockIsAccounted

LEMMA InitStock == Init => StockInv
<1> SUFFICES ASSUME Init PROVE StockInv
  OBVIOUS
<1>1. Born = {} /\ Born \ NotTaken = {} /\ \A w \in Worker : ~At(w, "deduct")
  BY DEF Init, Born, Unborn, At, Idle
<1>2. Pieces(Born \ NotTaken) = 0
  BY <1>1, SumEmpty DEF Pieces
<1>3. stock = Stock /\ Stock \in Nat
  BY CheckoutAssumption DEF Init
<1>4. StockIsAccounted
  BY <1>2, <1>3 DEF StockIsAccounted
<1> QED
  BY <1>1, <1>4, FS_EmptySet DEF StockInv

\* What is in an order is a natural number, and so is what is in some of them.
LEMMA PiecesAreInt ==
  ASSUME Inv, StockInv, NEW S \in SUBSET Born
  PROVE  /\ IsFiniteSet(S) /\ Pieces(S) \in Int
         /\ \A o \in Order : order[o].items \in Nat
<1>1. IsFiniteSet(S)
  BY FS_Subset DEF StockInv
<1>2. \A o \in Order : order[o].items \in Nat
  BY DEF Inv, Shape, OrderOK, OrderDoc
<1>3. \A o \in S : [p \in Order |-> order[p].items][o] \in Int
  BY <1>2 DEF Born
<1> QED
  BY <1>1, <1>2, <1>3, SumInt DEF Pieces

\* Nothing happens to the account while the same goods are taken.
LEMMA SameAccount ==
  ASSUME Inv, StockInv, Taken' = Taken, stock' = stock, spoiled \subseteq spoiled',
         \A o \in Taken : order'[o].items = order[o].items
  PROVE  StockIsAccounted'
<1> DEFINE f == [p \in Order |-> order[p].items]
           g == [p \in Order |-> order'[p].items]
<1>1. IsFiniteSet(Taken) /\ Taken \subseteq Order
  BY PiecesAreInt DEF Taken, Born
<1>2. \A o \in Taken : f[o] = g[o]
  BY <1>1
<1> HIDE DEF f, g
<1>3. SumFunctionOnSet(f, Taken) = SumFunctionOnSet(g, Taken)
  BY <1>1, <1>2, SumSame
<1>4. Pieces(Taken)' = Pieces(Taken)
  BY <1>3, Zenon DEF Pieces, f, g
<1> QED
  BY <1>4 DEF StockInv, StockIsAccounted, Taken

\* One order more is taken, or given up.
LEMMA OneMoreTaken ==
  ASSUME Inv, StockInv, NEW o \in Born, o \notin Taken, Taken' = Taken \cup {o},
         UNCHANGED order
  PROVE  Pieces(Taken)' = Pieces(Taken) + order[o].items
<1> DEFINE f == [p \in Order |-> order[p].items]
<1>1. IsFiniteSet(Taken) /\ Taken \subseteq Order /\ o \in Order
  BY PiecesAreInt DEF Taken, Born
<1>2. \A p \in Taken \cup {o} : f[p] \in Int
  BY <1>1, PiecesAreInt
<1>3. f[o] = order[o].items
  BY <1>1
<1> HIDE DEF f
<1>4. SumFunctionOnSet(f, Taken \cup {o}) = SumFunctionOnSet(f, Taken) + f[o]
  BY <1>1, <1>2, SumAdd
<1> QED
  BY <1>3, <1>4 DEF f, Pieces

\* Steps that neither make an order nor take its goods.
LEMMA QuietStep ==
  ASSUME Inv, StockInv, NEW w \in Worker, worker' \in [Worker -> WorkerRecord],
         \A v \in Worker \ {w} : worker'[v] = worker[v],
         worker'[w] = worker[w] \/ (~At(w, "deduct") /\ ~At(w, "deduct")'),
         order' \in [Order -> OrderDoc], Born' = Born,
         \A o \in Born : order'[o].items = order[o].items,
         stock' = stock, spoiled \subseteq spoiled'
  PROVE  StockInv'
<1>1. Taken' = Taken /\ \A o \in Taken : order'[o].items = order[o].items
  BY DEF Taken, NotTaken, At
<1>2. \A v \in Worker : At(v, "deduct") => worker[v].order \in Born
  BY DEF At, Inv, KnowledgeInv, Knows, Holds
<1>3. \A v \in Worker : At(v, "deduct")' =>
        worker'[v].cart.items = order'[worker'[v].order].items
  BY <1>2 DEF StockInv, At
<1> QED
  BY <1>1, <1>3, SameAccount DEF StockInv

\* All a request does but make the order, take its goods, save its link, or die.
Talks(w) ==
  \/ CreateCart(w) \/ Reset(w) \/ Reply(w) \/ Address(w)
  \/ \E s \in {"product_selection", "quantity_selection"} : Select(w, s)
  \/ \E qty \in 1..MaxQty : Quantity(w, qty)
  \/ \E online \in BOOLEAN : Choose(w, online)
  \/ Complete(w) \/ PaymentLink(w)
  \/ \E c \in Contact : Receive(w, c)

\* Seen from the stock and the orders, nothing happens.
Quiet(w) ==
  /\ UNCHANGED <<order, stock, paid, spoiled>>
  /\ \A v \in Worker \ {w} : worker'[v] = worker[v]
  /\ worker[w].pc # "deduct" /\ worker'[w].pc # "deduct"

LEMMA TalkIsQuiet ==
  ASSUME worker \in [Worker -> WorkerRecord], NEW w \in Worker, Talks(w)
  PROVE  Quiet(w)
<1> USE DEF At, Go, End, Whose, Idle, shop, payment, trouble
<1>1. worker[w] \in WorkerRecord
  OBVIOUS
<1>2. ASSUME CreateCart(w) PROVE Quiet(w)
  BY <1>1, <1>2 DEF CreateCart, Quiet, WorkerRecord
<1>3. ASSUME Reset(w) PROVE Quiet(w)
  BY <1>1, <1>3 DEF Reset, Quiet, WorkerRecord
<1>4. ASSUME Reply(w) PROVE Quiet(w)
  BY <1>4 DEF Reply, Quiet
<1>5. ASSUME Address(w) PROVE Quiet(w)
  BY <1>5 DEF Address, Quiet
<1>6. ASSUME NEW s \in {"product_selection", "quantity_selection"}, Select(w, s)
      PROVE  Quiet(w)
  BY <1>6 DEF Select, Quiet
<1>7. ASSUME NEW qty \in 1..MaxQty, Quantity(w, qty) PROVE Quiet(w)
  BY <1>7 DEF Quantity, Quiet
<1>8. ASSUME NEW online \in BOOLEAN, Choose(w, online) PROVE Quiet(w)
  BY <1>1, <1>8 DEF Choose, Quiet, WorkerRecord
<1>9. ASSUME Complete(w) PROVE Quiet(w)
  BY <1>1, <1>9 DEF Complete, Quiet, WorkerRecord
<1>10. ASSUME PaymentLink(w) PROVE Quiet(w)
  BY <1>1, <1>10 DEF PaymentLink, Quiet, WorkerRecord
<1>11. ASSUME NEW c \in Contact, Receive(w, c) PROVE Quiet(w)
  <2>1. Dispatch(cart[c].state) # "deduct"
    BY DEF Dispatch
  <2>2. worker'[w].pc \in {"create", "reset", Dispatch(cart[c].state)}
    BY <1>11 DEF Receive
  <2>3. worker[w].pc = "idle" /\ \A v \in Worker \ {w} : worker'[v] = worker[v]
    BY <1>11 DEF Receive
  <2> QED
    BY <1>11, <2>1, <2>2, <2>3 DEF Receive, Quiet
<1> QED
  BY <1>2, <1>3, <1>4, <1>5, <1>6, <1>7, <1>8, <1>9, <1>10, <1>11 DEF Talks

LEMMA CreateTakesNone ==
  ASSUME Inv, NEW w \in Worker, NEW o \in Order, createOrder(w, o)
  PROVE  Born' = Born \cup {o} /\ o \notin Born /\ Taken' = Taken
<1> USE DEF Inv, Shape, WorkerOK, OrderOK, At
<1>1. Born' = Born \cup {o} /\ o \notin Born
  BY DEF createOrder, NewOrder, Born, OrderDoc, OrderStatus
<1>2. NotTaken' = NotTaken \cup {o}
  BY DEF createOrder, NotTaken, WorkerRecord
<1> QED
  BY <1>1, <1>2 DEF Taken

\* No other request is about to take the same goods.
LEMMA OneTakes ==
  ASSUME Inv, NEW w \in Worker, At(w, "deduct"), Deduct(w) \/ Fail(w)
  PROVE  /\ worker[w].order \in Born \ Taken
         /\ UNCHANGED <<order, paid>> /\ Taken' = Taken \cup {worker[w].order}
<1> USE DEF Inv, Shape, WorkerOK, At, Go, End, Idle
<1>1. worker[w].order \in Born \ Taken
  BY DEF Taken, NotTaken, KnowledgeInv, Knows, Holds
<1>2. \A v \in Worker \ {w} : worker[v].pc = "deduct" => worker[v].order # worker[w].order
  BY DEF KnowledgeInv, Holds
<1>3. worker'[w].pc # "deduct" /\ \A v \in Worker \ {w} : worker'[v] = worker[v]
  BY DEF Deduct, Fail, WorkerRecord
<1>4. NotTaken' = NotTaken \ {worker[w].order}
  BY <1>2, <1>3 DEF NotTaken
<1>5. UNCHANGED <<order, paid>> /\ Born' = Born
  BY DEF Deduct, Fail, payment, Born
<1> QED
  BY <1>1, <1>4, <1>5 DEF Taken

LEMMA NextStock == ASSUME Inv, StockInv, [Next]_vars PROVE StockInv'
<1> USE CheckoutAssumption DEF At, Go, End, Whose, Idle
<1>a. /\ worker \in [Worker -> WorkerRecord] /\ order \in [Order -> OrderDoc]
      /\ worker' \in [Worker -> WorkerRecord] /\ order' \in [Order -> OrderDoc]
      /\ \A w \in Worker : Knows(w)
  BY NextInv DEF Inv, Shape, WorkerOK, OrderOK, KnowledgeInv
<1>1. ASSUME NEW w \in Worker, Talks(w)
      PROVE  StockInv'
  BY <1>a, <1>1, TalkIsQuiet, QuietStep DEF Born, Quiet
<1>2. ASSUME NEW w \in Worker, SaveLink(w)
      PROVE  StockInv'
  <2>1. worker[w].order \in Born
    BY <1>2, <1>a DEF SaveLink, Knows, Holds
  <2>2. Born' = Born /\ \A o \in Born : order'[o].items = order[o].items
    BY <1>2, <1>a, <2>1 DEF SaveLink, Born
  <2> QED
    BY <1>2, <1>a, <2>2, QuietStep DEF SaveLink, shop, trouble, WorkerRecord
<1>3. ASSUME NEW o \in Order, markAsPaid(o)
      PROVE  StockInv'
  <2>1. o \in Born
    BY <1>3 DEF markAsPaid, Inv, Shape, OrderOK
  <2>2. Born' = Born /\ \A p \in Born : order'[p].items = order[p].items
    BY <1>3, <1>a, <2>1 DEF markAsPaid, Born
  <2>3. Taken' = Taken /\ UNCHANGED <<worker, stock, spoiled>>
    BY <1>3, <2>2 DEF markAsPaid, Taken, NotTaken, shop, trouble
  <2>4. StockIsAccounted'
    BY <2>2, <2>3, SameAccount DEF Taken
  <2> QED
    BY <1>a, <2>2, <2>3, <2>4 DEF StockInv, Knows, Holds
<1>4. ASSUME NEW w \in Worker, NEW o \in Order, createOrder(w, o)
      PROVE  StockInv'
  <2>1. Born' = Born \cup {o} /\ o \notin Born
    BY <1>4, CreateTakesNone
  <2>3. Taken' = Taken
    BY <1>4, CreateTakesNone
  <2>4. \A p \in Born : order'[p] = order[p]
    BY <1>4, <1>a, <2>1 DEF createOrder, Born
  <2>5. StockIsAccounted'
    BY <1>4, <2>3, <2>4, SameAccount DEF createOrder, Taken, shop, trouble
  <2>6. IsFiniteSet(Born')
    BY <2>1, FS_AddElement DEF StockInv
  <2>7. ASSUME NEW v \in Worker, worker'[v].pc = "deduct"
        PROVE  worker'[v].cart.items = order'[worker'[v].order].items
    <3>1. CASE v = w
      BY <1>4, <1>a, <3>1 DEF createOrder, NewOrder, WorkerRecord
    <3>2. CASE v # w
      BY <1>4, <1>a, <2>4, <2>7, <3>2 DEF createOrder, StockInv, Knows, Holds
    <3> QED
      BY <3>1, <3>2
  <2> QED
    BY <2>5, <2>6, <2>7 DEF StockInv
<1>5. ASSUME NEW w \in Worker, Deduct(w)
      PROVE  StockInv'
  <2> DEFINE o == worker[w].order
  <2>1. o \in Born /\ o \notin Taken /\ worker[w].cart.items = order[o].items
    BY <1>5, OneTakes DEF Deduct, StockInv
  <2>3. UNCHANGED order /\ Born' = Born /\ Taken' = Taken \cup {o}
    BY <1>5, OneTakes DEF Deduct, Born
  <2>4. Pieces(Taken)' = Pieces(Taken) + order[o].items
    BY <2>1, <2>3, OneMoreTaken
  <2>5. /\ Pieces(Taken) \in Int /\ order[o].items \in Nat
        /\ stock \in Int /\ Stock \in Int
    BY <2>1, PiecesAreInt DEF Taken, Born, Inv, Shape, ShopOK
  <2>6. stock' = stock - order[o].items /\ UNCHANGED spoiled
    BY <1>5, <2>1 DEF Deduct, trouble
  <2>7. StockIsAccounted'
    BY <2>4, <2>5, <2>6 DEF StockIsAccounted, StockInv, Taken
  <2>8. \A v \in Worker : worker'[v].pc = "deduct" => worker'[v] = worker[v]
    BY <1>5, <1>a DEF Deduct, WorkerRecord
  <2> QED
    BY <1>a, <2>3, <2>7, <2>8 DEF StockInv, Knows, Holds
<1>6. ASSUME NEW w \in Worker, Fail(w)
      PROVE  StockInv'
  <2> DEFINE o == worker[w].order
  <2>1. /\ UNCHANGED <<order, stock>> /\ Born' = Born
        /\ \A v \in Worker \ {w} : worker'[v] = worker[v]
        /\ worker'[w].pc # "deduct" /\ spoiled' # {} /\ spoiled \subseteq spoiled'
    BY <1>6, <1>a DEF Fail, shop, Born
  <2>2. CASE worker[w].pc # "deduct"
    BY <1>a, <2>1, <2>2, QuietStep
  <2>3. CASE worker[w].pc = "deduct"
    <3>1. o \in Born /\ o \notin Taken
      BY <1>6, <2>3, OneTakes
    <3>3. Taken' = Taken \cup {o}
      BY <1>6, <2>3, OneTakes
    <3>4. Pieces(Taken)' = Pieces(Taken) + order[o].items
      BY <2>1, <3>1, <3>3, OneMoreTaken
    <3>5. /\ Pieces(Taken) \in Int /\ order[o].items \in Nat
          /\ stock \in Int /\ Stock \in Int
      BY <3>1, PiecesAreInt DEF Taken, Born, Inv, Shape, ShopOK
    <3>6. StockIsAccounted'
      BY <2>1, <3>4, <3>5 DEF StockIsAccounted, StockInv, Taken
    <3> QED
      BY <1>a, <2>1, <3>6 DEF StockInv, Knows, Holds
  <2> QED
    BY <2>2, <2>3
<1>7. ASSUME \/ \E c \in Contact : Expire(c)
             \/ \E o \in Order : PayLink(o)
             \/ UNCHANGED vars
      PROVE  StockInv'
  <2>1. UNCHANGED <<worker, order, stock, spoiled>>
    BY <1>7 DEF Expire, PayLink, vars, shop, trouble
  <2>2. Born' = Born /\ Taken' = Taken
    BY <2>1 DEF Born, Taken, NotTaken
  <2>3. StockIsAccounted'
    BY <2>1, <2>2, SameAccount
  <2> QED
    BY <2>1, <2>2, <2>3 DEF StockInv
<1> QED
  BY <1>1, <1>2, <1>3, <1>4, <1>5, <1>6, <1>7 DEF Next, Serve, Talks

\* What is missing from the stock was ordered, and without faults all that was
\* ordered is missing, whatever overlaps and however often carts are ordered.
THEOREM StockAccounted == Spec => []StockIsAccounted
<1>1. StockInv => StockIsAccounted
  BY DEF StockInv
<1> QED
  BY <1>1, InitStock, NextStock, InvAlways, PTL DEF Spec

-----------------------------------------------------------------------------
(* The shop, seen from outside.                                            *)

\* Requests may do what they like as long as the same goods are taken and the
\* orders say the same.
LEMMA ShopStutters ==
  ASSUME UNCHANGED <<stock, paid>>, Born' = Born, Taken' = Taken,
         \A o \in Order : /\ ContentOf(order'[o]) = ContentOf(order[o])
                          /\ order'[o].payment = order[o].payment
  PROVE  UNCHANGED Shop!vars
<1>1. [o \in Order |-> ContentOf(order[o])]' = [o \in Order |-> ContentOf(order[o])]
  OBVIOUS
<1>2. {o \in Order : order[o].payment = "completed"}'
        = {o \in Order : order[o].payment = "completed"}
  OBVIOUS
<1> QED
  BY <1>1, <1>2 DEF Shop!vars, Taken

LEMMA QuietShop ==
  ASSUME UNCHANGED <<order, stock, paid>>, NotTaken' = NotTaken
  PROVE  UNCHANGED Shop!vars
<1>1. Born' = Born /\ Taken' = Taken
  BY DEF Born, Taken
<1> QED
  BY <1>1, ShopStutters

LEMMA CreateShop ==
  ASSUME Inv, NEW w \in Worker, NEW o \in Order, createOrder(w, o)
  PROVE  Shop!Place(o)
<1> USE DEF Inv, Shape, OrderOK
<1> DEFINE content == [p \in Order |-> ContentOf(order[p])]
           booked == {p \in Order : order[p].payment = "completed"}
<1>1. /\ o \notin Born /\ Born' = Born \cup {o} /\ Taken' = Taken
      /\ UNCHANGED <<stock, paid>>
  BY CreateTakesNone DEF createOrder, shop, payment
<1>2. \A p \in Order \ {o} : order'[p] = order[p]
  BY DEF createOrder
<1>3. content' = [content EXCEPT ![o] = content'[o]]
  BY <1>2
<1>4. order[o].payment # "completed"
  BY <1>1 DEF PaidIsConfirmed, Born
<1>5. order'[o].payment # "completed"
  BY DEF createOrder, NewOrder
<1>6. booked' = booked
  BY <1>2, <1>4, <1>5
<1> QED
  BY <1>1, <1>3, <1>6 DEF Shop!Place, Taken

LEMMA DeductShop ==
  ASSUME Inv, StockInv, NEW w \in Worker, Deduct(w)
  PROVE  Shop!Serve(worker[w].order)
<1> DEFINE o == worker[w].order
           content == [p \in Order |-> ContentOf(order[p])]
           booked == {p \in Order : order[p].payment = "completed"}
<1>1. /\ o \in Born \ Taken /\ UNCHANGED <<order, paid>>
      /\ Taken' = Taken \cup {o}
  BY OneTakes DEF Deduct
<1>2. stock' = stock - order[o].items
  BY DEF Deduct, StockInv
<1>3. content[o].items = order[o].items
  BY <1>1 DEF ContentOf, Born
<1>4. content' = content /\ booked' = booked /\ Born' = Born
  BY <1>1 DEF Born
<1> HIDE DEF content, booked
<1>5. /\ o \in Born \ Taken /\ Taken' = Taken \cup {o}
      /\ stock' = stock - content[o].items
      /\ UNCHANGED <<Born, content, paid, booked>>
  BY <1>1, <1>2, <1>3, <1>4
<1> QED
  BY <1>5 DEF Shop!Serve, Taken, content, booked

LEMMA FailShop ==
  ASSUME Inv, NEW w \in Worker, Fail(w)
  PROVE  UNCHANGED Shop!vars \/ \E o \in Order : Shop!Abandon(o)
<1>1. UNCHANGED <<order, stock, paid>>
  BY DEF Fail, shop, payment
<1>2. CASE At(w, "deduct")
  <2> DEFINE o == worker[w].order
             content == [p \in Order |-> ContentOf(order[p])]
             booked == {p \in Order : order[p].payment = "completed"}
  <2>1. o \in Born \ Taken /\ Taken' = Taken \cup {o}
    BY <1>2, OneTakes
  <2>2. content' = content /\ booked' = booked /\ Born' = Born
    BY <1>1 DEF Born
  <2>3. o \in Order
    BY <2>1 DEF Born
  <2> HIDE DEF content, booked
  <2>4. Shop!Abandon(o)
    BY <1>1, <2>1, <2>2 DEF Shop!Abandon, Taken, content, booked
  <2> QED
    BY <2>3, <2>4
<1>3. CASE ~At(w, "deduct")
  <2>1. NotTaken' = NotTaken
    BY <1>3 DEF Fail, End, Idle, At, NotTaken, Inv, Shape, WorkerOK
  <2> QED
    BY <1>1, <2>1, QuietShop
<1> QED
  BY <1>2, <1>3

LEMMA SaveShop ==
  ASSUME Inv, NEW w \in Worker, SaveLink(w)
  PROVE  UNCHANGED Shop!vars
<1> USE DEF Inv, Shape, OrderOK, WorkerOK, At
<1> DEFINE o == worker[w].order
<1>1. o \in Born
  BY DEF SaveLink, KnowledgeInv, Knows, Holds
<1>2. \A p \in Order : /\ ContentOf(order'[p]) = ContentOf(order[p])
                       /\ order'[p].payment = order[p].payment
  BY <1>1 DEF SaveLink, ContentOf, Born, OrderDoc
<1>3. Born' = Born
  BY <1>1 DEF SaveLink, Born
<1>4. NotTaken' = NotTaken
  BY DEF SaveLink, End, Idle, NotTaken
<1> QED
  BY <1>2, <1>3, <1>4, ShopStutters DEF SaveLink, shop, payment, Taken

LEMMA PayShop ==
  ASSUME Inv, NEW o \in Order, PayLink(o)
  PROVE  Shop!Charge(o)
<1> DEFINE content == [p \in Order |-> ContentOf(order[p])]
           booked == {p \in Order : order[p].payment = "completed"}
<1>1. /\ o \in Born \ paid /\ paid' = paid \cup {o}
      /\ UNCHANGED <<stock, order, worker>>
  BY DEF PayLink, shop, Inv, Shape, OrderOK
<1>2. /\ content' = content /\ booked' = booked /\ Born' = Born
      /\ (Born \ NotTaken)' = Born \ NotTaken
  BY <1>1 DEF Born, NotTaken, At
<1> HIDE DEF content, booked
<1> QED
  BY <1>1, <1>2 DEF Shop!Charge, content, booked

LEMMA BookShop ==
  ASSUME Inv, NEW o \in Order, markAsPaid(o)
  PROVE  UNCHANGED Shop!vars \/ Shop!Book(o)
<1> USE DEF Inv, Shape, OrderOK
<1> DEFINE content == [p \in Order |-> ContentOf(order[p])]
           booked == {p \in Order : order[p].payment = "completed"}
<1>1. o \in paid /\ o \in Born /\ UNCHANGED <<stock, paid, worker>>
  BY DEF markAsPaid, shop, payment
<1>2. /\ \A p \in Order \ {o} : order'[p] = order[p]
      /\ ContentOf(order'[o]) = ContentOf(order[o])
      /\ order'[o].payment = "completed"
  BY DEF markAsPaid, ContentOf, OrderDoc
<1>3. order[o].status # "none" /\ order'[o].status # "none"
  BY <1>1 DEF markAsPaid, Born, OrderDoc
<1>4. Born' = Born /\ Taken' = Taken
  BY <1>1, <1>2, <1>3 DEF Born, Taken, NotTaken, At
<1>5. CASE order[o].payment = "completed"
  <2>1. \A p \in Order : /\ ContentOf(order'[p]) = ContentOf(order[p])
                         /\ order'[p].payment = order[p].payment
    BY <1>2, <1>5
  <2> QED
    BY <1>1, <1>4, <2>1, ShopStutters
<1>6. CASE order[o].payment # "completed"
  <2>1. o \notin booked /\ booked' = booked \cup {o}
    BY <1>2, <1>6
  <2>2. content' = content
    BY <1>2
  <2> HIDE DEF content, booked
  <2> QED
    BY <1>1, <1>4, <2>1, <2>2 DEF Shop!Book, Taken, content, booked
<1> QED
  BY <1>5, <1>6

LEMMA ShopStep ==
  ASSUME Inv, StockInv, [Next]_vars
  PROVE  [Shop!Next]_(Shop!vars)
<1>1. ASSUME NEW w \in Worker, Talks(w) PROVE UNCHANGED Shop!vars
  <2>1. /\ UNCHANGED <<order, stock, paid>>
        /\ \A v \in Worker \ {w} : worker'[v] = worker[v]
        /\ worker[w].pc # "deduct" /\ worker'[w].pc # "deduct"
    BY <1>1, TalkIsQuiet DEF Inv, Shape, WorkerOK, Quiet
  <2>2. NotTaken' = NotTaken
    BY <2>1 DEF NotTaken, At
  <2> QED
    BY <2>1, <2>2, QuietShop
<1>2. ASSUME NEW w \in Worker, NEW o \in Order, createOrder(w, o) PROVE Shop!Next
  BY <1>2, CreateShop DEF Shop!Next
<1>3. ASSUME NEW w \in Worker, Deduct(w) PROVE Shop!Next
  <2>1. worker[w].order \in Order
    BY <1>3, OneTakes DEF Deduct, Born
  <2> QED
    BY <1>3, <2>1, DeductShop DEF Shop!Next
<1>4. ASSUME NEW w \in Worker, Fail(w) PROVE [Shop!Next]_(Shop!vars)
  BY <1>4, FailShop DEF Shop!Next
<1>5. ASSUME NEW w \in Worker, SaveLink(w) PROVE UNCHANGED Shop!vars
  BY <1>5, SaveShop
<1>6. ASSUME NEW o \in Order, PayLink(o) PROVE Shop!Next
  BY <1>6, PayShop DEF Shop!Next
<1>7. ASSUME NEW o \in Order, markAsPaid(o) PROVE [Shop!Next]_(Shop!vars)
  BY <1>7, BookShop DEF Shop!Next
<1>8. ASSUME (\E c \in Contact : Expire(c)) \/ UNCHANGED vars
      PROVE  UNCHANGED Shop!vars
  <2>1. UNCHANGED <<order, stock, paid, worker>>
    BY <1>8 DEF Expire, vars, shop, payment
  <2>2. NotTaken' = NotTaken
    BY <2>1 DEF NotTaken, At
  <2> QED
    BY <2>1, <2>2, QuietShop
<1> QED
  BY <1>1, <1>2, <1>3, <1>4, <1>5, <1>6, <1>7, <1>8 DEF Next, Serve, Talks

LEMMA ShopInit == Init => Shop!Init
<1> SUFFICES ASSUME Init PROVE Shop!Init
  OBVIOUS
<1>1. Born = {} /\ {o \in Order : order[o].payment = "completed"} = {}
  BY DEF Init, Born, Unborn
<1>2. [o \in Order |-> ContentOf(order[o])] = [o \in Order |-> ContentOf(Unborn)]
  BY DEF Init
<1> QED
  BY <1>1, <1>2 DEF Init, Shop!Init

\* Whatever messages overlap, are repeated or die on the way, the orders are a shop's:
\* placed once and never rewritten, their goods taken once at most and exactly those,
\* booked as paid only when they were paid, and for good.
THEOREM CheckoutImplementsShop == Spec => ImplementsShop
<1>1. Inv /\ StockInv /\ [Next]_vars => [Shop!Next]_(Shop!vars)
  BY ShopStep
<1>2. Spec => []StockInv
  BY InitStock, NextStock, InvAlways, PTL DEF Spec
<1> QED
  BY <1>1, <1>2, ShopInit, InvAlways, PTL DEF Spec, ImplementsShop, Shop!Spec
=============================================================================

------------------------------ MODULE Checkout ------------------------------
(***************************************************************************)
(* Buying in a chat: chat-service's checkout bot, and what billing-service *)
(* does for it.                                                            *)
(*                                                                         *)
(* Every message of a customer is handed to the bot by a request of its    *)
(* own, which reads the customer's cart, acts on the state it read and     *)
(* saves the fields it changed; nothing keeps two messages of a customer   *)
(* apart.  A Worker is such a request.  The last message of a checkout     *)
(* creates the order in billing-service, takes the goods from the stock,   *)
(* completes the cart and, for online payment, has a payment link made.    *)
(*                                                                         *)
(* The store sells one product; an amount of money is the number of pieces *)
(* it pays for.                                                            *)
(***************************************************************************)
EXTENDS Integers, FiniteSets, Functions

CONSTANTS
  Contact,   \* customers
  Worker,    \* requests in progress at one time
  Order,     \* orders of billing-service
  Nobody,    \* no customer
  NoOrder,   \* no order
  Stock,     \* pieces in stock at first
  MaxQty,    \* most pieces asked for at a time
  MaxItems,  \* bound on the pieces in a cart
  MaxFaults  \* bound on faults

ASSUME CheckoutAssumption ==
  /\ Nobody \notin Contact
  /\ NoOrder \notin Order
  /\ Stock \in Nat
  /\ MaxQty \in Nat \ {0}
  /\ MaxItems \in Nat
  /\ MaxFaults \in Nat

VARIABLES
  cart,       \* customer -> the cart, of which there is one at most
  expired,    \* customers whose cart is past expiresAt
  worker,     \* Worker -> next step, and the cart as it read it
  stock,      \* pieces in stock
  order,      \* Order -> its document
  links,      \* orders with a payment link at Razorpay
  paid,       \* orders whose link was paid
  overlapped, \* history: customers with two messages under way at a time
  early,      \* history: orders paid before the link was saved with them
  spoiled,    \* history: customers whose message met a fault
  faults      \* faults so far; bounds TLC

shop == <<cart, expired, stock>>
payment == <<links, paid>>
trouble == <<overlapped, early, spoiled, faults>>
vars == <<shop, worker, order, payment, trouble>>

CartState ==
  {"none", "welcome", "product_selection", "quantity_selection",
   "address_capture", "payment_pending", "order_completed"}
OrderStatus == {"none", "pending", "payment_initiated", "confirmed"}
Step ==
  {"idle", "create", "reset", "select", "quantity", "address", "payment",
   "order", "deduct", "complete", "pay", "link"}

Cart == [state : CartState, items : Nat, total : Nat]
OrderDoc == [status : OrderStatus, payment : {"pending", "initiated", "completed"},
             contact : Contact \cup {Nobody}, items : Nat, total : Nat]

Unborn == [status |-> "none", payment |-> "pending", contact |-> Nobody,
           items |-> 0, total |-> 0]
NoCart == [state |-> "none", items |-> 0, total |-> 0]
Idle == [pc |-> "idle", contact |-> Nobody, cart |-> NoCart, online |-> FALSE,
         order |-> NoOrder, status |-> "none"]

TypeOK ==
  /\ cart \in [Contact -> Cart]
  /\ expired \subseteq Contact
  /\ worker \in [Worker -> [pc : Step, contact : Contact \cup {Nobody}, cart : Cart,
                            online : BOOLEAN, order : Order \cup {NoOrder},
                            status : OrderStatus]]
  /\ stock \in Int
  /\ order \in [Order -> OrderDoc]
  /\ links \subseteq Order
  /\ paid \subseteq links
  /\ overlapped \subseteq Contact
  /\ early \subseteq paid
  /\ spoiled \subseteq Contact
  /\ faults \in 0..MaxFaults

Init ==
  /\ cart = [c \in Contact |-> NoCart]
  /\ expired = {}
  /\ worker = [w \in Worker |-> Idle]
  /\ stock = Stock
  /\ order = [o \in Order |-> Unborn]
  /\ links = {} /\ paid = {}
  /\ overlapped = {} /\ early = {} /\ spoiled = {} /\ faults = 0

Born == {o \in Order : order[o].status # "none"}

-----------------------------------------------------------------------------
(* Reading the cart. *)

At(w, s) == worker[w].pc = s
Go(w, s) == worker' = [worker EXCEPT ![w].pc = s]
End(w) == worker' = [worker EXCEPT ![w] = Idle]
Busy(c) == \E w \in Worker : worker[w].contact = c
Whose(w) == worker[w].contact

\* The step for the cart's state.
Dispatch(state) ==
  CASE state \in {"welcome", "product_selection"} -> "select"
    [] state = "quantity_selection" -> "quantity"
    [] state = "address_capture" -> "address"
    [] state = "payment_pending" -> "payment"
    [] OTHER -> "idle"

\* A message of a customer is taken up.  Without an open cart, a completed one
\* being none, there will be a new one, provided the message shows an intent.
Receive(w, c) ==
  LET open == cart[c].state \notin {"none", "order_completed"} IN
  /\ At(w, "idle")
  /\ worker' = [worker EXCEPT ![w] =
       [Idle EXCEPT !.contact = c,
                    !.cart = IF open THEN cart[c] ELSE NoCart,
                    !.pc = IF ~open THEN "create"
                           ELSE IF c \in expired THEN "reset"
                           ELSE Dispatch(cart[c].state)]]
  /\ overlapped' = IF Busy(c) THEN overlapped \cup {c} ELSE overlapped
  /\ UNCHANGED <<shop, order, payment, early, spoiled, faults>>

\* A customer has one cart for good: the unique index leaves no room for another
\* beside one that is completed.
CreateCart(w) ==
  LET c == Whose(w) IN
  /\ At(w, "create")
  /\ IF cart[c].state = "none"
     THEN /\ cart' = [cart EXCEPT ![c].state = "welcome"]
          /\ worker' = [worker EXCEPT ![w].pc = "select",
                                      ![w].cart.state = "welcome"]
     ELSE End(w) /\ UNCHANGED cart
  /\ UNCHANGED <<expired, stock, order, payment, trouble>>

\* A cart past its time starts over, with what is in it and as late as before.
Reset(w) ==
  /\ At(w, "reset")
  /\ cart' = [cart EXCEPT ![Whose(w)].state = "welcome"]
  /\ worker' = [worker EXCEPT ![w].pc = "select", ![w].cart.state = "welcome"]
  /\ UNCHANGED <<expired, stock, order, payment, trouble>>

Expire(c) ==
  /\ cart[c].state \notin {"none", "order_completed"}
  /\ expired' = expired \cup {c}
  /\ UNCHANGED <<cart, stock, worker, order, payment, trouble>>

-----------------------------------------------------------------------------
(* The conversation. *)

\* A message that is not understood, or cannot be satisfied, gets a reply.
Reply(w) ==
  /\ worker[w].pc \in {"create", "select", "quantity", "address", "payment"}
  /\ End(w)
  /\ UNCHANGED <<shop, order, payment, trouble>>

\* What is sold out is not offered.  The state is saved if it was changed.
Select(w, state) ==
  /\ At(w, "select")
  /\ stock > 0
  /\ cart' = IF worker[w].cart.state = state THEN cart
             ELSE [cart EXCEPT ![Whose(w)].state = state]
  /\ End(w)
  /\ UNCHANGED <<expired, stock, order, payment, trouble>>

\* The bug of computing the totals before the item is added.
MutantQuantity(w, qty) ==
  LET c == Whose(w)
      was == worker[w].cart
  IN
  /\ At(w, "quantity")
  /\ stock >= qty
  /\ cart[c].items + qty <= MaxItems
  /\ cart' = [cart EXCEPT ![c] = [state |-> "address_capture",
                                  items |-> @.items + qty,
                                  total |-> was.items]]
  /\ End(w)
  /\ UNCHANGED <<expired, stock, order, payment, trouble>>

\* The item is pushed to the items in the database, the total computed from those
\* that were read.
Quantity(w, qty) ==
  LET c == Whose(w)
      was == worker[w].cart
  IN
  /\ At(w, "quantity")
  /\ stock >= qty
  /\ cart[c].items + qty <= MaxItems
  /\ cart' = [cart EXCEPT ![c] = [state |-> "address_capture",
                                  items |-> @.items + qty,
                                  total |-> was.items + qty]]
  /\ End(w)
  /\ UNCHANGED <<expired, stock, order, payment, trouble>>

Address(w) ==
  /\ At(w, "address")
  /\ cart' = [cart EXCEPT ![Whose(w)].state = "payment_pending"]
  /\ End(w)
  /\ UNCHANGED <<expired, stock, order, payment, trouble>>

\* The bug of completing the cart before there is an order.
MutantChoose(w, online) ==
  /\ At(w, "payment")
  /\ cart' = [cart EXCEPT ![Whose(w)].state = "order_completed"]
  /\ worker' = [worker EXCEPT ![w].pc = "order", ![w].online = online]
  /\ UNCHANGED <<expired, stock, order, payment, trouble>>

Choose(w, online) ==
  /\ At(w, "payment")
  /\ worker' = [worker EXCEPT ![w].pc = "order", ![w].online = online]
  /\ UNCHANGED <<shop, order, payment, trouble>>

-----------------------------------------------------------------------------
(* The order. *)

\* billing-service stores the order of the cart that was read.
NewOrder(w) ==
  [status |-> IF worker[w].online THEN "pending" ELSE "confirmed",
   payment |-> IF worker[w].online THEN "initiated" ELSE "pending",
   contact |-> Whose(w),
   items |-> worker[w].cart.items, total |-> worker[w].cart.total]

createOrder(w, o) ==
  /\ At(w, "order")
  /\ o \notin Born
  /\ order' = [order EXCEPT ![o] = NewOrder(w)]
  /\ worker' = [worker EXCEPT ![w].pc = "deduct", ![w].order = o]
  /\ UNCHANGED <<shop, payment, trouble>>

\* The bug of taking one piece for every item.
MutantDeduct(w) ==
  /\ At(w, "deduct")
  /\ stock' = stock - 1
  /\ Go(w, "complete")
  /\ UNCHANGED <<cart, expired, order, payment, trouble>>

\* The goods are taken without a look at how many are left.
Deduct(w) ==
  /\ At(w, "deduct")
  /\ stock' = stock - worker[w].cart.items
  /\ Go(w, "complete")
  /\ UNCHANGED <<cart, expired, order, payment, trouble>>

\* The bug of leaving the cart open until an online payment arrives.
MutantComplete(w) ==
  /\ At(w, "complete")
  /\ IF worker[w].online
     THEN Go(w, "pay") /\ UNCHANGED cart
     ELSE End(w) /\ cart' = [cart EXCEPT ![Whose(w)].state = "order_completed"]
  /\ UNCHANGED <<expired, stock, order, payment, trouble>>

Complete(w) ==
  /\ At(w, "complete")
  /\ cart' = [cart EXCEPT ![Whose(w)].state = "order_completed"]
  /\ IF worker[w].online THEN Go(w, "pay") ELSE End(w)
  /\ UNCHANGED <<expired, stock, order, payment, trouble>>

\* billing-service reads the order and has Razorpay make a link, which Razorpay
\* itself sends to the customer; no keys, no link.
PaymentLink(w) ==
  LET o == worker[w].order IN
  /\ At(w, "pay")
  /\ \/ /\ links' = links \cup {o}
        /\ worker' = [worker EXCEPT ![w].pc = "link", ![w].status = order[o].status]
     \/ End(w) /\ UNCHANGED links
  /\ UNCHANGED <<shop, order, paid, trouble>>

\* The bug of saving the payment status, too, as it was read.
MutantSaveLink(w) ==
  /\ At(w, "link")
  /\ order' = [order EXCEPT ![worker[w].order].status = "payment_initiated",
                            ![worker[w].order].payment = "initiated"]
  /\ End(w)
  /\ UNCHANGED <<shop, payment, trouble>>

\* Then it saves what it changed in the order it had read.
SaveLink(w) ==
  /\ At(w, "link")
  /\ order' = IF worker[w].status = "payment_initiated" THEN order
              ELSE [order EXCEPT ![worker[w].order].status = "payment_initiated"]
  /\ End(w)
  /\ UNCHANGED <<shop, payment, trouble>>

PayLink(o) ==
  /\ o \in links \ paid
  /\ paid' = paid \cup {o}
  /\ early' = IF \E w \in Worker : At(w, "link") /\ worker[w].order = o
              THEN early \cup {o} ELSE early
  /\ UNCHANGED <<shop, worker, order, links, overlapped, spoiled, faults>>

\* The bug of confirming only orders whose payment is initiated.
MutantMarkAsPaid(o) ==
  /\ o \in paid
  /\ order' = [order EXCEPT ![o].payment = "completed",
                            ![o].status = IF @ = "payment_initiated"
                                          THEN "confirmed" ELSE @]
  /\ order' # order
  /\ UNCHANGED <<shop, worker, payment, trouble>>

\* The webhook of the payment, once or again.
markAsPaid(o) ==
  /\ o \in paid
  /\ order' = [order EXCEPT ![o].payment = "completed",
                            ![o].status = IF @ \in {"pending", "payment_initiated"}
                                          THEN "confirmed" ELSE @]
  /\ order' # order
  /\ UNCHANGED <<shop, worker, payment, trouble>>

-----------------------------------------------------------------------------
\* A request dies, or MongoDB, billing-service or Razorpay fails it, with or
\* without its last call having been carried out; what it threw is swallowed.
Fail(w) ==
  /\ ~At(w, "idle")
  /\ faults < MaxFaults
  /\ faults' = faults + 1
  /\ spoiled' = spoiled \cup {Whose(w)}
  /\ End(w)
  /\ UNCHANGED <<shop, order, payment, overlapped, early>>

Serve(w) ==
  \/ CreateCart(w) \/ Reset(w) \/ Reply(w)
  \/ \E s \in {"product_selection", "quantity_selection"} : Select(w, s)
  \/ \E qty \in 1..MaxQty : Quantity(w, qty)
  \/ Address(w)
  \/ \E online \in BOOLEAN : Choose(w, online)
  \/ \E o \in Order : createOrder(w, o)
  \/ Deduct(w) \/ Complete(w) \/ PaymentLink(w) \/ SaveLink(w)

Next ==
  \/ \E w \in Worker : Serve(w) \/ Fail(w) \/ \E c \in Contact : Receive(w, c)
  \/ \E c \in Contact : Expire(c)
  \/ \E o \in Order : PayLink(o) \/ markAsPaid(o)

Spec == Init /\ [][Next]_vars

-----------------------------------------------------------------------------
Pieces(orders) == SumFunctionOnSet([o \in Order |-> order[o].items], orders)
OrdersOf(c) == {o \in Born : order[o].contact = c}
NotTaken == {worker[w].order : w \in {v \in Worker : At(v, "deduct")}}

\* The stock is what was there less what was ordered, apart from the orders whose
\* goods are about to be taken; a fault in between leaves too much, never too little.
StockIsAccounted ==
  /\ stock >= Stock - Pieces(Born \ NotTaken)
  /\ spoiled = {} => stock = Stock - Pieces(Born \ NotTaken)

\* A cart becomes one order, whatever the customer repeats, if his messages came
\* one at a time and none of them failed.
OneOrder ==
  \A c \in Contact \ (overlapped \cup spoiled) :
    \A o1, o2 \in OrdersOf(c) : o1 = o2

\* An order costs what is in it, unless two messages were counted at once.
ChargedForContents ==
  \A o \in Born : order[o].contact \notin overlapped => order[o].total = order[o].items

\* A cart is completed if and only if it was ordered: the one because the order is
\* made first, the other unless a message failed or a late one reopened the cart.
OrderClosesCart ==
  \A c \in Contact :
    /\ cart[c].state = "order_completed" => OrdersOf(c) # {}
    /\ OrdersOf(c) # {} /\ ~Busy(c) /\ c \notin overlapped \cup spoiled
       => cart[c].state = "order_completed"

\* Only paid orders count as paid, and those are confirmed; except that an order
\* paid before its link was saved is taken back to payment_initiated by that save.
PaidIsConfirmed ==
  \A o \in Order : order[o].payment = "completed" =>
    o \in paid /\ (o \notin early => order[o].status = "confirmed")

\* What is booked as paid stays so, though link and webhook save the same order.
PaidStaysPaid ==
  [][\A o \in Order :
       order[o].payment = "completed" => order'[o].payment = "completed"]_vars

\* Seen from outside, whatever overlaps, is repeated or dies: each step is one of
\* ShopOrders's, or none.
ContentOf(doc) == [contact |-> doc.contact, items |-> doc.items, total |-> doc.total]
Shop == INSTANCE ShopOrders
          WITH Empty <- ContentOf(Unborn),
               placed <- Born,
               content <- [o \in Order |-> ContentOf(order[o])],
               served <- Born \ NotTaken,
               charged <- paid,
               booked <- {o \in Order : order[o].payment = "completed"}

ImplementsShop == Shop!Spec
=============================================================================

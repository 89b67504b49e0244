----------------------------- MODULE ShopOrders -----------------------------
(***************************************************************************)
(* What the checkout bot and billing-service promise together about the    *)
(* orders of a shop: an order is placed once, and nobody changes its       *)
(* customer, its contents or its price after that; its goods leave the     *)
(* stock once at most, exactly those; it is booked as paid only when the   *)
(* customer has paid, and stays so.                                        *)
(*                                                                         *)
(* Messages, carts, requests, links and faults are not seen here.          *)
(***************************************************************************)
EXTENDS Integers

CONSTANTS
  Order,     \* orders
  Stock,     \* pieces in stock at first
  Empty      \* what is in an order that was not placed

VARIABLES
  stock,     \* pieces in stock
  placed,    \* orders that were placed
  content,   \* order -> customer, pieces and price
  served,    \* orders whose goods were taken, or will never be
  charged,   \* orders the customer has paid
  booked     \* orders that count as paid

vars == <<stock, placed, content, served, charged, booked>>

Init ==
  /\ stock = Stock
  /\ content = [o \in Order |-> Empty]
  /\ placed = {} /\ served = {} /\ charged = {} /\ booked = {}

Place(o) ==
  /\ o \notin placed
  /\ placed' = placed \cup {o}
  /\ content' = [content EXCEPT ![o] = content'[o]]
  /\ UNCHANGED <<stock, served, charged, booked>>

Serve(o) ==
  /\ o \in placed \ served
  /\ served' = served \cup {o}
  /\ stock' = stock - content[o].items
  /\ UNCHANGED <<placed, content, charged, booked>>

\* The request that placed the order died before it took the goods.
Abandon(o) ==
  /\ o \in placed \ served
  /\ served' = served \cup {o}
  /\ UNCHANGED <<stock, placed, content, charged, booked>>

Charge(o) ==
  /\ o \in placed \ charged
  /\ charged' = charged \cup {o}
  /\ UNCHANGED <<stock, placed, content, served, booked>>

Book(o) ==
  /\ o \in charged \ booked
  /\ booked' = booked \cup {o}
  /\ UNCHANGED <<stock, placed, content, served, charged>>

Next ==
  \E o \in Order : Place(o) \/ Serve(o) \/ Abandon(o) \/ Charge(o) \/ Book(o)

Spec == Init /\ [][Next]_vars
=============================================================================

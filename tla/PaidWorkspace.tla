--------------------------- MODULE PaidWorkspace ---------------------------
(***************************************************************************)
(* What billing-service and auth-service promise about the money that a    *)
(* workspace pays: a recharge is credited once and booked after that; a    *)
(* payment moves each document of the workspace's plan once at most, to    *)
(* the plan it bought, and only when it is booked, so that a report which  *)
(* comes late or again never takes back a plan bought since; an invoice    *)
(* stands for what is booked, under a number of its own, and stays.        *)
(*                                                                         *)
(* Callbacks, webhooks, retries, faults and events are not seen here.      *)
(***************************************************************************)
EXTENDS Naturals

CONSTANTS
  Payment,   \* payments
  Free,      \* the plan that costs nothing
  NoPlan,    \* none
  PlanOf     \* Payment -> the plan it buys, or NoPlan for a recharge

VARIABLES
  taken,     \* payments the provider took
  credits,   \* payment -> times the wallet was credited for it
  booked,    \* payments in the ledger
  granted,   \* payment -> the documents it has had its chance to move
  plan,      \* document -> plan
  invoices   \* payment -> number of its invoice, 0 for none

vars == <<taken, credits, booked, granted, plan, invoices>>

Copies == {"workspace", "subscription", "limits"}

Init ==
  /\ taken = {} /\ booked = {}
  /\ credits = [p \in Payment |-> 0]
  /\ granted = [p \in Payment |-> {}]
  /\ plan = [d \in Copies |-> NoPlan]
  /\ invoices = [p \in Payment |-> 0]

Pay(p) ==
  /\ p \notin taken
  /\ taken' = taken \cup {p}
  /\ UNCHANGED <<credits, booked, granted, plan, invoices>>

Credit(p) ==
  /\ p \in taken
  /\ PlanOf[p] = NoPlan /\ credits[p] = 0
  /\ credits' = [credits EXCEPT ![p] = 1]
  /\ UNCHANGED <<taken, booked, granted, plan, invoices>>

Book(p) ==
  /\ p \in taken \ booked
  /\ PlanOf[p] # NoPlan \/ credits[p] = 1
  /\ booked' = booked \cup {p}
  /\ UNCHANGED <<taken, credits, granted, plan, invoices>>

Use(p, d) ==
  /\ p \in booked /\ PlanOf[p] # NoPlan
  /\ d \notin granted[p]
  /\ granted' = [granted EXCEPT ![p] = @ \cup {d}]
  /\ UNCHANGED <<taken, credits, booked, invoices>>

Grant(p, d) ==
  /\ Use(p, d)
  /\ plan' = [plan EXCEPT ![d] = PlanOf[p]]

\* The limits are kept by another service, which may not hear of the payment.
Miss(p) == Use(p, "limits") /\ UNCHANGED plan

SwitchToFree ==
  /\ plan' = [plan EXCEPT !["workspace"] = Free]
  /\ UNCHANGED <<taken, credits, booked, granted, invoices>>

Invoice(p) ==
  /\ p \in booked /\ invoices[p] = 0
  /\ invoices'[p] # 0 /\ \A q \in Payment : invoices[q] # invoices'[p]
  /\ invoices' = [invoices EXCEPT ![p] = invoices'[p]]
  /\ UNCHANGED <<taken, credits, booked, granted, plan>>

Next ==
  \/ \E p \in Payment :
       \/ Pay(p) \/ Credit(p) \/ Book(p) \/ Miss(p) \/ Invoice(p)
       \/ \E d \in Copies : Grant(p, d)
  \/ SwitchToFree

Spec == Init /\ [][Next]_vars
=============================================================================

-------------------------- MODULE TemplateDelivery --------------------------
(***************************************************************************)
(* What chat-service, billing-service and service-provider promise         *)
(* together about template messages: to the customer, that a dispatch id   *)
(* puts a second message on his phone only after the provider has refused  *)
(* one; to the workspace that pays, that what comes back was taken before; *)
(* to its agents, that the inbox shows what went out, and counts it once.  *)
(*                                                                         *)
(* Calls, retries, timeouts, records and crashes are not seen here.  None  *)
(* of the steps is ever undone.                                            *)
(***************************************************************************)
EXTENDS Naturals, FiniteSets

CONSTANTS
  Message,   \* what can be sent
  Key,       \* idempotency keys of charges
  Id,        \* dispatch ids
  IdOf       \* Message -> Id

VARIABLES
  taken,     \* key -> deductions from the wallet
  returned,  \* keys of which a charge was paid back
  phone,     \* messages the customer has
  refused,   \* dispatch ids of which the provider refused a message
  shown,     \* messages in the inbox
  counted    \* how many the inbox says they are

vars == <<taken, returned, phone, refused, shown, counted>>

Init ==
  /\ taken = [k \in Key |-> 0]
  /\ returned = {} /\ phone = {} /\ refused = {} /\ shown = {}
  /\ counted = 0

Take(k) ==
  /\ taken' = [taken EXCEPT ![k] = @ + 1]
  /\ UNCHANGED <<returned, phone, refused, shown, counted>>

Return(k) ==
  /\ taken[k] > 0
  /\ returned' = returned \cup {k}
  /\ UNCHANGED <<taken, phone, refused, shown, counted>>

Send(m) ==
  /\ m \notin phone
  /\ IdOf[m] \in refused \/ \A n \in phone : IdOf[n] # IdOf[m]
  /\ phone' = phone \cup {m}
  /\ UNCHANGED <<taken, returned, refused, shown, counted>>

Refuse(i) ==
  /\ refused' = refused \cup {i}
  /\ UNCHANGED <<taken, returned, phone, shown, counted>>

Show(m) ==
  /\ m \in phone \ shown
  /\ shown' = shown \cup {m}
  /\ UNCHANGED <<taken, returned, phone, refused, counted>>

Count ==
  /\ counted < Cardinality(shown)
  /\ counted' = counted + 1
  /\ UNCHANGED <<taken, returned, phone, refused, shown>>

Next ==
  \/ \E k \in Key : Take(k) \/ Return(k)
  \/ \E m \in Message : Send(m) \/ Show(m)
  \/ \E i \in Id : Refuse(i)
  \/ Count

Spec == Init /\ [][Next]_vars
=============================================================================

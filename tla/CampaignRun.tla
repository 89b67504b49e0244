---------------------------- MODULE CampaignRun ----------------------------
(***************************************************************************)
(* What campaign-service and billing-service promise together about one    *)
(* campaign: its batches are made all at once and never again; a batch may *)
(* be gone through again, but what was sent stays sent; the campaign is    *)
(* completed, and its money settled, only when all of it was sent; money   *)
(* is parked once, and settled once after that.                            *)
(*                                                                         *)
(* Requests, the queue, the lock, events, retries and faults are not seen  *)
(* here.  That COMPLETED may be taken back is part of the promise, since   *)
(* whoever read the campaign before saves his status over it.              *)
(***************************************************************************)
CONSTANT
  Batch      \* the batches of the campaign

VARIABLES
  batches,   \* batch -> status of its document
  sent,      \* batches all of whose recipients were sent to
  completed, \* the campaign is COMPLETED
  money      \* what billing-service holds for it

vars == <<batches, sent, completed, money>>

Init ==
  /\ batches = [b \in Batch |-> "absent"]
  /\ sent = {}
  /\ completed = FALSE
  /\ money = "none"

Fill ==
  /\ \A b \in Batch : batches[b] = "absent"
  /\ batches' = [b \in Batch |-> "PENDING"]
  /\ UNCHANGED <<sent, completed, money>>

Begin(b) ==
  /\ batches[b] # "absent"
  /\ batches' = [batches EXCEPT ![b] = "PROCESSING"]
  /\ UNCHANGED <<sent, completed, money>>

End(b) ==
  /\ batches[b] = "PROCESSING"
  /\ batches' = [batches EXCEPT ![b] = "COMPLETED"]
  /\ sent' = sent \cup {b}
  /\ UNCHANGED <<completed, money>>

Complete ==
  /\ ~completed /\ sent = Batch
  /\ completed' = TRUE
  /\ UNCHANGED <<batches, sent, money>>

TakeBack ==
  /\ completed
  /\ completed' = FALSE
  /\ UNCHANGED <<batches, sent, money>>

Park ==
  /\ money = "none"
  /\ money' = "parked"
  /\ UNCHANGED <<batches, sent, completed>>

Settle ==
  /\ money = "parked" /\ sent = Batch
  /\ money' = "settled"
  /\ UNCHANGED <<batches, sent, completed>>

Next ==
  \/ Fill \/ Complete \/ TakeBack \/ Park \/ Settle
  \/ \E b \in Batch : Begin(b) \/ End(b)

Spec == Init /\ [][Next]_vars
=============================================================================

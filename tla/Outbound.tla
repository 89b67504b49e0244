------------------------------ MODULE Outbound ------------------------------
(***************************************************************************)
(* A template message on its way out.                                      *)
(*                                                                         *)
(*   chat-service --HTTP--> billing-service     charge, and maybe refund   *)
(*                --HTTP--> service-provider --> the WhatsApp provider     *)
(*                                                                         *)
(* A Call is one request to chat-service: a user's send, an automation's,  *)
(* or somebody's retry of one.  Its charge is keyed by KeyOf[c] and its    *)
(* dispatch by IdOf[c]: chatController uses the caller's idempotency key   *)
(* for both, send-template uses it for the charge and draws a dispatch id, *)
(* and who passes no key gets fresh ones.  service-provider serves the     *)
(* dispatch of a call in a handler of its own, which goes on when the      *)
(* caller has stopped waiting (20 s against the provider's 25 s).          *)
(*                                                                         *)
(* A message the provider took is named by the call whose handler sent it. *)
(* The wallet is Ledger's; here a deduction is its look for the            *)
(* transaction and its writes, and a refund is a credit, applied once for  *)
(* its reference.                                                          *)
(***************************************************************************)
EXTENDS Integers, FiniteSets

CONSTANTS
  Call,      \* requests to send, retries among them
  NoCall,    \* none of them
  Key,       \* idempotency keys of charges
  Id,        \* internalMessageIds
  KeyOf,     \* Call -> Key
  IdOf,      \* Call -> Id
  Outcome,   \* delivery statuses the provider reports
  MaxFaults  \* bound on faults

ASSUME OutboundAssumption ==
  /\ NoCall \notin Call
  /\ IsFiniteSet(Call)
  /\ KeyOf \in [Call -> Key]
  /\ IdOf \in [Call -> Id]
  /\ Outcome \subseteq {"sent", "delivered", "read", "failed"}
  /\ MaxFaults \in Nat

VARIABLES
  chat,     \* Call -> next step in chat-service, what it was told
  handler,  \* Call -> next step in service-provider, what it has read
  taken,    \* key -> deductions written to the wallet
  charges,  \* keys with a transaction in the ledger
  refunds,  \* keys whose refund was credited
  record,   \* id -> its document in bsp_message_dispatches
  accepted, \* messages the provider took
  reports,  \* message -> delivery statuses on their way to chat-service
  rows,     \* message -> status of its document in chat-service
  counted,  \* the conversation's messageCount
  refused,  \* history: ids for which the provider answered with an error
  spoiled,  \* history: keys of calls that met a fault
  faults    \* faults so far; bounds TLC

money == <<taken, charges, refunds>>
inbox == <<rows, counted>>
provider == <<accepted, reports>>
vars == <<chat, handler, money, record, provider, inbox, refused, spoiled,
          faults>>

Step == {"idle", "take", "dispatch", "await", "store", "count", "refund",
         "done"}
Stage == {"idle", "find", "create", "send", "accepted", "unsaved", "refused",
          "lost", "answered"}
Uncertain == {"dispatching", "reconciliation_required"}
Status == {"sent"} \cup Outcome

Rest == [pc |-> "idle", charged |-> FALSE, message |-> NoCall]
Over == [Rest EXCEPT !.pc = "done"]

TypeOK ==
  /\ chat \in [Call -> [pc : Step, charged : BOOLEAN,
                        message : Call \cup {NoCall}]]
  /\ handler \in [Call -> [pc : Stage, loaded : {"dispatching", "failed"},
                           message : Call \cup {NoCall}]]
  /\ taken \in [Key -> Nat]
  /\ charges \subseteq Key
  /\ refunds \subseteq Key
  /\ record \in [Id -> [status : {"none", "accepted", "failed"} \cup Uncertain,
                        message : Call \cup {NoCall}]]
  /\ accepted \subseteq Call
  /\ reports \in [Call -> SUBSET Outcome]
  /\ rows \in [Call -> {"none"} \cup Status]
  /\ counted \in Nat
  /\ refused \subseteq Id
  /\ spoiled \subseteq Key
  /\ faults \in 0 .. MaxFaults

Init ==
  /\ chat = [c \in Call |-> Rest]
  /\ handler = [c \in Call |-> [pc |-> "idle", loaded |-> "dispatching",
                                message |-> NoCall]]
  /\ taken = [k \in Key |-> 0]
  /\ charges = {} /\ refunds = {}
  /\ record = [i \in Id |-> [status |-> "none", message |-> NoCall]]
  /\ accepted = {}
  /\ reports = [c \in Call |-> {}]
  /\ rows = [c \in Call |-> "none"]
  /\ counted = 0
  /\ refused = {} /\ spoiled = {}
  /\ faults = 0

Faulty(c) ==
  /\ faults < MaxFaults
  /\ faults' = faults + 1
  /\ spoiled' = spoiled \cup {KeyOf[c]}
Sound == UNCHANGED <<spoiled, faults>>

At(c, step) == chat[c].pc = step
GoTo(c, step) == chat' = [chat EXCEPT ![c].pc = step]
End(c) == chat' = [chat EXCEPT ![c] = Over]
In(c, stage) == handler[c].pc = stage
Go(c, stage) == handler' = [handler EXCEPT ![c].pc = stage]

Stored == {m \in Call : rows[m] # "none"}

-----------------------------------------------------------------------------
(* chat-service: the charge. *)

\* A message that is not charged for: no template, or a price of zero.
Unbilled(c) ==
  /\ At(c, "idle")
  /\ GoTo(c, "dispatch")
  /\ Sound
  /\ UNCHANGED <<handler, money, record, provider, inbox, refused>>

\* deduct finds the transaction of the key: charged, as far as the caller is told.
chargeTemplateMessage(c) ==
  /\ At(c, "idle")
  /\ IF KeyOf[c] \in charges
     THEN chat' = [chat EXCEPT ![c].pc = "dispatch", ![c].charged = TRUE]
     ELSE GoTo(c, "take")
  /\ Sound
  /\ UNCHANGED <<handler, money, record, provider, inbox, refused>>

\* deduct saves the wallet, then creates the transaction, which the unique index
\* refuses if another call has created it: the answer is an error then.
deduct(c) ==
  LET k == KeyOf[c] IN
  /\ At(c, "take")
  /\ taken' = [taken EXCEPT ![k] = @ + 1]
  /\ charges' = charges \cup {k}
  /\ IF k \in charges
     THEN End(c)
     ELSE chat' = [chat EXCEPT ![c].pc = "dispatch", ![c].charged = TRUE]
  /\ Sound
  /\ UNCHANGED <<handler, refunds, record, provider, inbox, refused>>

\* The price is unknown, the balance too small, billing-service out of reach; or,
\* a fault, it did some or all of its work and the caller does not hear of it.
ChargeFails(c) ==
  LET k == KeyOf[c] IN
  /\ At(c, "take")
  /\ End(c)
  /\ \/ Sound /\ UNCHANGED <<taken, charges>>
     \/ /\ Faulty(c)
        /\ taken' = [taken EXCEPT ![k] = @ + 1]
        /\ charges' \in {charges, charges \cup {k}}
  /\ UNCHANGED <<handler, refunds, record, provider, inbox, refused>>

-----------------------------------------------------------------------------
(* chat-service: the dispatch and what follows. *)

POST(c) ==
  /\ At(c, "dispatch")
  /\ GoTo(c, "await")
  /\ Go(c, "find")
  /\ Sound
  /\ UNCHANGED <<money, record, provider, inbox, refused>>

\* Two bugs: a flag that is set before the answer is looked at, and a refund that
\* does not ask whether there was a charge.
MutantFail(c) == End(c)
MutantFailAlways(c) == GoTo(c, "refund")

\* An error before templateDispatchSucceeded is set: refund what was charged.
Fail(c) == IF chat[c].charged THEN GoTo(c, "refund") ELSE End(c)

\* The answer is a success only with a provider message id.
Answered(c) ==
  /\ At(c, "await")
  /\ In(c, "answered")
  /\ IF handler[c].message = NoCall
     THEN Fail(c)
     ELSE chat' = [chat EXCEPT ![c].pc = "store",
                               ![c].message = handler[c].message]
  /\ Sound
  /\ UNCHANGED <<handler, money, record, provider, inbox, refused>>

\* The caller stops waiting, or never reached service-provider.
TimeOut(c) ==
  /\ At(c, "await")
  /\ Fail(c)
  /\ \/ UNCHANGED handler
     \/ In(c, "find") /\ Go(c, "answered")
  /\ Sound
  /\ UNCHANGED <<money, record, provider, inbox, refused>>

\* The credit is applied once for its reference; a failure is only logged.
refundTemplateCharge(c) ==
  /\ At(c, "refund")
  /\ End(c)
  /\ \/ Sound /\ refunds' = refunds \cup {KeyOf[c]}
     \/ Faulty(c) /\ UNCHANGED refunds
  /\ UNCHANGED <<handler, taken, charges, record, provider, inbox, refused>>

\* Message.create; a unique index allows one for a provider message id, and the
\* call that comes second ends with an error, without a refund.
StoreMessage(c) ==
  LET m == chat[c].message IN
  /\ At(c, "store")
  /\ IF m \in Stored
     THEN End(c) /\ UNCHANGED rows
     ELSE GoTo(c, "count") /\ rows' = [rows EXCEPT ![m] = "sent"]
  /\ Sound
  /\ UNCHANGED <<handler, money, record, provider, counted, refused>>

applyOutboundConversationUpdate(c) ==
  /\ At(c, "count")
  /\ counted' = counted + 1
  /\ End(c)
  /\ Sound
  /\ UNCHANGED <<handler, money, record, provider, rows, refused>>

\* chat-service dies, or MongoDB fails it after the dispatch.
Crash(c) ==
  /\ ~At(c, "idle") /\ ~At(c, "done")
  /\ Faulty(c)
  /\ End(c)
  /\ UNCHANGED <<handler, money, record, provider, inbox, refused>>

\* A report that finds no message is dropped; any other overwrites the status.
updateStatus(m, s) ==
  /\ s \in reports[m]
  /\ reports' = [reports EXCEPT ![m] = @ \ {s}]
  /\ rows' = IF m \in Stored THEN [rows EXCEPT ![m] = s] ELSE rows
  /\ Sound
  /\ UNCHANGED <<chat, handler, money, record, accepted, counted, refused>>

-----------------------------------------------------------------------------
(* service-provider: MessagesService.send. *)

Answer(c, m) ==
  handler' = [handler EXCEPT ![c].pc = "answered", ![c].message = m]

\* The bug of a record that blocks nothing unless it needs reconciliation.
MutantFindDispatch(c) ==
  LET doc == record[IdOf[c]] IN
  /\ In(c, "find")
  /\ CASE doc.message # NoCall -> Answer(c, doc.message)
       [] doc.message = NoCall /\ doc.status = "reconciliation_required"
            -> Answer(c, NoCall)
       [] doc.message = NoCall /\ doc.status \in {"failed", "dispatching"}
            -> handler' = [handler EXCEPT ![c].pc = "send",
                                          ![c].loaded = doc.status]
       [] OTHER -> Go(c, "create")
  /\ Sound
  /\ UNCHANGED <<chat, money, record, provider, inbox, refused>>

\* A known provider id is the answer, an uncertain outcome an error; a failed
\* record is used again, as it is, and without a record there will be one.
FindDispatch(c) ==
  LET doc == record[IdOf[c]] IN
  /\ In(c, "find")
  /\ CASE doc.message # NoCall -> Answer(c, doc.message)
       [] doc.message = NoCall /\ doc.status \in Uncertain -> Answer(c, NoCall)
       [] doc.message = NoCall /\ doc.status = "failed"
            -> handler' = [handler EXCEPT ![c].pc = "send",
                                          ![c].loaded = "failed"]
       [] OTHER -> Go(c, "create")
  /\ Sound
  /\ UNCHANGED <<chat, money, record, provider, inbox, refused>>

\* The bug of leaving the status to its default in the schema.
MutantCreateDispatch(c) ==
  LET i == IdOf[c] IN
  /\ In(c, "create")
  /\ IF record[i].status = "none"
     THEN /\ record' = [record EXCEPT ![i].status = "accepted"]
          /\ Go(c, "send")
     ELSE Answer(c, NoCall) /\ UNCHANGED record
  /\ Sound
  /\ UNCHANGED <<chat, money, provider, inbox, refused>>

\* A unique index allows one record for an id.
CreateDispatch(c) ==
  LET i == IdOf[c] IN
  /\ In(c, "create")
  /\ IF record[i].status = "none"
     THEN /\ record' = [record EXCEPT ![i].status = "dispatching"]
          /\ Go(c, "send")
     ELSE Answer(c, NoCall) /\ UNCHANGED record
  /\ Sound
  /\ UNCHANGED <<chat, money, provider, inbox, refused>>

\* The provider takes the message, and says so or is not heard.
Accept(c) ==
  /\ In(c, "send")
  /\ accepted' = accepted \cup {c}
  /\ Go(c, "accepted") \/ Go(c, "lost")
  /\ Sound
  /\ UNCHANGED <<chat, money, record, reports, inbox, refused>>

\* The provider answers with an error, having sent nothing.
Refuse(c) ==
  /\ In(c, "send")
  /\ Go(c, "refused")
  /\ refused' = refused \cup {IdOf[c]}
  /\ Sound
  /\ UNCHANGED <<chat, money, record, provider, inbox>>

\* The provider is not reached.
NoAnswer(c) ==
  /\ In(c, "send")
  /\ Go(c, "lost")
  /\ Sound
  /\ UNCHANGED <<chat, money, record, provider, inbox, refused>>

\* The provider reports what becomes of a message it took; reports overtake one
\* another, and may overtake the answer.
Report(m, s) ==
  /\ m \in accepted
  /\ reports' = [reports EXCEPT ![m] = @ \cup {s}]
  /\ Sound
  /\ UNCHANGED <<chat, handler, money, record, accepted, inbox, refused>>

SaveAccepted(c) ==
  /\ In(c, "accepted")
  /\ record' = [record EXCEPT ![IdOf[c]] = [status |-> "accepted", message |-> c]]
  /\ Answer(c, c)
  /\ Sound
  /\ UNCHANGED <<chat, money, provider, inbox, refused>>

\* That save fails: the catch clause saves the id with another status.
SaveFails(c) ==
  /\ In(c, "accepted")
  /\ Go(c, "unsaved")
  /\ Faulty(c)
  /\ UNCHANGED <<chat, money, record, provider, inbox, refused>>

\* The catch clause.  save() writes a field only if it was changed: the failed
\* status of a record that was read as failed is not written again.
SaveError(c) ==
  LET i == IdOf[c] IN
  /\ \/ /\ In(c, "refused")
        /\ record' = IF handler[c].loaded = "failed" THEN record
                     ELSE [record EXCEPT ![i].status = "failed"]
     \/ /\ In(c, "lost")
        /\ record' = [record EXCEPT ![i].status = "reconciliation_required"]
     \/ /\ In(c, "unsaved")
        /\ record' = [record EXCEPT ![i] =
                        [status |-> "reconciliation_required", message |-> c]]
  /\ Answer(c, NoCall)
  /\ Sound
  /\ UNCHANGED <<chat, money, provider, inbox, refused>>

\* service-provider dies, or MongoDB fails it.
Die(c) ==
  /\ ~In(c, "idle") /\ ~In(c, "answered")
  /\ Faulty(c)
  /\ Answer(c, NoCall)
  /\ UNCHANGED <<chat, money, record, provider, inbox, refused>>

-----------------------------------------------------------------------------
Charge(c) ==
  Unbilled(c) \/ chargeTemplateMessage(c) \/ deduct(c) \/ ChargeFails(c)

Follow(c) ==
  \/ POST(c) \/ Answered(c) \/ TimeOut(c) \/ refundTemplateCharge(c)
  \/ StoreMessage(c) \/ applyOutboundConversationUpdate(c) \/ Crash(c)

Serve(c) ==
  \/ FindDispatch(c) \/ CreateDispatch(c)
  \/ Accept(c) \/ Refuse(c) \/ NoAnswer(c)
  \/ SaveAccepted(c) \/ SaveFails(c) \/ SaveError(c) \/ Die(c)

Next ==
  \/ \E c \in Call : Charge(c) \/ Follow(c) \/ Serve(c)
  \/ \E m \in Call, s \in Outcome : Report(m, s) \/ updateStatus(m, s)

Spec == Init /\ [][Next]_vars

-----------------------------------------------------------------------------
SentFor(i) == {m \in accepted : IdOf[m] = i}

\* Whatever is retried, overlaps or dies: one internalMessageId puts two messages
\* on the customer's phone only after the provider has refused one, which is what
\* lets the code use a record again.
SentOnce == \A i \in Id \ refused : Cardinality(SentFor(i)) <= 1

\* The money of a key goes back only if it was taken.
RefundsAreOwed == \A k \in refunds : taken[k] > 0

\* What is paid is sent or paid back: with no call of a key under way, and none
\* hit by a fault, a deduction has its message or its refund.
PaidMeansSent ==
  \A k \in Key \ spoiled :
    LET calls == {c \in Call : KeyOf[c] = k} IN
    /\ taken[k] > 0
    /\ \A c \in calls : At(c, "idle") \/ At(c, "done")
    => \/ k \in refunds
       \/ \E c \in calls : SentFor(IdOf[c]) # {}

Working(c) == handler[c].pc \in {"send", "accepted", "unsaved", "refused", "lost"}

\* The dispatch record can be trusted: nothing goes out before it exists, it names
\* a message only if the provider took that for its id, it says failed only after
\* a refusal, and it stays dispatching only while a handler works or after a fault.
RecordTells ==
  \A i \in Id :
    /\ record[i].status = "none" => SentFor(i) = {}
    /\ record[i].status = "accepted" => record[i].message # NoCall
    /\ record[i].message # NoCall => record[i].message \in SentFor(i)
    /\ record[i].status = "failed" => i \in refused
    /\ record[i].status = "dispatching"
       => \E c \in Call : IdOf[c] = i /\ (Working(c) \/ KeyOf[c] \in spoiled)

\* The inbox shows a message as sent only if the provider took it, and counts it
\* once at most, however many retries are answered with the same message.
InboxTruthful ==
  /\ Stored \subseteq accepted
  /\ counted <= Cardinality(Stored)

\* Seen from outside, whatever is retried, times out or dies: each step of a call or a
\* handler is one of a template message's delivery, or none.
Delivery == INSTANCE TemplateDelivery
              WITH Message <- Call, returned <- refunds, phone <- accepted,
                   shown <- Stored

ImplementsDelivery == Delivery!Spec
=============================================================================

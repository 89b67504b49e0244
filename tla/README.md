# ConnectSphere: a TLA+ model of its core

ConnectSphere is a WhatsApp CRM: a TypeScript monorepo of services that talk
over HTTP, Redis pub/sub and BullMQ queues, on one MongoDB. This directory holds
TLA+ modules of the parts where money and messages can go wrong by timing, TLC
configurations that check them on small instances, and TLAPS proofs of the most
important properties for instances of any size. Paths below are relative to the
repository.

    tlc -workers 2 -config LedgerWallets.cfg LedgerMC     # one run
    tlapm LedgerProofs.tla                                # one proof module

`PROJECT.json` lists the components, the runs, for each property a mutation of
the code that breaks it, the source lines of each definition, the hazards and
the findings.

## 1. The system

| component | state it keeps | operations | talks to | what is hard |
|---|---|---|---|---|
| billing-service: **wallet ledger** (`services/LedgerService.ts`) | a wallet document per workspace (available, parked, `processedExternalReferences`), the wallet transactions | credit, deduct, reserve and settle a campaign's budget, legacy migration | HTTP callers, the saga's events | read, then save without a version; two documents per operation and no transaction; retries |
| billing-service: **payments and plans** (`controllers/WalletController.ts`, `services/InvoiceService.ts`, `plan-activation-service.ts`) | orders, transactions, invoices and their counter, the plan of a workspace in three documents of two services | create order, checkout callback, Razorpay webhook, invoice, activate a plan, tell auth-service | Razorpay, ledger, auth-service by pub/sub | callback racing webhook; a crash between payment and activation |
| **checkout**: chat-service's bot (`services/checkout-bot-service.ts`) and billing-service's orders (`CommercePaymentService.ts`) | carts, stock, orders, payment links | one message: create or reset the cart, choose, order; link, payment | billing, Razorpay | two messages of a customer at once; order, stock and cart written one after the other |
| campaign-service: **campaign** (`services/CampaignService.ts`, `CampaignScheduler.ts`, `workers/CampaignWorker.ts`, `lib/campaign-queue.ts`) | campaign and batch documents, jobs in BullMQ, a lock in Redis | create, start, pause, resume, schedule, process a batch, recover | queue, Redis, billing, contact, chat | whole-document saves of stale reads; job ids that outlive jobs; a lock released by anyone |
| **budget saga** (`lib/events/EventBus.ts` of both services) | nothing of its own | reserve, reserved / refused, completed, settle | Redis pub/sub | lost, repeated and overlapping events |
| campaign-service: recipients, totals | `campaign_messages`, totals of the campaign | upsert, dispatch, count, follow delivery statuses | chat, Redis | retries of a batch; late statuses |
| **webhook-ingestor** (`index.ts`) | receipts, dead letters | take a delivery, publish, park, replay | provider, Redis pub/sub | redelivery during publication; a crash between two writes |
| **service-provider: webhook consumer** | ids of events seen | deduplicate, parse, stream | Redis pub/sub | recorded before streamed |
| **chat-service: inbound messages** (`services/eventBus.ts`) | messages, conversations | store, count unread, announce | contact-service, automation, sockets | overlapping handlers; a retry that meets its own traces |
| **outbound**: chat-service (`services/bsp-dispatch.ts`, `billing-client.ts`) and service-provider's dispatch (`messages.service.ts`) | messages, idempotency records | charge, dispatch, refund, delivery status | billing, provider | a timeout after which nobody knows; refunds of what was sent |
| chat-service: assignment, snoozing | conversations, agents' load | assign, snooze, reopen, close | sockets | limits checked before the write; reopening a stale read |
| automation-service: **rules, replies and flows** (`services/automation-service.ts`, `flow-executor.ts`, `workers/scheduler.ts`) | execution documents, the heartbeat and rule jobs in BullMQ | ask the stages about a message, dispatch due rules, walk a graph, log it | chat, queue | a replica or worker dying in between; partial failures reported to the next stage |
| contact-service: import | import jobs, contacts | start, progress, cancel | - | a cancellation overwritten; a crash in the middle |
| auth, websocket-gateway, api-gateway, portals, contracts, infrastructure | users and roles; sockets; a rate limit | CRUD, fan-out, proxying | everything | little that depends on an order of steps |

What makes the bold ones correct:

* *Ledger*: never a negative balance; a payment credited once; a retry of a
  finished request harmless; one transaction for each movement of money, each
  starting where the last one ended; to its callers, an atomic ledger.
* *Campaign and saga*: completed, and its budget settled, only if all of it was
  processed; no batch created twice; one launch at a time; nothing stays
  RUNNING, QUEUED or locked for ever; money reserved before anything is sent and
  settled when it is over.
* *Inbound*: the ingestor forgets no event it has answered; the inbox and the
  automation engine see a message once; no race loses one, only a fault does.
* *Outbound*: one dispatch id puts one message on a phone; what is paid is sent or
  paid back, and nothing else is paid back; the dispatch record can be trusted.
* *Payments*: a payment is booked and credited once whoever reports it; it moves each
  copy of the plan once, so a late report never takes back a plan bought since; nobody
  has a plan that was not paid; a recorded purchase is carried through, to the limits
  that are enforced; one invoice per transaction, no number twice.
* *Checkout*: one order per cart, which costs what is in it and closes it; stock
  goes down by what was ordered; paid orders, and only they, are paid and stay so.
* *Automation*: one stage answers a message; a flow ends on any graph and acts once
  at each node; its log tells what happened; a due rule runs, once per minute.

The forty hazards that matter most are in `PROJECT.json` at their lines, with the
properties that watch them; section 6 tells of others.

## 2. The modules

| module | models | used by |
|---|---|---|
| `LedgerRequests` | requests, their idempotency keys, and the arithmetic of one granted request | both ledgers |
| `Ledger` | `LedgerService` on MongoDB: one action per database operation | `LedgerMC`, `LedgerProofs` |
| `Campaign` | one campaign, its batches, jobs, lock and saga | `CampaignMC`, `CampaignProofs` |
| `Inbound` | messages to one conversation, from provider to inbox | `InboundMC`, `InboundProofs` |
| `Outbound` | template messages through charge, dispatch record, provider, refund and inbox | `OutboundMC`, `OutboundProofs` |
| `Payments` | the payments of a workspace: callbacks, webhooks, wallet, invoices, plans | `PaymentsMC`, `PaymentsProofs` |
| `Checkout` | customers buying one product in a chat | `CheckoutMC`, `CheckoutProofs` |
| `Automation` | messages through the stages of automation-service, rules on a schedule, and the executor of both | `AutomationMC`, `AutomationProofs` |
| `...MC` | constants and symmetry for TLC, and what documents and comments claim | the runs |
| `...Proofs` | theorems and proofs | - |
| `Sums` | facts about sums over finite sets | `CheckoutProofs` |

Six of them have an abstract specification, which says what the services promise
together to somebody who does not see requests, queues, retries or faults, and are shown
to implement it:

| abstract | promise | mapping, in |
|---|---|---|
| `AtomicLedger` | a request is applied whole, once for its key, or not at all | `Atomic`, `Ledger`: the keys of the calls that wrote |
| `CampaignRun` | batches are made once and for all; what was sent stays sent; completed, and settled, only when all of it was; money parked once | `Run`, `Campaign`: the documents, `finished`, `budget` |
| `MessagePipeline` | each service has an event only after the one before; an event is streamed once, a message stored once and announced when it was | `Pipeline`, `Inbound`: `handed`, `streamed`, `stored`, `announced` |
| `TemplateDelivery` | a second message for a dispatch id only after a refusal; a refund only of what was taken; the inbox shows, and counts once, what went out | `Delivery`, `Outbound`: `accepted`, `refunds`, `Stored` |
| `PaidWorkspace` | credited once and then booked; a payment moves each copy of the plan once at most; an invoice stands for what is booked, with a number of its own | `Desk`, `Payments`: `captured`, `txs`, `Used` (what a payment has had its chance to do) |
| `ShopOrders` | an order is placed once and never rewritten, its goods leave the stock once at most, it is booked when it was paid, for good | `Shop`, `Checkout`: the orders born, those whose goods are not about to be taken |

Definitions have the names of the functions they model where there is one.
Those that begin with `Mutant` are deliberately wrong versions; no action uses
them.

### Ledger

A call is a process. `pc[c]` is the database operation it makes next and
`snap[c]` the wallet as it was read. `credit` is an upsert, a conditional
`$inc`/`$addToSet`, and an upsert of the transaction; `deduct`,
`reserveCampaignBudget` and `settleCampaignBudget` look for the transaction, read
the wallet, `save()` it and create the transaction; `syncLegacyBalance` and
`getWallet` may create the wallet. `save()` is modelled as mongoose does it: it
sets the fields whose value was changed, from the document that was read, and
checks no version (the schemas set no `optimisticConcurrency`). Any call may die
between any two operations, which stands for a crash, a database error or a
caller that has gone; a retry is another call with the same request. The unique
indexes on `workspaceId` and `externalReferenceId` are modelled.

History variables record who changed a balance (`wrote`), which calls came after
the transaction of their own request (`late`), and which wallets have seen two
calls at once or a call that died between its save and its transaction
(`disturbed`). No action of a call reads them.

Two facts about callers are assumptions inside the properties that need them,
since the ledger does not enforce them: `SpendWithinReservation` (the handler of
CampaignCompletedEvent passes on what campaign-service computed) and
`OneUsePerReference` (payment ids, deduction keys and campaign ids do not
collide; callers choose the deduction keys).

### Campaign

An actor is a slot for a request, a scheduler pass or an event handler (`Proc`),
or the worker of one job (`Job`: `Start` and the batches). `doc[a]` is the status
the actor read and `Save` writes a status as `campaign.save()` does: not at all if
the field did not change in memory, otherwise over whatever is stored. An action
ends where the actor awaits something that others can interfere with.

* *Launch*: `acquireLock` ... `releaseLock` is `CampaignService.startCampaign`;
  the scheduler also enqueues again, and writes FAILED when the launch throws.
  `CreateBulk` is the bulk endpoint, which has no lock.
* *Queue*: `jobs` is the state of each job's record. `Added` is BullMQ's rule
  that an id it still has a record of is not added again. `FailAttempt`, `Crash`
  and `Forget` are attempts, stalled jobs and records that age out.
* *Worker*: `handleCampaignStart` and `handleBatchProcess`, neither of which looks
  at the campaign's status. The recipients of a batch are one step.
* *Saga*: events are sets, since handlers overlap and nothing keeps an order;
  each replica of the subscriber may hear an event, one, or nobody.
* *Scheduler*: the three passes of the maintenance job. `RecoverStalled` needs a
  campaign that nobody is working on, which stands for four hours without an
  update (and `Forget` for a day).

### Inbound

`Front` is a request to the ingestor (a delivery or the replay of one letter),
`Handler` a chat-service handler of one event. `receipts` and `letters` are the
ingestor's two collections, `seen` the provider service's, `stored` and `unread`
chat-service's. `Carries` says which message an event id stands for: the
provider may deliver one message under several ids, because the id is taken from
request headers first. The channels are sets of events that each replica may
hear. `Attempts` is 3 in the code; two is the least the model allows, as a handler
that loses the race for the conversation has to try again. `struck` is history: the
messages that met a fault (a lost publication, a crash, a database error) after the
ingestor had handed them over.

### Outbound

A `Call` is one request to send, or a retry of one. `KeyOf` is the key of its
charge and `IdOf` its dispatch id; two calls may share either, as the code lets
them. `chat[c]` is the next step of chat-service (`take`, `dispatch`, `await`,
`store`, `count`, `refund`), `handler[c]` that of the request it makes of
service-provider, which goes on when the caller has stopped waiting: `TimeOut`
leaves the handler where it is. `FindDispatch`, `CreateDispatch`, `SaveAccepted`
and `SaveError` are the operations on the record, whose unique index is modelled;
`Accept`, `Refuse` and `NoAnswer` are the provider. A deduction is the look for
the transaction and then the writes, and a refund is applied once for its
reference, as `Ledger` has it. Delivery statuses arrive in any order.

### Payments

A `Request` is a checkout callback or one delivery of a webhook, and `step[r]` what
it does next. Both credit a recharge or record and activate a purchase, so each
step of one may come between any two of the other. The plan is kept in the
workspace and the subscription of billing-service, which `Activate` writes in either
order (the code awaits both together), and in auth-service, which hears of it
over pub/sub. `Fail` is a crash or a failed write: a webhook is then delivered again,
and a write already sent may be done all the same. `spoiled` remembers which payments met a fault. Two facts of the code shape
the model: the portal's callback for a plan never has the workspace's details, so
its invoice fails after a number was drawn; and a webhook for a plan that was
deleted meanwhile publishes empty limits.

### Checkout

A `Worker` is a request that has a customer's message: it reads the cart (`Receive`),
acts on the state it read, and saves the fields it changed. `Choose` goes through
`createOrder`, `Deduct`, `Complete` and, for online payment, `PaymentLink` and
`SaveLink`; each is a call or a write of its own, and `Fail` may end the request before
any of them. `PayLink` and `markAsPaid` are the customer and the webhook. A cart has
one product: an amount is a number of pieces, so `total` and `items` tell whether
an order costs what it holds. `overlapped`, `early` and `spoiled` are history.

### Automation

A message goes from stage to stage: `Checkout`, `handleRuleBasedAutoReply`,
`handleEvent` for each workflow it triggers, `AnswerBot`, `AIIntent`. `exec[e]` is an
execution of `FlowExecutorService.execute`, for a message or for a job: `pc` is where it
stands and the other fields are its document and the nodes it has visited. The
graph is a constant, and where its logic nodes lead is left open. On the schedule's
side, `dispatch[d]` is a replica working on the heartbeat's job, `job` the state of
each rule's job, whose id `Stamp` makes of hour and minute as the code does, without
leading zeros. `ExecFails`, `AnswerLost`, `StageFails` and `Crash` are the faults; a job
whose worker dies is handed out once more, as BullMQ does with stalled jobs.
`offered`, `queued`, `sent` and `struck` are history.

## 3. The runs

Times are with two workers on a small machine.

| run | instance | shows | states |
|---|---|---|---|
| `ledger_wallets` | two wallets, all operations, four calls | `NoOverdraft`, `CreditedOnce`, `LateCallsChangeNothing` whatever interleaves or dies; `AppliedOnce`, `AuditTrail` and `ImplementsAtomicLedger` on undisturbed wallets | 0.8 M, 80 s |
| `ledger_deduct_once` | credit and one keyed deduction, three calls | *violated*: the same key takes money twice | 700 |
| `campaign_faults` | 2 batches, 1 slot, 1 request, 1 fault | `CompletedMeansFinished` | 3.4 M, 90-190 s |
| `campaign_races` | 1 batch, 2 slots, 2 requests | `LaunchesExclude`, `ImplementsRun` | 2.3 M, 90-130 s |
| `campaign_liveness` | 1 batch, 1 slot, 1 request, 1 fault | `RunningEnds`, `QueuedEnds` | 0.3 M, 120-180 s |
| `campaign_settled_when_done` | 1 batch, 2 attempts, 1 fault | *violated*: COMPLETED, and the budget parked for good | 48 k |
| `inbound_redelivered` | two messages, one of them under two ids; 2 deliveries and as many replays, 1 fault, 2 requests and 2 handlers at a time, 2 attempts | `Accounted`, `StreamedOnce`, `HandledOnce`, `LostOnlyByFault`, `ImplementsPipeline` | 0.7 M, 40 s |
| `outbound_sends` | three calls under one charge key, two with one dispatch id, 1 fault | `SentOnce`, `PaidMeansSent`, `RecordTells`, `ImplementsDelivery` | 1.2 M, 60 s |
| `payments_reports` | one purchase and one recharge, each with callback and webhook, 1 fault | `WalletIsBooked`, `PurchaseCompletes`, `InvoicesAreRight`, `ImplementsDesk`; `CapturedIsKept`, `PurchaseIsApplied` under fairness | 0.2 M, 180 s |
| `checkout_orders` | 1 customer, 2 requests at a time, 2 orders, 1 fault | `StockIsAccounted`, `OneOrder`, `ChargedForContents`, `OrderClosesCart`, `PaidIsConfirmed`, `ImplementsShop` | 0.4 M, 30 s |
| `automation_messages` | 1 message, 2 auto replies, 2 workflows on a graph of 5 nodes with a circle, 2 faults | `LogTells`, `ActsOnce`, `OneStageAnswers`; `MessagesEnd` under fairness | 0.5 M, 45 s |
| `automation_schedule` | a rule due every ten minutes, 1:10, 1:20 and 11:00, 2 replicas, 3 executions, 1 fault | `RunsOnce`, `DueRunsAreQueued`; `JobsEnd` under fairness | 0.3 M, 40-80 s |

`ledger_wallets` checks `TypeOK` too; it is proved for every module. `BatchesCreatedOnce`,
`RefundsAreOwed`, `PlansArePaid` and `PaidStaysPaid` are parts of what the abstract
specifications say, so no run checks them on their own; they are theorems.

Why these bounds are enough for what they are to show:

* *Ledger*. Two calls make every race of two stale reads; the third and fourth
  are the funding credit and a late retry. Two wallets are needed for a campaign
  or a key that leaks from one to the other. The theorems of section 5 lift the
  bounds.
* *Campaign*. Two batches make "last batch" different from "a batch"; two slots
  make two overlapping launches, or a user next to the scheduler; one fault at
  each possible place is the granularity at which the code's error paths differ.
  Faults and overlapping requests are in separate runs, as their product is out
  of reach; this limits the liveness properties, as the theorems of section 5 lift
  the bounds of the others. `MaxRequests` bounds users only: the scheduler and the
  queue run without bound.
* *Inbound*. Two deliveries and two replays are a first delivery, a redelivery, and the
  replay of each; two handlers with one message are the race, and the second message
  meets them in the conversation; one fault strikes each place where an event can be
  lost. Again proofs lift the bounds.
* *Outbound*. Two calls with one dispatch id are an overlap or a retry of it, the
  third shares only the charge, as send-template's retries do. A timeout, a refusal
  and a lost answer are not faults and happen to each. One delivery status will do,
  since no status makes a difference to another.
* *Payments*. Two requests of one payment make each race of callback and webhook;
  the second payment makes the race for an invoice number and for the wallet. A
  redelivery is the same request started again. One fault is what tells a crash
  that loses a purchase from one that a redelivery repairs.
* *Checkout*. Customers meet only in the stock, which the code never compares with
  what it takes, so one of them will do; two requests make each race of his
  messages, and two orders the one that comes twice.
* *Automation*. One message is enough, since messages share nothing but the queue;
  two of each make "the next one" happen. The graph has a text node that may fail
  without stopping the flow, one that may not, a template, and a logic node that leads
  back, on, or nowhere. 1:10 and
  11:00 are a pair of minutes that share a job id; 1:20 is a minute that does not.
  Executions are numbered and taken in order; a third is needed for the job that is
  run again next to one that is not.

Deadlock is checked for `Checkout`, whose customer can always write again. It is
not for the others: a wallet, a campaign, a payment or an execution with nothing left
to do really stops, and the bounds stop the rest.

## 4. Fairness

`Campaign`, `Payments` and `Automation` have liveness properties. In all three, a step
that is under way is weakly fair, as Node runs each continuation whose promise has
settled, and a call that never returns ends in a driver's timeout, that is in an
error. `FairSpec` of `Campaign` assumes:

* weak fairness of what is under way (`Serve`, `handleCampaignStart`,
  `handleBatchProcess`, `deadLetter`);
* weak fairness of `Take`: BullMQ hands a waiting job to a worker;
* strong fairness of `RecoverQueued` and `RecoverStalled`: the maintenance job
  runs every minute and finds the campaign whenever it qualifies. Strong, because
  in the model a pass needs a free slot of `Proc`, which in the code it does not;
* weak fairness of `LockExpires`: Redis drops a key whose time to live is over.

Users, faults, delivery of events, ageing of job records and scheduled launches
are not fair. `QueuedEnds` has an exception the code really makes: while the
queue keeps the failed record of a start job, no new one can be added.

`FairSpec` of `Payments`: what is under way, the arrival of a webhook (Razorpay
delivers it until it is answered 200) and auth-service's handler of an event it has
received. Nobody has to pay, no callback has to come, and events may be lost;
`CapturedIsKept` therefore asks for a webhook, and `PurchaseIsApplied` leaves out
purchases that met a fault.

`FairSpec` of `Automation`: the steps of an execution and of a request, the end of
a job, and BullMQ's handing out of a waiting one. The clock, the heartbeat and new
messages are not fair.

## 5. The proofs

They assume only the `ASSUME`s of the modules, one in each of `LedgerRequests`,
`Ledger`, `Campaign`, `Inbound`, `Outbound`, `Payments`, `Checkout` and `Automation`,
which say that distinguished values are outside their sets, that functions have
their domains and ranges, that the calls or messages are finitely many where they
are counted, that bounds are naturals, and that a handler of `Inbound` has more than
one attempt. TLC evaluates each of them on its runs.

The theorems that a detailed specification implements its abstract one all go the
same way: one lemma per action, or per group of actions, says which abstract step it
is, or that the abstract state stutters, from what the inductive invariants say of the
states it is taken in; the theorem puts them together. They hold at every step of
every behaviour, with no restriction to undisturbed parts, except `Ledger`'s.

**Ledger** (`LedgerProofs`). None of the properties is inductive; each layer rests
on the ones before:

1. `TypeInv` adds to `TypeOK` that a call at a step has a request whose operation
   has that step (`Asked`, `Fits`). Theorem `TypeCorrect`.
2. `OverdraftInv`: wallets are solvent, and a call about to save has checked the
   funds of a solvent snapshot (`Covered`). What it saves depends on the snapshot
   alone, field by field, so interleavings do not matter. `NeverOverdrawn`.
3. `CreditInv`: a call that credited has its reference in `processed` (`Marked`);
   a call that is about to record has written (`Located`). `CreditsHappenOnce`.
4. `LateInv`: a stored transaction is backed by a reference or a flag in the
   wallet (`Backed`), so a late call cannot reach a step that writes
   (`Harmless`). `LateCallsAreHarmless`.
5. `BookInv`, under `OneUsePerReference` and for undisturbed wallets: at most one
   call is in progress (`Alone`), so what it read is still there when it saves
   and its key has not appeared (`Steady`); the total is the newest transaction's
   unless one is just being stored (`Settled`); the transactions form a chain
   (`Chained`); a request that took effect has its transaction or is about to
   (`Effective`). `AuditTrailKept`, `KeyedOperationsApplyOnce`.
6. `LedgerImplementsAtomic`: the write of an undisturbed wallet is
   `AtomicLedger!Apply` (`EffectIsApply`), everything else a stutter or
   `Interfere`.

**Campaign** (`CampaignProofs`), for any number of batches, slots, attempts,
requests and faults at once, which the runs have to keep apart:

1. `Shape` adds to `TypeOK` that a worker is at an active job and that a job to be
   worked on has attempts left: without it a failed attempt could leave the range
   of `failures`. `TypeCorrect`.
2. `LockInv`: whoever is between `acquireLock` and `releaseLock` finds the key set
   unless it expired under a holder, so nobody else acquires it; and a bulk send,
   which takes no lock, never reaches a step that releases one (`BulkAside`).
   `LaunchesAreExclusive`.
3. `DoneInv`: batches appear all at once, and before the status, an actor or a job
   needs them (`NeedsBatches`); what is COMPLETED was processed, so an actor that
   has passed `isLastBatch` or the stall check for the end has seen all of them,
   and processed batches stay so. `CompletionMeansFinished`.
4. `CampaignImplementsRun`: every step is one of `CampaignRun`'s or a stutter. Two facts
   carry it: a batch that is being sent is marked PROCESSING (`SentInv`), so the worker's
   last write is the abstract `End` and nothing but the job of that batch undoes it; and
   `DoneInv`, by which whoever writes COMPLETED or settles has seen all batches sent. The
   map keeps what the code does not: a stale save may take COMPLETED back.
5. `BatchesAreCreatedOnce` follows from that: of the abstract steps only `Fill` makes a
   batch PENDING, and only when there is none. What matters is that no other path (a
   retry, the promotion by the scheduler, a second handler) resets one.

**Inbound** (`InboundProofs`). `IInv` is the conjunction of `Shape` (types, with
counters only known to be naturals), `AccountedInv` (a request that goes on to
write "published" or "replayed" has handed the event over), `StreamedInv` (an
event that is unseen or about to be streamed was not streamed), `HandledInv` (at
most one handler of a message is past its insertion, and the message was not
announced before) and `CountInv` (every count read or written is backed by as
many stored messages, and one that is to be incremented by one more). Theorems
`TypeCorrect`, `AnsweredEventsAccounted`, `EventsStreamOnce`,
`MessagesHandledOnce`.

`MessagesAreLostOnlyByFault` follows a message without faults from service to service
(`LossInv`): what was handed over is in flight or was seen (`HandedInv`); what was seen is
streaming, parsed, in a handler's hands or announced (`SeenInv`); what is stored was
announced or its handler is past the insertion (`StoredInv`), so that a second
handler which meets the unique index may give up. `TriesInv` is why the retry is
needed and why one is enough: a handler that loses the race to create the conversation
does so in its first attempt, and finds one in the second; one that loses the race to
insert the message leaves it with the winner. With a single attempt the theorem is
false. `InboundImplementsPipeline` needs `PipelineInv`: each service has an
event only after the one before, and what is parsed was streamed just once.

**Outbound** (`OutboundProofs`). `Shape` is types, and that a call about to store knows
its message. `MoneyInv`: a key with a transaction or a refund, and that of a call
which was charged, has had money taken. `DispatchInv`: what the requests of a
dispatch know of its record, what the record says, and that one of them at a time
is on its way to the provider unless a refusal came first. `PaidInv`: money taken
under a key without faults has its refund, its message, or a charged call on its way
to one of the two. `CountInv`: what is counted is stored and no longer to be counted.
Theorems `TypeCorrect`, `OneMessagePerDispatch`, `RefundsAreBacked`,
`PaidIsSentOrReturned`, `RecordsTell`, and `InboxIsTruthful`: the inbox shows only what
the provider took and counts it once. `OutboundImplementsDelivery` takes `Shape`,
`MoneyInv`, `DispatchInv` and `CountInv`: with `DispatchInv`, the provider's acceptance is an
abstract `Send` even after a timeout or a retry, and with `MoneyInv` each refund has a
deduction before it.

**Payments** (`PaymentsProofs`). `CheckoutOK`, `RequestOK`, `NumberOK` and `PlanOK` are
the types; `KnowledgeInv` says what a request at a step knows to be recorded.
`DriverInv`: of the requests of one purchase only one is behind the transaction, the
one that recorded it. `NumberInv`: a number drawn for an invoice is nobody else's.
`PurchaseInv`: a recorded purchase that met no fault is carried through or has its
driver at the right step. With `WalletInv`, `InvoiceInv` and `PlansInv` they give
`WalletAgreesWithLedger`, `InvoicesCorrect`, `NoUnpaidPlan`,
`RecordedPurchaseCompletes`. For `PaymentsImplementDesk` one more is needed, `OnceInv`: a
write of an activation that is still to come was not done before, by this request or
another, nor was its event published. That is why a payment moves each copy of the plan
once at most, and a report of it that comes again, after another plan was bought, changes
nothing.

**Checkout** (`CheckoutProofs`). `ShopOK`, `WorkerOK`, `OrderOK`, `TroubleOK` are the
types. `KnowledgeInv` ties what a request holds to the orders that exist. `AloneInv`:
a customer whose messages never overlapped has one request at most; `CopyInv`: what
that one has read is what the cart holds. From there `TotalsInv` (an order costs what
it holds), `OrderInv` (while a lone request may still order there is no order, and once
there is one, the cart is completed or on its way to it) and `CompletedInv`. Theorems
`OneOrderPerCart`, `OrdersCostTheirContents`, `OrdersCloseCarts`,
`PaidOrdersAreConfirmed`, `PaymentIsKept`.

`StockAccounted` is about a sum over a set of orders. `StockInv` adds that the orders are
finitely many and that a request about to take goods takes what it ordered; then a step
takes no goods, or those of one order, and the sum changes by what is in it. That a sum over
one more element is larger by that element is proved in `Sums` for every finite set, not by
induction, which would need an operator as a parameter, but with a smallest set for
which it fails, as strict inclusion of finite sets is well-founded.
`CheckoutImplementsShop` uses the same invariants: no two requests take the goods of one
order, and no save of a stale order changes what is in it or takes a payment back.

**Automation** (`AutomationProofs`), for any graph and any rules. `ClockOK`, `JobOK`,
`MessageOK`, `ExecOK` and `TroubleOK` are the types. `CallerInv` and `JobInv`: an
execution belongs to whoever began it, and a job that waits has none that may still
act, so that it runs once. `LogInv` follows the document and the catch clause step by
step. `ActsInv`: where an execution acted it has been, and it goes nowhere twice.
`WaitInv`, `RunInv`, `StruckInv`: a message waits for its own execution, and shares its
faults; `AnswerInv`: what may have answered a message, stage by stage. Theorems
`JobsRunOnce`, `LogsTell`, `CirclesEnd`, `AnsweredOnce`. `DueRunsQueued` rests on `QueueInv`
(whenever a rule was offered there is a job under that stamp, made for a minute with the
same stamp) and on `StampsCollide`, about all pairs of minutes of a day: their stamps,
hour and minute written without leading zeros, are equal only if the minutes are, or if
both are three digits that can be read in two ways. That is the whole of the collision
`DueRunsAreQueued` allows for.

Only model-checked: the liveness properties of `Campaign`, `Payments` and `Automation`
(`RunningEnds`, `QueuedEnds`, `CapturedIsKept`, `PurchaseIsApplied`, `MessagesEnd`,
`JobsEnd`), as liveness under fairness is out of this prover's reach. Every invariant and
every refinement that a passing run checks is a theorem. The *violated* runs are
counterexamples and need no proof.

## 6. Findings

Each is a run that TLC violates; the trace is the scenario.

1. *Deduction keys do not make concurrent or crashed deductions idempotent*
   (`DeductedOnce`; comment at `LedgerService.ts:83-85`). Two overlapping calls
   both take the money; so does a retry after a crash between save and create.
   `LateCallsChangeNothing` is what does hold.
2. *A failure right after the COMPLETED update leaves the budget parked*
   (`SettledWhenDone`; `CampaignWorker.ts:486-487`).

Behaviour that the models contain and that the properties therefore leave out or
allow for, without a run of its own:

* Reservations have the flaw of deductions (`LedgerService.ts:130-144`): one campaign's
  budget can be parked twice.
* Nothing waits for the reservation (`CampaignWorker.ts:170`): batches go out whether
  or not money was parked, where `docs/architecture/current-state.md:220` says
  otherwise.
* A campaign paused and resumed can be promoted to RUNNING with no job left
  (`CampaignScheduler.ts:61`, job records kept at `campaign-queue.ts:55`). The stall
  check ends it four hours later (`RunningEnds`). The loser of two launches writes
  FAILED over the winner's campaign (`CampaignScheduler.ts:32`).
* Two messages at once can count as one unread (`eventBus.ts:356`), and a retry drops
  what it should repeat (`eventBus.ts:236`, `docs/architecture/message-flow.md:26`).
* An event whose publication fails after its id was recorded is lost
  (`provider-event-producer.service.ts:57`). Delivery statuses overwrite each other in
  the order they arrive (chat-service `eventBus.ts:175`).
* A retry of send-template with the same key is charged once and sent twice, as its
  dispatch id is fresh (`bsp-dispatch.ts:45`); a dispatch that times out is refunded
  and may still go out (`chatController.ts:557`).
* After a crash behind the transaction of a purchase, nobody activates the plan: the
  callback meets a duplicate key, the webhook reads "Already processed"
  (`WalletController.ts:355`). A switch to the free plan changes one of three copies.
* A customer has one cart for ever (`CheckoutCart.ts:149`): after one order the bot
  does not serve him again, and an expired cart is reset at each message. Stock is
  compared when the quantity is named and taken later without a comparison, so it
  can go below zero (`checkout-bot-service.ts:140`, `:323`). A link saved after its
  payment takes the order back to payment_initiated (`CommercePaymentService.ts:63`).
* automation-service looks for `handled` one level too high in the checkout bot's answer
  (`automation-service.ts:58`), so all other stages are asked too: `OneStageAnswers`
  leaves the bot out. The answer bot is given a conversation id for a phone number:
  it sends nothing and counts as having answered (`answer-bot-service.ts:118`). A template
  that is refused is reported as sent (`internalController.ts:517`).
* 1:10 and 11:00 make the same job id (`scheduler.ts:64`): the later run of a rule is
  dropped while the earlier record is kept. `DueRunsAreQueued` allows for exactly this.

Seen while reading, outside the reach of the runs because they depend on rules
of MongoDB and Mongoose that are not in the repository:

* `CampaignWorker.ts:321-333` upserts a recipient with `status` under both
  `$setOnInsert` and `$set`, which MongoDB refuses. Every recipient then fails
  before its dispatch. This is why the recipients are not modelled: a model of
  what follows would describe states the program does not reach.
* In the catch clause the row has no `internalMessageId`, so the second failing
  contact of a workspace meets the unique index {workspace, internalMessageId},
  and parallel `save()`s of one batch document throw. `Campaign` covers the
  outcome: the batch job fails (`Error`, `FailAttempt`).
* Documents speak of Kafka; the code uses Redis pub/sub, which keeps nothing for
  an absent subscriber. `docs/architecture/message-flow.md:80` says that parsed
  events can be produced twice; `StreamedOnce` shows this is no longer so.

## 7. Not modelled, and assumptions

* `syncWorkspaceDoc` (a copy of the balances nobody in the ledger reads), the
  listing endpoints, signature checks, logging, formatting.
* Editing, deleting, retargeting and purging a campaign; two workers with one
  job (BullMQ's stalled-job check can give a job away while its worker lives).
* BullMQ takes the job ids the code gives it, colons included. Mongoose's own
  version check is covered by `Error` and `LaunchFails`.
* An event published again while it is still in flight collapses with the first.
  In `Campaign`, hearing it once more counts as a fault, to bound it.
* *Outbound*: assigning, reading, internal notes; `markRead`; the count of messages
  against a plan, which is compared before the send and counted elsewhere
  (`chatController.ts:491`).
* *Payments*: limits, GST, trials, amounts and the month in an invoice's number;
  cancelling a subscription, which no payment races. A client learns an order's id
  after the order was stored, so no callback comes before its order.
* *Checkout*: several products, the customer record in the CRM, and the merchant's updates
  of an order, which check the status each has read, or none
  (`commerceController.ts:216`).
* *Automation*: what a text matches, how answers are found, editing rules (a deleted
  rule that is toggled runs again, `AutomationEngineController.ts:113`), starting a
  rule by hand; `SafetyGuards`, `WorkflowService` and `AutoReplyService`, which nothing
  calls. A worker that loses its BullMQ lock while it lives is not modelled.
* Auto-assignment never takes effect: it passes 'system' where an id is needed, so
  each save fails and the caller swallows the error (`auto-assign-service.ts`).
* The import of contacts and the snoozing of conversations: each is one loop over
  single-document updates whose hazards (`PROJECT.json`) are plain from the code.
  Synchronising a Google sheet reads its position at the start and saves it at the
  end (`google-sheets-service.ts:231`).
* Agents reading a conversation (which resets the counter), attachments,
  statuses of sent messages; the second publisher of raw events,
  `channel.service.ts:78,103`. The `-dlq` channels have no subscriber.
* Workspace deletion: no route mounts its controller, so it never runs.
* Each component that is left out is in `PROJECT.json` with its reason: single-document
  CRUD, pure input and output, user interfaces, external APIs, or planned below.

## 8. Plan

Done: `LedgerRequests`, `Ledger`, `Campaign`, `Inbound`, `Outbound`, `Payments`,
`Checkout`, `Automation`, the abstract specifications of all but the last, and the proofs
of every safety property and refinement. What is left, most important first:

1. **CampaignLedger**: `Campaign` with `Ledger` as its bank, in place of the three
   values of `budget`, and an abstract specification of `Automation` (a message is
   answered by one stage at most, a due rule has one run).
2. **Orders**: the merchant's updates of an order next to the customer's payment.
3. **Inbox**: snoozing, closing and reopening by the worker and by new messages.
4. **Import**: progress, cancellation, crash.
5. **Rules**: editing and deleting a rule while it is due or runs; integrations.

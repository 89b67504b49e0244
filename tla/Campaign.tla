----------------------------- MODULE Campaign -----------------------------
(***************************************************************************)
(* The life of one campaign of campaign-service: its status document, its  *)
(* batches, its jobs in the BullMQ queue, and the budget saga it plays     *)
(* with billing-service over Redis pub/sub.                                *)
(*                                                                         *)
(* An actor is a request, a scheduler pass or an event handler (Proc), or  *)
(* the worker of an active job (Job).  It reads the campaign document,     *)
(* awaits other services, and saves the document later: save() writes the  *)
(* status only if the actor changed it, over whatever the database holds   *)
(* by then.  An action ends where an actor awaits something another actor  *)
(* can interfere with; operations in a row that commute with all the       *)
(* others' are one action, and a call whose only effect is its answer is   *)
(* part of the action that uses the answer.                                *)
(***************************************************************************)
EXTENDS Integers, FiniteSetsExt

CONSTANTS
  Proc,        \* requests, scheduler passes and event handlers at one time
  NumBatches,  \* batches the recipients fill
  Attempts,    \* attempts the queue makes at a job
  MaxRequests, \* bound on the users' requests
  MaxFaults    \* bound on faults, records that age out, events heard again

ASSUME CampaignAssumption ==
  /\ NumBatches \in Nat \ {0}
  /\ Attempts \in Nat \ {0}
  /\ MaxRequests \in Nat
  /\ MaxFaults \in Nat
  /\ Proc \cap (0 .. NumBatches) = {}

Start == 0
Batch == 1 .. NumBatches
Job == {Start} \cup Batch
Actor == Proc \cup Job

VARIABLES
  status,    \* the campaign's status
  batches,   \* batch -> status of its document, "absent" before its creation
  jobs,      \* job -> state of its record in the queue
  failures,  \* job -> failed attempts of its record
  locked,    \* the Redis key lock:campaign:exec:<id> exists
  budget,    \* what billing-service holds for the campaign
  billingEvents, campaignEvents, \* events in flight on the two channels
  pc,        \* actor -> its next step
  doc,       \* actor -> the status it has read
  kind,      \* actor -> what its task is: see Kind
  todo,      \* actor -> jobs it has still to add to or remove from the queue
  finished,  \* history: batches that were COMPLETED once
  expired,   \* history: the lock has expired under a holder
  requests,  \* requests users have made; bounds TLC
  faults     \* faults that have happened; bounds TLC

documents == <<status, batches, finished>>
queue == <<jobs, failures>>
lock == <<locked, expired>>
events == <<billingEvents, campaignEvents>>
actors == <<pc, doc, kind, todo>>
bounds == <<requests, faults>>
vars == <<documents, queue, lock, budget, events, actors, bounds>>

Status == {"none", "DRAFT", "SCHEDULED", "QUEUED", "RUNNING", "PAUSED",
           "COMPLETED", "FAILED"}

ToBilling == {"CampaignCreated", "CampaignCompleted"}
ToCampaign == {"BudgetReserved", "BudgetReservationFailed"}

\* user: POST /campaigns/:id/lifecycle; bulk: POST /campaigns/bulk; scheduled:
\* processScheduledCampaigns; other: everything else.
Kind == {"user", "bulk", "scheduled", "other"}

Launching == {"preflight", "saveQueued", "release"}

Step == Launching \cup
  {"idle", "lock", "enqueue", "enqueueAgain", "saveFailed",       \* launch
   "savePaused", "cancel",                                        \* pause
   "saveCompleted", "saveStalled",                                \* scheduler
   "validate", "find", "create", "handOut", "saveRunning",        \* start job
   "saveLaunchFailed",
   "send", "tally", "finalize", "settle",                         \* batch job
   "deadLetter"}                                                  \* any job

TypeOK ==
  /\ status \in Status
  /\ batches \in [Batch -> {"absent", "PENDING", "PROCESSING", "COMPLETED"}]
  /\ jobs \in [Job -> {"absent", "waiting", "active", "completed", "failed"}]
  /\ failures \in [Job -> 0 .. Attempts]
  /\ locked \in BOOLEAN
  /\ budget \in {"none", "parked", "settled"}
  /\ billingEvents \subseteq ToBilling
  /\ campaignEvents \subseteq ToCampaign
  /\ pc \in [Actor -> Step]
  /\ doc \in [Actor -> Status]
  /\ kind \in [Actor -> Kind]
  /\ todo \in [Actor -> SUBSET Job]
  /\ finished \subseteq Batch
  /\ expired \in BOOLEAN
  /\ requests \in 0 .. MaxRequests
  /\ faults \in 0 .. MaxFaults

Init ==
  /\ status = "none"
  /\ batches = [b \in Batch |-> "absent"]
  /\ jobs = [j \in Job |-> "absent"]
  /\ failures = [j \in Job |-> 0]
  /\ locked = FALSE
  /\ budget = "none"
  /\ billingEvents = {}
  /\ campaignEvents = {}
  /\ pc = [a \in Actor |-> "idle"]
  /\ doc = [a \in Actor |-> "none"]
  /\ kind = [a \in Actor |-> "other"]
  /\ todo = [a \in Actor |-> {}]
  /\ finished = {}
  /\ expired = FALSE
  /\ requests = 0
  /\ faults = 0

-----------------------------------------------------------------------------
(* Moves of an actor. *)

Goto(a, step) ==
  /\ pc' = [pc EXCEPT ![a] = step]
  /\ UNCHANGED <<doc, kind, todo>>

Read(a, step) ==
  /\ pc' = [pc EXCEPT ![a] = step]
  /\ doc' = [doc EXCEPT ![a] = status']
  /\ UNCHANGED <<kind, todo>>

Work(a, jobSet, step) ==
  /\ pc' = [pc EXCEPT ![a] = step]
  /\ todo' = [todo EXCEPT ![a] = jobSet]
  /\ UNCHANGED <<doc, kind>>

\* A task of the given kind begins with the campaign document s.
Begin(p, as, s, step) ==
  /\ p \in Proc /\ pc[p] = "idle"
  /\ pc' = [pc EXCEPT ![p] = step]
  /\ kind' = [kind EXCEPT ![p] = as]
  /\ doc' = [doc EXCEPT ![p] = s]
  /\ UNCHANGED todo

Leave(a) ==
  /\ pc' = [pc EXCEPT ![a] = "idle"]
  /\ doc' = [doc EXCEPT ![a] = "none"]
  /\ kind' = [kind EXCEPT ![a] = "other"]
  /\ todo' = [todo EXCEPT ![a] = {}]

\* A user's request, and something that goes wrong.
Requested ==
  /\ requests < MaxRequests
  /\ requests' = requests + 1
  /\ UNCHANGED faults

Faulty ==
  /\ faults < MaxFaults
  /\ faults' = faults + 1
  /\ UNCHANGED requests

\* Nobody is at work on the campaign.
Quiet == \A a \in Actor : pc[a] = "idle"

\* campaign.status = new; await campaign.save()
Save(a, new) == status' = IF doc[a] = new THEN status ELSE new

\* queue.add does nothing while the queue keeps a record with the job's id.
Added(js, j) == IF js[j] = "absent" THEN [js EXCEPT ![j] = "waiting"] ELSE js

-----------------------------------------------------------------------------
(* Creation of the campaign, in one insert. *)

Create ==
  /\ status = "none"
  /\ status' \in {"DRAFT", "SCHEDULED"}
  /\ UNCHANGED <<batches, finished, queue, lock, budget, events, actors, bounds>>

\* A bulk send goes on to enqueue the start job, without the execution lock.
CreateBulk(p) ==
  /\ status = "none"
  /\ status' \in {"DRAFT", "SCHEDULED"}
  /\ Begin(p, "bulk", status', "enqueue")
  /\ UNCHANGED <<batches, finished, queue, lock, budget, events, bounds>>

-----------------------------------------------------------------------------
(* startCampaign, for a user (start, resume) or for a due schedule. *)

canStart(s) == s \in {"DRAFT", "SCHEDULED", "PAUSED"}

RequestStart(p) ==
  /\ Requested
  /\ canStart(status)
  /\ Begin(p, "user", "none", "lock")
  /\ UNCHANGED <<documents, queue, lock, budget, events>>

processScheduled(p) ==
  /\ status = "SCHEDULED"
  /\ Begin(p, "scheduled", "none", "lock")
  /\ UNCHANGED <<documents, queue, lock, budget, events, bounds>>

\* A launch that fails is an error to the user; the scheduler, whose document
\* still says SCHEDULED, goes on to mark the campaign FAILED.
GiveUp(p) == IF kind[p] = "scheduled" THEN Goto(p, "saveFailed") ELSE Leave(p)

\* SET NX, and then the campaign is read.
acquireLock(p) ==
  /\ pc[p] = "lock"
  /\ ~locked
  /\ locked' = TRUE
  /\ UNCHANGED <<documents, queue, expired, budget, events, bounds>>
  /\ Read(p, "preflight")

\* Mutant: acquireLock inside the try block.
MutantLockTaken(p) ==
  /\ pc[p] = "lock"
  /\ locked
  /\ locked' = FALSE
  /\ GiveUp(p)
  /\ UNCHANGED <<documents, queue, expired, budget, events, bounds>>

LockTaken(p) ==
  /\ pc[p] = "lock"
  /\ locked
  /\ GiveUp(p)
  /\ UNCHANGED <<documents, queue, lock, budget, events, bounds>>

\* The finally clause: DEL of the key, whoever set it.
Abort(p) == locked' = FALSE /\ GiveUp(p)

\* INVALID_CAMPAIGN_STATUS
RejectStart(p) ==
  /\ pc[p] = "preflight"
  /\ ~canStart(doc[p])
  /\ Abort(p)
  /\ UNCHANGED <<documents, queue, expired, budget, events, bounds>>

\* An error of Redis, of the database or of the service asked.
LaunchFails(p) ==
  /\ Faulty
  /\ \/ pc[p] \in {"preflight", "saveQueued"} /\ kind[p] # "bulk" /\ Abort(p)
     \/ /\ \/ pc[p] \in {"lock", "enqueue", "enqueueAgain"}
           \/ pc[p] = "saveQueued" /\ kind[p] = "bulk"
        /\ GiveUp(p) /\ UNCHANGED locked
  /\ UNCHANGED <<documents, queue, expired, budget, events>>

RefusedByPreflight(p) ==
  /\ pc[p] = "preflight"
  /\ canStart(doc[p])
  /\ Save(p, "PAUSED")
  /\ Abort(p)
  /\ UNCHANGED <<batches, finished, queue, expired, budget, events, bounds>>

\* After a passed preflight; a scheduled bulk send is left to its delayed job.
enqueue(p) ==
  /\ \/ pc[p] = "preflight" /\ canStart(doc[p])
     \/ pc[p] = "enqueue"
  /\ jobs' = Added(jobs, Start)
  /\ IF kind[p] = "bulk" /\ doc[p] = "SCHEDULED" THEN Leave(p)
     ELSE Goto(p, "saveQueued")
  /\ UNCHANGED <<documents, failures, lock, budget, events, bounds>>

SaveQueued(p) ==
  /\ pc[p] = "saveQueued"
  /\ Save(p, "QUEUED")
  /\ IF kind[p] = "bulk" THEN Leave(p) ELSE Goto(p, "release")
  /\ UNCHANGED <<batches, finished, queue, lock, budget, events, bounds>>

releaseLock(p) ==
  /\ pc[p] = "release"
  /\ locked' = FALSE
  /\ IF kind[p] = "scheduled" THEN Goto(p, "enqueueAgain") ELSE Leave(p)
  /\ UNCHANGED <<documents, queue, expired, budget, events, bounds>>

\* After a scheduled launch, and for a campaign stuck in QUEUED.
EnqueueAgain(p) ==
  /\ pc[p] = "enqueueAgain"
  /\ jobs' = Added(jobs, Start)
  /\ Leave(p)
  /\ UNCHANGED <<documents, failures, lock, budget, events, bounds>>

SaveFailed(p) ==
  /\ pc[p] = "saveFailed"
  /\ status' = "FAILED"
  /\ Leave(p)
  /\ UNCHANGED <<batches, finished, queue, lock, budget, events, bounds>>

Holding(p) == pc[p] \in Launching /\ kind[p] # "bulk"

\* The key lives for LOCK_TTL_SECONDS: it outlives a holder that crashed, and
\* may end before one that is slow.
LockExpires ==
  /\ locked
  /\ ~ \E p \in Proc : Holding(p)
  /\ locked' = FALSE
  /\ UNCHANGED <<documents, queue, expired, budget, events, actors, bounds>>

LockExpiresEarly ==
  /\ Faulty
  /\ locked
  /\ \E p \in Proc : Holding(p)
  /\ locked' = FALSE
  /\ expired' = TRUE
  /\ UNCHANGED <<documents, queue, budget, events, actors>>

-----------------------------------------------------------------------------
(* Pausing by a user: save PAUSED, then cancelJobs. *)

RequestPause(p) ==
  /\ Requested
  /\ status \in {"RUNNING", "QUEUED"}
  /\ Begin(p, "user", status, "savePaused")
  /\ UNCHANGED <<documents, queue, lock, budget, events>>

\* cancelJobs lists the jobs that are waiting or delayed.  The start job has a
\* priority, and the queue lists it only while it is delayed.
SavePaused(p) ==
  /\ pc[p] = "savePaused"
  /\ Save(p, "PAUSED")
  /\ IF kind[p] # "user" THEN Leave(p)
     ELSE \E listed \in {{j \in Job : jobs[j] = "waiting"},
                         {b \in Batch : jobs[b] = "waiting"}} :
            IF listed = {} THEN Leave(p) ELSE Work(p, listed, "cancel")
  /\ UNCHANGED <<batches, finished, queue, lock, budget, events, bounds>>

CancelNext(p) ==
  LET j == Min(todo[p])  rest == todo[p] \ {j} IN
  /\ pc[p] = "cancel"
  /\ jobs[j] # "active"
  /\ jobs' = [jobs EXCEPT ![j] = "absent"]
  /\ failures' = [failures EXCEPT ![j] = 0]
  /\ IF rest = {} THEN Leave(p) ELSE Work(p, rest, "cancel")
  /\ UNCHANGED <<documents, lock, budget, events, bounds>>

\* Removing a job that a worker has taken throws, and ends the loop.
CancelFails(p) ==
  /\ pc[p] = "cancel"
  /\ jobs[Min(todo[p])] = "active"
  /\ Leave(p)
  /\ UNCHANGED <<documents, queue, lock, budget, events, bounds>>

-----------------------------------------------------------------------------
(* CampaignScheduler's recovery passes. *)

BatchesExist == \E b \in Batch : batches[b] # "absent"

\* Mutant: the campaign is promoted, but never enqueued again.
MutantRecoverQueued(p) ==
  /\ status = "QUEUED" /\ BatchesExist
  /\ Begin(p, "other", status, "saveRunning")
  /\ UNCHANGED <<documents, queue, lock, budget, events, bounds>>

RecoverQueued(p) ==
  /\ status = "QUEUED"
  /\ Begin(p, "other", status,
           IF BatchesExist THEN "saveRunning" ELSE "enqueueAgain")
  /\ UNCHANGED <<documents, queue, lock, budget, events, bounds>>

Pending == {b \in Batch : batches[b] \in {"PENDING", "PROCESSING"}}

\* Mutant: the stall check leaves a campaign without pending batches alone.
MutantRecoverStalled(p) ==
  /\ status = "RUNNING" /\ Pending # {}
  /\ Quiet
  /\ Begin(p, "other", status, "saveStalled")
  /\ UNCHANGED <<documents, queue, lock, budget, events, bounds>>

\* Nothing has touched the campaign for four hours.
RecoverStalled(p) ==
  /\ status = "RUNNING"
  /\ Quiet
  /\ Begin(p, "other", status,
           IF Pending = {} THEN "saveCompleted" ELSE "saveStalled")
  /\ UNCHANGED <<documents, queue, lock, budget, events, bounds>>

SaveStalled(p) ==
  /\ pc[p] \in {"saveCompleted", "saveStalled"}
  /\ Save(p, IF pc[p] = "saveCompleted" THEN "COMPLETED" ELSE "PAUSED")
  /\ Leave(p)
  /\ UNCHANGED <<batches, finished, queue, lock, budget, events, bounds>>

-----------------------------------------------------------------------------
(* The queue gives jobs to workers. *)

\* A start job reads the campaign; a batch job marks its batch started.
Take(j) ==
  /\ jobs[j] = "waiting" /\ pc[j] = "idle"
  /\ jobs' = [jobs EXCEPT ![j] = "active"]
  /\ UNCHANGED <<status, finished, failures, lock, budget, events, bounds>>
  /\ IF j = Start THEN Read(j, "validate") /\ UNCHANGED batches
     ELSE Goto(j, "send") /\ batches' = [batches EXCEPT ![j] = "PROCESSING"]

\* A job returns: its record stays, and with it its id.
Succeed(a) ==
  /\ Leave(a)
  /\ jobs' = IF a \in Job THEN [jobs EXCEPT ![a] = "completed"] ELSE jobs
  /\ UNCHANGED failures

\* An attempt fails: the job is delayed, or its record stays as failed.
FailAttempt(j) ==
  /\ failures' = [failures EXCEPT ![j] = @ + 1]
  /\ IF failures[j] + 1 >= Attempts
     THEN Goto(j, "deadLetter") /\ jobs' = [jobs EXCEPT ![j] = "failed"]
     ELSE Leave(j) /\ jobs' = [jobs EXCEPT ![j] = "waiting"]

\* Something is thrown.  A start job's catch clause looks at the campaign again;
\* an event handler's or a scheduler's error is logged.
LaunchPending == status' \in {"DRAFT", "SCHEDULED", "QUEUED"}

Throw(a) ==
  \/ a \in Proc /\ Leave(a) /\ UNCHANGED queue
  \/ a = Start /\ LaunchPending /\ Read(a, "saveLaunchFailed") /\ UNCHANGED queue
  \/ a \in Batch /\ FailAttempt(a)
  \/ a = Start /\ ~LaunchPending /\ FailAttempt(a)

\* Anything that is awaited may throw.
Error(a) ==
  /\ Faulty
  /\ pc[a] \in {"validate", "find", "create", "handOut", "saveRunning", "send",
               "tally", "finalize", "settle"}
  /\ UNCHANGED <<documents, lock, budget, events>>
  /\ Throw(a)

SaveLaunchFailed ==
  /\ pc[Start] = "saveLaunchFailed"
  /\ Save(Start, "PAUSED")
  /\ FailAttempt(Start)
  /\ UNCHANGED <<batches, finished, lock, budget, events, bounds>>

\* The status update follows a successful add to the dead-letter queue.
deadLetter(j) ==
  /\ pc[j] = "deadLetter"
  /\ status' \in {status, IF status = "COMPLETED" THEN status ELSE "FAILED"}
  /\ Leave(j)
  /\ UNCHANGED <<batches, finished, queue, lock, budget, events, bounds>>

\* removeOnComplete and removeOnFail: records age out after a day or a week.
Forget(j) ==
  /\ Faulty
  /\ jobs[j] \in {"completed", "failed"}
  /\ Quiet
  /\ jobs' = [jobs EXCEPT ![j] = "absent"]
  /\ failures' = [failures EXCEPT ![j] = 0]
  /\ UNCHANGED <<documents, lock, budget, events, actors>>

\* The process dies.  The queue gives a stalled job to another worker, or fails
\* it when it has stalled before.
Crash(a) ==
  /\ Faulty
  /\ pc[a] # "idle"
  /\ Leave(a)
  /\ IF a \in Job /\ pc[a] # "deadLetter"
     THEN \E js \in {"waiting", "failed"} : jobs' = [jobs EXCEPT ![a] = js]
     ELSE UNCHANGED jobs
  /\ UNCHANGED <<documents, failures, lock, budget, events>>

-----------------------------------------------------------------------------
(* handleCampaignStart.  It does not look at the campaign's status. *)

RefusedAtStart ==
  /\ pc[Start] = "validate"
  /\ Save(Start, "PAUSED")
  /\ Throw(Start)
  /\ UNCHANGED <<batches, finished, lock, budget, events, bounds>>

\* reserveCampaignBudget is a no-op for a campaign it has parked before.
Reserved(b) == IF b = "none" THEN "parked" ELSE b

\* billingPark and CampaignCreatedEvent.  A refusal is an answer that the client
\* does not look at, and an error is caught: both go on like a success.
ParkAndAnnounce ==
  /\ pc[Start] = "validate"
  /\ budget' \in {budget, Reserved(budget)}
  /\ billingEvents' = billingEvents \cup {"CampaignCreated"}
  /\ Goto(Start, "find")
  /\ UNCHANGED <<documents, queue, lock, campaignEvents, bounds>>

\* A campaign with batches is handed out again by the worker, and left alone by
\* the event handler.
FindBatches(a) ==
  /\ pc[a] = "find"
  /\ IF ~BatchesExist THEN Goto(a, "create")
     ELSE IF a = Start THEN Work(a, Batch, "handOut") ELSE Leave(a)
  /\ UNCHANGED <<documents, queue, lock, budget, events, bounds>>

\* Mutant: no unique index.
MutantCreateBatches(a) ==
  /\ pc[a] = "create"
  /\ batches' = [b \in Batch |-> "PENDING"]
  /\ Work(a, Batch, "handOut")
  /\ UNCHANGED <<status, finished, queue, lock, budget, events, bounds>>

\* (campaign, batchIndex) is unique: the second of two creations throws.
createBatches(a) ==
  /\ pc[a] = "create"
  /\ UNCHANGED <<status, finished, lock, budget, events, bounds>>
  /\ IF BatchesExist THEN Throw(a) /\ UNCHANGED batches
     ELSE /\ batches' = [b \in Batch |-> "PENDING"]
          /\ Work(a, Batch, "handOut")
          /\ UNCHANGED queue

enqueueBatch(a) ==
  LET b == Min(todo[a])  rest == todo[a] \ {b} IN
  /\ pc[a] = "handOut"
  /\ jobs' = Added(jobs, b)
  /\ Work(a, rest, IF rest = {} THEN "saveRunning" ELSE "handOut")
  /\ UNCHANGED <<documents, failures, lock, budget, events, bounds>>

\* Also the scheduler's promotion of a QUEUED campaign that has batches.
SaveRunning(a) ==
  /\ pc[a] = "saveRunning"
  /\ Save(a, "RUNNING")
  /\ Succeed(a)
  /\ UNCHANGED <<batches, finished, lock, budget, events, bounds>>

\* The realtime broadcast after the save throws.
SaveRunningFails ==
  /\ Faulty
  /\ pc[Start] = "saveRunning"
  /\ Save(Start, "RUNNING")
  /\ Throw(Start)
  /\ UNCHANGED <<batches, finished, lock, budget, events>>

-----------------------------------------------------------------------------
(* handleBatchProcess.  It does not look at the campaign's status either. *)

\* The batch's recipients are sent to one by one, then markCompleted.
SendBatch(b) ==
  /\ pc[b] = "send"
  /\ batches' = [batches EXCEPT ![b] = "COMPLETED"]
  /\ finished' = finished \cup {b}
  /\ Goto(b, "tally")
  /\ UNCHANGED <<status, queue, lock, budget, events, bounds>>

\* Mutant: a batch that has been started counts as processed.
MutantIsLastBatch == \A b \in Batch : batches[b] # "PENDING"

isLastBatch == \A b \in Batch : batches[b] = "COMPLETED"

getCampaignBatchStats(b) ==
  /\ pc[b] = "tally"
  /\ IF isLastBatch THEN Goto(b, "finalize") /\ UNCHANGED queue ELSE Succeed(b)
  /\ UNCHANGED <<documents, lock, budget, events, bounds>>

\* findOneAndUpdate {status: {$ne: COMPLETED}}
Finalize(b) ==
  /\ pc[b] = "finalize"
  /\ status' = "COMPLETED"
  /\ IF status # "COMPLETED" THEN Goto(b, "settle") /\ UNCHANGED queue
     ELSE Succeed(b)
  /\ UNCHANGED <<batches, finished, lock, budget, events, bounds>>

\* The prices are looked up first (Error); the realtime broadcast that follows
\* may throw.
AnnounceCompleted(b) ==
  /\ pc[b] = "settle"
  /\ billingEvents' = billingEvents \cup {"CampaignCompleted"}
  /\ Succeed(b) \/ FailAttempt(b)
  /\ UNCHANGED <<documents, lock, budget, campaignEvents, bounds>>

-----------------------------------------------------------------------------
(* The saga's events.  Pub/sub gives each to the replicas of its subscriber *)
(* that are connected, or to nobody; handlers overlap, so events take      *)
(* effect in any order.  An event published again while it is in flight is *)
(* delivered once.                                                         *)

\* An event is in flight until the last replica has heard it; that it stays
\* for one more counts as a fault, to keep their number within bounds.
Heard(channel, e) ==
  \/ channel' = channel \ {e} /\ UNCHANGED bounds
  \/ channel' = channel /\ Faulty

Lose ==
  /\ Faulty
  /\ \/ /\ \E e \in billingEvents : billingEvents' = billingEvents \ {e}
        /\ UNCHANGED campaignEvents
     \/ /\ \E e \in campaignEvents : campaignEvents' = campaignEvents \ {e}
        /\ UNCHANGED billingEvents
  /\ UNCHANGED <<documents, queue, lock, budget, actors>>

\* billing-service.  Any error is answered with a failure: the wallet lacks the
\* funds, the database fails, or the answer could not be published.
handleCampaignCreated ==
  /\ "CampaignCreated" \in billingEvents
  /\ Heard(billingEvents, "CampaignCreated")
  /\ \/ /\ budget' = Reserved(budget)
        /\ campaignEvents' = campaignEvents \cup {"BudgetReserved"}
     \/ /\ budget' \in {budget, Reserved(budget)}
        /\ campaignEvents' = campaignEvents \cup {"BudgetReservationFailed"}
  /\ UNCHANGED <<documents, queue, lock, actors>>

handleCampaignCompleted ==
  /\ "CampaignCompleted" \in billingEvents
  /\ Heard(billingEvents, "CampaignCompleted")
  /\ budget' = IF budget = "parked" THEN "settled" ELSE budget
  /\ UNCHANGED <<documents, queue, lock, campaignEvents, actors>>

\* campaign-service
handleBudgetReserved(p) ==
  /\ "BudgetReserved" \in campaignEvents
  /\ Heard(campaignEvents, "BudgetReserved")
  /\ Begin(p, "other", status, "find")
  /\ UNCHANGED <<documents, queue, lock, budget, billingEvents>>

handleBudgetReservationFailed(p) ==
  /\ "BudgetReservationFailed" \in campaignEvents
  /\ Heard(campaignEvents, "BudgetReservationFailed")
  /\ Begin(p, "other", status, "savePaused")
  /\ UNCHANGED <<documents, queue, lock, budget, billingEvents>>

-----------------------------------------------------------------------------

Launch(p) ==
  \/ acquireLock(p) \/ LockTaken(p) \/ RejectStart(p) \/ RefusedByPreflight(p)
  \/ enqueue(p) \/ SaveQueued(p) \/ releaseLock(p) \/ EnqueueAgain(p)
  \/ SaveFailed(p)

Pause(p) == SavePaused(p) \/ CancelNext(p) \/ CancelFails(p)

Fill(a) == FindBatches(a) \/ createBatches(a) \/ enqueueBatch(a) \/ SaveRunning(a)

\* What is under way goes on.
Serve(p) == Launch(p) \/ Pause(p) \/ SaveStalled(p) \/ Fill(p)

handleCampaignStart ==
  RefusedAtStart \/ ParkAndAnnounce \/ Fill(Start) \/ SaveLaunchFailed

handleBatchProcess(b) ==
  SendBatch(b) \/ getCampaignBatchStats(b) \/ Finalize(b) \/ AnnounceCompleted(b)

\* What begins.
User(p) == CreateBulk(p) \/ RequestStart(p) \/ RequestPause(p)

Scheduler(p) == processScheduled(p) \/ RecoverQueued(p) \/ RecoverStalled(p)

Consume(p) == handleBudgetReserved(p) \/ handleBudgetReservationFailed(p)

Billing == handleCampaignCreated \/ handleCampaignCompleted

\* What goes wrong, and the passing of days.
Fault ==
  \/ \E a \in Actor : Error(a) \/ Crash(a)
  \/ \E p \in Proc : LaunchFails(p)
  \/ \E j \in Job : Forget(j)
  \/ SaveRunningFails \/ Lose \/ LockExpiresEarly

Next ==
  \/ \E p \in Proc : Serve(p) \/ User(p) \/ Scheduler(p) \/ Consume(p)
  \/ \E j \in Job : Take(j) \/ deadLetter(j)
  \/ handleCampaignStart
  \/ \E b \in Batch : handleBatchProcess(b)
  \/ Billing \/ Create \/ LockExpires \/ Fault

Spec == Init /\ [][Next]_vars

-----------------------------------------------------------------------------
(* Correctness. *)

\* Whatever is retried, crashes, is paused or launched again meanwhile: a
\* campaign is COMPLETED, announces it, and has its budget settled, only after
\* each of its batches was completed.
CompletedMeansFinished ==
  \/ status = "COMPLETED"
  \/ budget = "settled"
  \/ "CampaignCompleted" \in billingEvents
  => finished = Batch

\* As long as the lock's time to live outlasts its holders, one launch at a
\* time is between acquireLock and releaseLock, which deletes a key it may not
\* own.
LaunchesExclude ==
  ~expired => \A p, q \in Proc : Holding(p) /\ Holding(q) => p = q

\* The worker and the BudgetReservedEvent handler both look for batches and
\* then create them; a batch that is being sent is never created again.
BatchesCreatedOnce ==
  [][\A b \in Batch :
       batches'[b] = "PENDING" => batches[b] \in {"absent", "PENDING"}]_vars

\* Seen from outside, whatever is launched, paused, recovered, retried or lost: each
\* step is one of CampaignRun's, or none.
Run == INSTANCE CampaignRun
         WITH sent <- finished, completed <- (status = "COMPLETED"), money <- budget

ImplementsRun == Run!Spec

\* Whatever interferes with it, a campaign does not stay RUNNING for ever: the
\* last batch or the stall check ends it.
RunningEnds == status = "RUNNING" ~> status # "RUNNING"

\* A campaign leaves QUEUED, unless a failed start job whose record the queue
\* still keeps stands in the way of another.
QueuedEnds == status = "QUEUED" ~> status # "QUEUED" \/ jobs[Start] = "failed"

-----------------------------------------------------------------------------
(* Fairness.  Node runs every continuation whose promise has settled,      *)
(* BullMQ hands waiting jobs to its workers, the maintenance job runs      *)
(* every minute, Redis drops the key.  Users, faults and events are not    *)
(* fair; the passes of the scheduler are strongly so, because a slot of    *)
(* Proc that is taken is no obstacle to the code.                          *)

Fairness ==
  /\ \A p \in Proc : WF_vars(Serve(p))
  /\ WF_vars(handleCampaignStart \/ deadLetter(Start))
  /\ \A b \in Batch : WF_vars(handleBatchProcess(b) \/ deadLetter(b))
  /\ \A j \in Job : WF_vars(Take(j))
  /\ SF_vars(\E p \in Proc : RecoverQueued(p))
  /\ SF_vars(\E p \in Proc : RecoverStalled(p))
  /\ WF_vars(LockExpires)

FairSpec == Spec /\ Fairness
=============================================================================

--------------------------- MODULE CampaignProofs ---------------------------
(***************************************************************************)
(* Proofs about Campaign, for any number of batches, requests, passes,     *)
(* handlers, attempts and faults.                                          *)
(***************************************************************************)
EXTENDS Campaign, TLAPS

\* Jobs are numbers, and no request is one of them.
LEMMA Apart ==
  /\ \A p \in Proc : p \in Actor /\ p \notin Job
  /\ \A b \in Batch : b \in Job /\ b # Start
  /\ Start \in Job
  /\ \A j \in Job : j \in Actor
BY CampaignAssumption DEF Job, Batch, Start, Actor

-----------------------------------------------------------------------------
(* The shape of the state.  A worker is at an active job until it has used  *)
(* up the job's attempts, and a job that is to be worked on has some left.  *)

ActorsOK ==
  /\ pc \in [Actor -> Step]
  /\ doc \in [Actor -> Status]
  /\ kind \in [Actor -> Kind]
  /\ todo \in [Actor -> SUBSET Job]

WorldOK ==
  /\ status \in Status
  /\ batches \in [Batch -> {"absent", "PENDING", "PROCESSING", "COMPLETED"}]
  /\ finished \subseteq Batch
  /\ locked \in BOOLEAN /\ expired \in BOOLEAN
  /\ budget \in {"none", "parked", "settled"}
  /\ billingEvents \subseteq ToBilling
  /\ campaignEvents \subseteq ToCampaign
  /\ requests \in 0 .. MaxRequests
  /\ faults \in 0 .. MaxFaults

QueueOK ==
  /\ jobs \in [Job -> {"absent", "waiting", "active", "completed", "failed"}]
  /\ failures \in [Job -> 0 .. Attempts]
  /\ \A j \in Job :
       /\ pc[j] \notin {"idle", "deadLetter"} => jobs[j] = "active"
       /\ jobs[j] \in {"waiting", "active"} => failures[j] < Attempts
       /\ jobs[j] = "absent" => failures[j] = 0

Shape == WorldOK /\ ActorsOK /\ QueueOK

LEMMA ShapeInit == Init => Shape
<1> SUFFICES ASSUME Init PROVE Shape
  OBVIOUS
<1>1. WorldOK
  <2>1. requests \in 0 .. MaxRequests /\ faults \in 0 .. MaxFaults
    BY CampaignAssumption DEF Init
  <2> QED
    BY <2>1 DEF Init, WorldOK, Status
<1>2. ActorsOK
  <2>1. "idle" \in Step /\ "none" \in Status /\ "other" \in Kind /\ {} \in SUBSET Job
    BY DEF Step, Status, Kind
  <2> QED
    BY <2>1 DEF Init, ActorsOK
<1>3. QueueOK
  BY CampaignAssumption, Apart DEF Init, QueueOK
<1> QED
  BY <1>1, <1>2, <1>3 DEF Shape

\* An actor moves.
Moves(a) ==
  \/ \E s \in Step : Goto(a, s)
  \/ \E s \in Step : Read(a, s)
  \/ \E s \in Step, js \in SUBSET Job : Work(a, js, s)
  \/ \E k \in Kind, d \in Status, s \in Step : Begin(a, k, d, s)
  \/ Leave(a)

Others(a) == \A b \in Actor \ {a} : pc'[b] = pc[b] /\ kind'[b] = kind[b]

LEMMA MovesOK ==
  ASSUME ActorsOK, status' \in Status, NEW a \in Actor, Moves(a)
  PROVE  ActorsOK' /\ Others(a)
<1>1. CASE \E s \in Step : Goto(a, s)
  BY <1>1 DEF ActorsOK, Others, Goto
<1>2. CASE \E s \in Step : Read(a, s)
  BY <1>2 DEF ActorsOK, Others, Read
<1>3. CASE \E s \in Step, js \in SUBSET Job : Work(a, js, s)
  BY <1>3 DEF ActorsOK, Others, Work
<1>4. CASE \E k \in Kind, d \in Status, s \in Step : Begin(a, k, d, s)
  BY <1>4 DEF ActorsOK, Others, Begin
<1>5. CASE Leave(a)
  BY <1>5 DEF ActorsOK, Others, Leave, Step, Status, Kind
<1> QED
  BY <1>1, <1>2, <1>3, <1>4, <1>5 DEF Moves

\* An actor that moves, and perhaps adds a job, keeps the shape.  (A worker is
\* at its active job before, or away from it after.)
LEMMA ActorMoves ==
  ASSUME Shape, NEW a \in Actor, Moves(a), WorldOK',
         a \in Job => \/ pc[a] \notin {"idle", "deadLetter"}
                      \/ pc'[a] \in {"idle", "deadLetter"},
         \/ UNCHANGED queue
         \/ \E j : jobs' = Added(jobs, j) /\ UNCHANGED failures
  PROVE  Shape'
<1>1. ActorsOK' /\ Others(a)
  BY MovesOK DEF Shape, WorldOK
<1>2. \A j \in Job :
        pc'[j] \notin {"idle", "deadLetter"} => pc[j] \notin {"idle", "deadLetter"}
  BY <1>1, Apart DEF Others
<1>3. CASE UNCHANGED queue
  BY <1>1, <1>2, <1>3 DEF Shape, QueueOK, queue
<1>4. ASSUME NEW j, jobs' = Added(jobs, j), UNCHANGED failures
      PROVE  QueueOK'
  <2>1. 0 < Attempts
    BY CampaignAssumption
  <2>2. /\ \A i \in Job : \/ jobs'[i] = jobs[i]
                          \/ jobs[i] = "absent" /\ jobs'[i] = "waiting"
        /\ jobs' \in [Job -> {"absent", "waiting", "active", "completed", "failed"}]
    <3>1. jobs \in [Job -> {"absent", "waiting", "active", "completed", "failed"}]
      BY DEF Shape, QueueOK
    <3>2. \/ jobs' = jobs
          \/ jobs[j] = "absent" /\ jobs' = [jobs EXCEPT ![j] = "waiting"]
      BY <1>4 DEF Added
    <3> QED
      BY <3>1, <3>2
  <2>3. ASSUME NEW i \in Job
        PROVE  /\ pc'[i] \notin {"idle", "deadLetter"} => jobs'[i] = "active"
               /\ jobs'[i] \in {"waiting", "active"} => failures'[i] < Attempts
               /\ jobs'[i] = "absent" => failures'[i] = 0
    <3>1. CASE jobs'[i] = jobs[i]
      BY <1>2, <1>4, <3>1 DEF Shape, QueueOK
    <3>2. CASE jobs[i] = "absent" /\ jobs'[i] = "waiting"
      BY <1>2, <1>4, <2>1, <3>2 DEF Shape, QueueOK
    <3> QED
      BY <2>2, <3>1, <3>2
  <2> QED
    BY <1>4, <2>2, <2>3 DEF Shape, QueueOK
<1> QED
  BY <1>1, <1>3, <1>4 DEF Shape

LEMMA LaunchKeepsShape ==
  ASSUME Shape, NEW p \in Proc, Launch(p)
  PROVE  Shape'
<1> USE Apart
    DEF Moves, WorldOK, Status, Step, Launching, documents, queue, lock, events,
        bounds, GiveUp, Save, Abort
<1>1. CASE acquireLock(p)
  BY <1>1, ActorMoves DEF acquireLock, Shape
<1>2. CASE LockTaken(p)
  BY <1>2, ActorMoves DEF LockTaken, Shape
<1>3. CASE RejectStart(p)
  BY <1>3, ActorMoves DEF RejectStart, Shape
<1>4. CASE RefusedByPreflight(p)
  BY <1>4, ActorMoves DEF RefusedByPreflight, Shape
<1>5. CASE enqueue(p)
  BY <1>5, ActorMoves DEF enqueue, Shape
<1>6. CASE SaveQueued(p)
  BY <1>6, ActorMoves DEF SaveQueued, Shape
<1>7. CASE releaseLock(p)
  BY <1>7, ActorMoves DEF releaseLock, Shape
<1>8. CASE EnqueueAgain(p)
  BY <1>8, ActorMoves DEF EnqueueAgain, Shape
<1>9. CASE SaveFailed(p)
  BY <1>9, ActorMoves DEF SaveFailed, Shape
<1> QED
  BY <1>1, <1>2, <1>3, <1>4, <1>5, <1>6, <1>7, <1>8, <1>9 DEF Launch

LEMMA PauseKeepsShape ==
  ASSUME Shape, NEW p \in Proc, Pause(p)
  PROVE  Shape'
<1> USE Apart
    DEF Moves, WorldOK, Status, Step, Launching, documents, queue, lock, events,
        bounds, Save
<1>1. CASE SavePaused(p)
  BY <1>1, ActorMoves DEF SavePaused, Shape
<1>2. CASE CancelNext(p)
  <2> DEFINE j == Min(todo[p])
             rest == todo[p] \ {j}
  <2>1. rest \in SUBSET Job
    BY <1>2 DEF Shape, ActorsOK
  <2>2. Moves(p) /\ WorldOK'
    BY <1>2, <2>1 DEF CancelNext, Shape
  <2>3. ActorsOK' /\ \A i \in Job : pc'[i] = pc[i]
    BY <2>2, MovesOK DEF Shape, Others
  <2>4. /\ jobs[j] # "active"
        /\ jobs' = [jobs EXCEPT ![j] = "absent"]
        /\ failures' = [failures EXCEPT ![j] = 0]
    BY <1>2 DEF CancelNext
  <2>5. 0 \in 0 .. Attempts
    BY CampaignAssumption
  <2>6. QueueOK'
    BY <2>3, <2>4, <2>5 DEF Shape, QueueOK
  <2> QED
    BY <2>2, <2>3, <2>6 DEF Shape
<1>3. CASE CancelFails(p)
  BY <1>3, ActorMoves DEF CancelFails, Shape
<1> QED
  BY <1>1, <1>2, <1>3 DEF Pause

LEMMA BeginningsKeepShape ==
  ASSUME Shape, NEW p \in Proc, User(p) \/ Scheduler(p) \/ SaveStalled(p) \/ Consume(p)
  PROVE  Shape'
<1> USE Apart
    DEF Moves, WorldOK, Status, Kind, Step, Launching, documents, queue, lock,
        events, bounds, Save, Requested
<1>1. CASE CreateBulk(p)
  BY <1>1, ActorMoves DEF CreateBulk, Shape
<1>2. CASE RequestStart(p)
  BY <1>2, ActorMoves, CampaignAssumption DEF RequestStart, Shape
<1>3. CASE RequestPause(p)
  BY <1>3, ActorMoves, CampaignAssumption DEF RequestPause, Shape
<1>4. CASE processScheduled(p)
  BY <1>4, ActorMoves DEF processScheduled, Shape
<1>5. CASE RecoverQueued(p)
  BY <1>5, ActorMoves DEF RecoverQueued, Shape
<1>6. CASE RecoverStalled(p)
  BY <1>6, ActorMoves DEF RecoverStalled, Shape
<1>7. CASE SaveStalled(p)
  BY <1>7, ActorMoves DEF SaveStalled, Shape
<1>8. CASE handleBudgetReserved(p)
  BY <1>8, ActorMoves, CampaignAssumption
  DEF handleBudgetReserved, Shape, Heard, Faulty
<1>9. CASE handleBudgetReservationFailed(p)
  BY <1>9, ActorMoves, CampaignAssumption
  DEF handleBudgetReservationFailed, Shape, Heard, Faulty
<1> QED
  BY <1>1, <1>2, <1>3, <1>4, <1>5, <1>6, <1>7, <1>8, <1>9
  DEF User, Scheduler, Consume

\* What becomes of an attempt at a job.
LEMMA SucceedOK ==
  ASSUME Shape, NEW a \in Actor, Succeed(a), WorldOK'
  PROVE  Shape'
<1>1. ActorsOK' /\ Others(a) /\ (a \in Job => pc'[a] = "idle")
  BY MovesOK, Apart DEF Shape, WorldOK, Succeed, Moves, Leave, ActorsOK
<1>2. QueueOK'
  BY <1>1, Apart DEF Shape, QueueOK, Others, Succeed
<1> QED
  BY <1>1, <1>2 DEF Shape

LEMMA FailAttemptOK ==
  ASSUME Shape, NEW j \in Job, pc[j] \notin {"idle", "deadLetter"},
         FailAttempt(j), WorldOK'
  PROVE  Shape'
<1> USE Apart
<1>1. Moves(j) /\ pc'[j] \in {"idle", "deadLetter"}
  BY DEF Shape, ActorsOK, FailAttempt, Moves, Leave, Goto, Step
<1>2. ActorsOK' /\ Others(j)
  BY <1>1, MovesOK DEF Shape, WorldOK
<1>3. failures[j] \in Nat /\ failures[j] < Attempts /\ Attempts \in Nat
  BY CampaignAssumption DEF Shape, QueueOK
<1>4. failures' \in [Job -> 0 .. Attempts]
  BY <1>3 DEF Shape, QueueOK, FailAttempt
<1>5. failures'[j] = failures[j] + 1
  BY DEF Shape, QueueOK, FailAttempt
<1>6. \/ jobs' = [jobs EXCEPT ![j] = "failed"]
      \/ jobs' = [jobs EXCEPT ![j] = "waiting"] /\ failures'[j] < Attempts
  BY <1>3, <1>5 DEF FailAttempt
<1>7. \A i \in Job \ {j} : failures'[i] = failures[i] /\ jobs'[i] = jobs[i]
                           /\ pc'[i] = pc[i]
  BY <1>2, <1>6 DEF Shape, QueueOK, FailAttempt, Others
<1>8. QueueOK'
  BY <1>1, <1>4, <1>6, <1>7 DEF Shape, QueueOK
<1> QED
  BY <1>2, <1>8 DEF Shape

LEMMA ThrowOK ==
  ASSUME Shape, NEW a \in Actor, pc[a] \notin {"idle", "deadLetter"},
         Throw(a), WorldOK'
  PROVE  Shape'
<1> USE Apart
<1>1. CASE a \in Proc /\ Leave(a) /\ UNCHANGED queue
  BY <1>1, ActorMoves DEF Moves
<1>2. CASE a = Start /\ Read(a, "saveLaunchFailed") /\ UNCHANGED queue
  BY <1>2, ActorMoves DEF Moves, Step
<1>3. CASE a \in Job /\ FailAttempt(a)
  BY <1>3, FailAttemptOK
<1> QED
  BY <1>1, <1>2, <1>3 DEF Throw

LEMMA FillKeepsShape ==
  ASSUME Shape, NEW a \in Proc \cup {Start}, Fill(a)
  PROVE  Shape'
<1> USE Apart
    DEF WorldOK, Status, Step, documents, queue, lock, events, bounds, Save
<1>1. CASE FindBatches(a)
  <2>1. Batch \in SUBSET Job
    OBVIOUS
  <2> QED
    BY <1>1, <2>1, ActorMoves DEF FindBatches, Shape, Moves
<1>2. CASE createBatches(a)
  <2>1. WorldOK'
    BY <1>2 DEF createBatches, Shape
  <2>2. CASE BatchesExist
    BY <1>2, <2>1, <2>2, ThrowOK DEF createBatches
  <2>3. CASE ~BatchesExist
    <3>1. Batch \in SUBSET Job
      OBVIOUS
    <3> QED
      BY <1>2, <2>1, <2>3, <3>1, ActorMoves DEF createBatches, Moves
  <2> QED
    BY <2>2, <2>3
<1>3. CASE enqueueBatch(a)
  <2>1. todo[a] \ {Min(todo[a])} \in SUBSET Job
    BY DEF Shape, ActorsOK
  <2>2. WorldOK'
    BY <1>3 DEF enqueueBatch, Shape
  <2>3. Moves(a)
    BY <1>3, <2>1 DEF enqueueBatch, Moves
  <2> QED
    BY <1>3, <2>2, <2>3, ActorMoves DEF enqueueBatch
<1>4. CASE SaveRunning(a)
  <2>1. WorldOK'
    BY <1>4 DEF SaveRunning, Shape
  <2> QED
    BY <1>4, <2>1, SucceedOK DEF SaveRunning
<1> QED
  BY <1>1, <1>2, <1>3, <1>4 DEF Fill

LEMMA WorkersKeepShape ==
  ASSUME Shape,
         \/ handleCampaignStart
         \/ \E b \in Batch : handleBatchProcess(b)
         \/ \E j \in Job : Take(j) \/ deadLetter(j)
  PROVE  Shape'
<1> USE Apart
    DEF WorldOK, Status, Step, documents, queue, lock, events, bounds, Save
<1>1. CASE RefusedAtStart
  <2>1. WorldOK'
    BY <1>1 DEF RefusedAtStart, Shape
  <2> QED
    BY <1>1, <2>1, ThrowOK DEF RefusedAtStart
<1>2. CASE ParkAndAnnounce
  <2>1. WorldOK'
    BY <1>2 DEF ParkAndAnnounce, Shape, Reserved, ToBilling
  <2> QED
    BY <1>2, <2>1, ActorMoves DEF ParkAndAnnounce, Moves
<1>3. CASE SaveLaunchFailed
  <2>1. WorldOK'
    BY <1>3 DEF SaveLaunchFailed, Shape
  <2> QED
    BY <1>3, <2>1, FailAttemptOK DEF SaveLaunchFailed
<1>4. ASSUME NEW b \in Batch, SendBatch(b) PROVE Shape'
  <2>1. WorldOK'
    BY <1>4 DEF SendBatch, Shape
  <2> QED
    BY <1>4, <2>1, ActorMoves DEF SendBatch, Moves
<1>5. ASSUME NEW b \in Batch, getCampaignBatchStats(b) PROVE Shape'
  <2>1. WorldOK'
    BY <1>5 DEF getCampaignBatchStats, Shape
  <2> QED
    BY <1>5, <2>1, ActorMoves, SucceedOK DEF getCampaignBatchStats, Moves
<1>6. ASSUME NEW b \in Batch, Finalize(b) PROVE Shape'
  <2>1. WorldOK'
    BY <1>6 DEF Finalize, Shape
  <2> QED
    BY <1>6, <2>1, ActorMoves, SucceedOK DEF Finalize, Moves
<1>7. ASSUME NEW b \in Batch, AnnounceCompleted(b) PROVE Shape'
  <2>1. WorldOK'
    BY <1>7 DEF AnnounceCompleted, Shape, ToBilling
  <2> QED
    BY <1>7, <2>1, FailAttemptOK, SucceedOK DEF AnnounceCompleted
<1>8. ASSUME NEW j \in Job, Take(j) PROVE Shape'
  <2>1. WorldOK'
    BY <1>8 DEF Take, Shape, Job
  <2>2. Moves(j)
    BY <1>8 DEF Take, Moves
  <2>3. ActorsOK' /\ Others(j)
    BY <2>1, <2>2, MovesOK DEF Shape
  <2>4. QueueOK'
    BY <1>8, <2>3 DEF Take, Shape, QueueOK, Others
  <2> QED
    BY <2>1, <2>3, <2>4 DEF Shape
<1>9. ASSUME NEW j \in Job, deadLetter(j) PROVE Shape'
  <2>1. WorldOK'
    BY <1>9 DEF deadLetter, Shape
  <2> QED
    BY <1>9, <2>1, ActorMoves DEF deadLetter, Moves, Leave, Shape, ActorsOK
<1> QED
  BY <1>1, <1>2, <1>3, <1>4, <1>5, <1>6, <1>7, <1>8, <1>9, FillKeepsShape
  DEF handleCampaignStart, handleBatchProcess

LEMMA FaultKeepsShape ==
  ASSUME Shape, Fault
  PROVE  Shape'
<1> USE Apart
    DEF WorldOK, documents, queue, lock, events, Faulty
<1>0. ASSUME Faulty PROVE faults' \in 0 .. MaxFaults
  BY <1>0, CampaignAssumption DEF Shape
<1>1. ASSUME NEW a \in Actor, Error(a) PROVE Shape'
  <2>1. WorldOK'
    BY <1>0, <1>1 DEF Error, Shape
  <2> QED
    BY <1>1, <2>1, ThrowOK DEF Error
<1>2. ASSUME NEW a \in Actor, Crash(a) PROVE Shape'
  <2>1. WorldOK'
    BY <1>0, <1>2 DEF Crash, Shape
  <2>2. ActorsOK' /\ Others(a) /\ pc'[a] = "idle"
    BY <1>2, <2>1, MovesOK DEF Crash, Moves, Leave, Shape, ActorsOK
  <2>3. failures' = failures
    BY <1>2 DEF Crash
  <2>4. ASSUME a \in Job, pc[a] # "deadLetter" PROVE QueueOK'
    <3>1. pc[a] # "idle" /\ jobs[a] = "active" /\ failures[a] < Attempts
      BY <1>2, <2>4 DEF Crash, Shape, QueueOK
    <3>2. PICK js \in {"waiting", "failed"} : jobs' = [jobs EXCEPT ![a] = js]
      BY <1>2, <2>4 DEF Crash
    <3> QED
      BY <2>2, <2>3, <2>4, <3>1, <3>2 DEF Shape, QueueOK, Others
  <2>5. ASSUME a \notin Job \/ pc[a] = "deadLetter" PROVE QueueOK'
    <3>1. jobs' = jobs
      BY <1>2, <2>5 DEF Crash
    <3>2. \A j \in Job : pc'[j] \notin {"idle", "deadLetter"} => pc'[j] = pc[j]
      BY <2>2 DEF Others
    <3> QED
      BY <2>3, <3>1, <3>2 DEF Shape, QueueOK
  <2>6. QueueOK'
    BY <2>4, <2>5
  <2> QED
    BY <2>1, <2>2, <2>6 DEF Shape
<1>3. ASSUME NEW p \in Proc, LaunchFails(p) PROVE Shape'
  <2>1. WorldOK'
    BY <1>0, <1>3 DEF LaunchFails, Abort, Shape
  <2> QED
    BY <1>3, <2>1, ActorMoves DEF LaunchFails, Abort, GiveUp, Moves, Step
<1>4. ASSUME NEW j \in Job, Forget(j) PROVE Shape'
  <2>1. WorldOK' /\ ActorsOK'
    BY <1>0, <1>4 DEF Forget, Shape, ActorsOK, actors
  <2>2. 0 \in 0 .. Attempts
    BY CampaignAssumption
  <2>3. \A i \in Job : pc'[i] = "idle"
    BY <1>4 DEF Forget, actors, Quiet
  <2>4. QueueOK'
    BY <1>4, <2>2, <2>3 DEF Forget, Shape, QueueOK
  <2> QED
    BY <2>1, <2>4 DEF Shape
<1>5. CASE SaveRunningFails
  <2>1. WorldOK'
    BY <1>0, <1>5 DEF SaveRunningFails, Save, Shape, Status
  <2> QED
    BY <1>5, <2>1, ThrowOK DEF SaveRunningFails
<1>6. CASE Lose
  <2>1. WorldOK'
    BY <1>0, <1>6 DEF Lose, Shape
  <2> QED
    BY <1>6, <2>1 DEF Lose, Shape, ActorsOK, QueueOK, actors
<1>7. CASE LockExpiresEarly
  <2>1. WorldOK'
    BY <1>0, <1>7 DEF LockExpiresEarly, Shape
  <2> QED
    BY <1>7, <2>1 DEF LockExpiresEarly, Shape, ActorsOK, QueueOK, actors
<1> QED
  BY <1>1, <1>2, <1>3, <1>4, <1>5, <1>6, <1>7 DEF Fault

LEMMA ShapeNext == Shape /\ [Next]_vars => Shape'
<1> SUFFICES ASSUME Shape, [Next]_vars PROVE Shape'
  OBVIOUS
<1> USE DEF Shape, WorldOK, ActorsOK, QueueOK, documents, queue, lock, events, bounds, actors
<1>1. CASE UNCHANGED vars
  BY <1>1 DEF vars
<1>2. CASE Create
  BY <1>2 DEF Create, Status
<1>3. CASE LockExpires
  BY <1>3 DEF LockExpires
<1>4. CASE Billing
  <2>1. faults' \in 0 .. MaxFaults /\ requests' = requests
    BY <1>4, CampaignAssumption DEF Billing, handleCampaignCreated,
       handleCampaignCompleted, Heard, Faulty
  <2>2. billingEvents' \subseteq billingEvents
    BY <1>4 DEF Billing, handleCampaignCreated, handleCampaignCompleted, Heard
  <2>3. WorldOK'
    BY <1>4, <2>1, <2>2 DEF Billing, handleCampaignCreated,
       handleCampaignCompleted, Reserved, ToCampaign
  <2> QED
    BY <1>4, <2>3 DEF Billing, handleCampaignCreated, handleCampaignCompleted
<1> HIDE DEF Shape
<1>5. ASSUME NEW p \in Proc, Serve(p) \/ User(p) \/ Scheduler(p) \/ Consume(p)
      PROVE  Shape'
  BY <1>5, LaunchKeepsShape, PauseKeepsShape, BeginningsKeepShape, FillKeepsShape
  DEF Serve
<1> QED
  BY <1>1, <1>2, <1>3, <1>4, <1>5, FaultKeepsShape, WorkersKeepShape DEF Next

\* Every reachable state has its type; a job is attempted Attempts times at most.
THEOREM TypeCorrect == Spec => []TypeOK
<1>1. Shape => TypeOK
  BY DEF Shape, WorldOK, ActorsOK, QueueOK, TypeOK
<1> QED
  BY <1>1, ShapeInit, ShapeNext, PTL DEF Spec

-----------------------------------------------------------------------------
(* Where a move leads. *)

LEMMA GotoLeads ==
  ASSUME ActorsOK, NEW a \in Actor, NEW s, Goto(a, s)
  PROVE  Others(a) /\ pc'[a] = s /\ kind'[a] = kind[a]
BY DEF ActorsOK, Goto, Others

LEMMA ReadLeads ==
  ASSUME ActorsOK, NEW a \in Actor, NEW s, Read(a, s)
  PROVE  Others(a) /\ pc'[a] = s /\ kind'[a] = kind[a]
BY DEF ActorsOK, Read, Others

LEMMA WorkLeads ==
  ASSUME ActorsOK, NEW a \in Actor, NEW js, NEW s, Work(a, js, s)
  PROVE  Others(a) /\ pc'[a] = s /\ kind'[a] = kind[a]
BY DEF ActorsOK, Work, Others

LEMMA BeginLeads ==
  ASSUME ActorsOK, NEW p \in Actor, NEW k, NEW d, NEW s, Begin(p, k, d, s)
  PROVE  Others(p) /\ pc'[p] = s /\ kind'[p] = k
BY DEF ActorsOK, Begin, Others

LEMMA LeaveLeads ==
  ASSUME ActorsOK, NEW a \in Actor, Leave(a)
  PROVE  Others(a) /\ pc'[a] = "idle" /\ kind'[a] = "other"
BY DEF ActorsOK, Leave, Others

\* A worker goes back to its queue or on to the clean-up.
LEMMA AttemptLeads ==
  ASSUME ActorsOK, NEW a \in Actor, FailAttempt(a) \/ Throw(a) \/ Succeed(a)
  PROVE  /\ Others(a)
         /\ pc'[a] \in {"idle", "deadLetter", "saveLaunchFailed"}
         /\ kind'[a] = kind[a] \/ kind'[a] = "other"
BY LeaveLeads, GotoLeads, ReadLeads DEF FailAttempt, Throw, Succeed

-----------------------------------------------------------------------------
(* Launches exclude each other: as long as the lock has not expired under a *)
(* holder, whoever holds it finds the key set, and a bulk send, which does  *)
(* not take the lock, does not get to where it is released.                 *)

BulkAside ==
  /\ \A p \in Proc : kind[p] = "bulk" => pc[p] \in {"enqueue", "saveQueued"}
  /\ \A p \in Proc : pc[p] = "enqueue" => kind[p] = "bulk"

LockInv ==
  /\ BulkAside
  /\ LaunchesExclude
  /\ ~expired => \A p \in Proc : Holding(p) => locked

LEMMA LockInit == Init => LockInv
BY Apart DEF Init, LockInv, BulkAside, LaunchesExclude, Holding, Launching

\* A step after which nobody holds the lock who did not hold it before.
LEMMA NotTaken ==
  ASSUME LockInv, NEW a \in Actor, Others(a), UNCHANGED lock,
         a \in Proc => /\ pc'[a] \notin Launching \cup {"enqueue"}
                       /\ kind'[a] # "bulk"
  PROVE  LockInv'
BY Apart DEF LockInv, BulkAside, LaunchesExclude, Holding, Others, lock, Launching

\* The holder goes on.
LEMMA StillHeld ==
  ASSUME LockInv, NEW p \in Proc, Holding(p), Others(p), UNCHANGED lock,
         kind'[p] = kind[p], pc'[p] \in Step \ {"enqueue"}
  PROVE  LockInv'
BY Apart DEF LockInv, BulkAside, LaunchesExclude, Holding, Others, lock, Launching

\* The holder deletes the key.
LEMMA Released ==
  ASSUME LockInv, NEW p \in Proc, Holding(p), Others(p), ~locked', expired' = expired,
         kind'[p] # "bulk", pc'[p] \notin Launching \cup {"enqueue"}
  PROVE  LockInv'
BY Apart DEF LockInv, BulkAside, LaunchesExclude, Holding, Others, Launching

LEMMA GiveUpLeads ==
  ASSUME ActorsOK, NEW p \in Proc, GiveUp(p)
  PROVE  /\ Others(p)
         /\ pc'[p] \in {"idle", "saveFailed"}
         /\ kind'[p] \in {"other", "scheduled"}
BY Apart, GotoLeads, LeaveLeads DEF GiveUp

LEMMA LaunchKeepsLock ==
  ASSUME Shape, LockInv, NEW p \in Proc, Launch(p)
  PROVE  LockInv'
<1> USE Apart DEF Shape, lock
<1>1. CASE acquireLock(p)
  <2>1. Others(p) /\ pc'[p] = "preflight" /\ kind'[p] = kind[p] /\ kind[p] # "bulk"
    BY <1>1, ReadLeads DEF acquireLock, LockInv, BulkAside
  <2> QED
    BY <1>1, <2>1 DEF acquireLock, LockInv, BulkAside, LaunchesExclude, Holding,
       Others, Launching
<1>2. CASE LockTaken(p)
  BY <1>2, NotTaken, GiveUpLeads DEF LockTaken, Launching
<1>3. CASE RejectStart(p) \/ RefusedByPreflight(p)
  <2>1. Holding(p)
    BY <1>3 DEF RejectStart, RefusedByPreflight, Holding, Launching, LockInv, BulkAside
  <2> QED
    BY <1>3, <2>1, Released, GiveUpLeads
    DEF RejectStart, RefusedByPreflight, Abort, Launching
<1>4. CASE enqueue(p)
  <2>1. CASE pc[p] = "preflight"
    <3>1. Holding(p)
      BY <2>1 DEF Holding, Launching, LockInv, BulkAside
    <3> QED
      BY <1>4, <3>1, StillHeld, GotoLeads DEF enqueue, Holding, Step, Launching
  <2>2. CASE pc[p] = "enqueue"
    <3>1. kind[p] = "bulk" /\ Others(p)
      BY <1>4, <2>2, GotoLeads, LeaveLeads DEF enqueue, LockInv, BulkAside
    <3>2. \/ pc'[p] = "idle" /\ kind'[p] = "other"
          \/ pc'[p] = "saveQueued" /\ kind'[p] = "bulk"
      BY <1>4, <3>1, GotoLeads, LeaveLeads DEF enqueue
    <3> QED
      BY <1>4, <3>1, <3>2 DEF enqueue, LockInv, BulkAside, LaunchesExclude,
         Holding, Others, Launching
  <2> QED
    BY <1>4, <2>1, <2>2 DEF enqueue
<1>5. CASE SaveQueued(p)
  <2>1. CASE kind[p] = "bulk"
    BY <1>5, <2>1, NotTaken, LeaveLeads DEF SaveQueued, Launching
  <2>2. CASE kind[p] # "bulk"
    <3>1. Holding(p)
      BY <1>5, <2>2 DEF SaveQueued, Holding, Launching
    <3> QED
      BY <1>5, <2>2, <3>1, StillHeld, GotoLeads DEF SaveQueued, Step, Launching
  <2> QED
    BY <2>1, <2>2
<1>6. CASE releaseLock(p)
  <2>1. Holding(p)
    BY <1>6 DEF releaseLock, Holding, Launching, LockInv, BulkAside
  <2> QED
    BY <1>6, <2>1, Released, GotoLeads, LeaveLeads DEF releaseLock, Launching
<1>7. CASE EnqueueAgain(p) \/ SaveFailed(p)
  BY <1>7, NotTaken, LeaveLeads DEF EnqueueAgain, SaveFailed, Launching
<1> QED
  BY <1>1, <1>2, <1>3, <1>4, <1>5, <1>6, <1>7 DEF Launch

LEMMA ProcsKeepLock ==
  ASSUME Shape, LockInv, NEW p \in Proc,
         Pause(p) \/ SaveStalled(p) \/ Fill(p) \/ User(p) \/ Scheduler(p) \/ Consume(p)
  PROVE  LockInv'
<1> USE Apart DEF Shape, Launching
<1>1. CASE SavePaused(p)
  BY <1>1, NotTaken, WorkLeads, LeaveLeads DEF SavePaused, LockInv, BulkAside
<1>2. CASE CancelNext(p) \/ CancelFails(p)
  BY <1>2, NotTaken, WorkLeads, LeaveLeads
  DEF CancelNext, CancelFails, LockInv, BulkAside
<1>3. CASE SaveStalled(p)
  BY <1>3, NotTaken, LeaveLeads DEF SaveStalled
<1>4. CASE FindBatches(p)
  BY <1>4, NotTaken, GotoLeads, WorkLeads, LeaveLeads
  DEF FindBatches, LockInv, BulkAside
<1>5. CASE createBatches(p)
  BY <1>5, NotTaken, WorkLeads, AttemptLeads DEF createBatches, LockInv, BulkAside
<1>6. CASE enqueueBatch(p)
  BY <1>6, NotTaken, WorkLeads DEF enqueueBatch, LockInv, BulkAside
<1>7. CASE SaveRunning(p)
  BY <1>7, NotTaken, AttemptLeads DEF SaveRunning, LockInv, BulkAside
<1>8. CASE CreateBulk(p)
  <2>1. Others(p) /\ pc'[p] = "enqueue" /\ kind'[p] = "bulk" /\ UNCHANGED lock
    BY <1>8, BeginLeads DEF CreateBulk
  <2> QED
    BY <2>1 DEF LockInv, BulkAside, LaunchesExclude, Holding, Others, lock
<1>9. CASE RequestStart(p) \/ RequestPause(p) \/ processScheduled(p)
  BY <1>9, NotTaken, BeginLeads DEF RequestStart, RequestPause, processScheduled
<1>10. CASE RecoverQueued(p) \/ RecoverStalled(p)
  BY <1>10, NotTaken, BeginLeads DEF RecoverQueued, RecoverStalled
<1>11. CASE Consume(p)
  BY <1>11, NotTaken, BeginLeads
  DEF Consume, handleBudgetReserved, handleBudgetReservationFailed
<1> QED
  BY <1>1, <1>2, <1>3, <1>4, <1>5, <1>6, <1>7, <1>8, <1>9, <1>10, <1>11
  DEF Pause, Fill, User, Scheduler

LEMMA WorkersKeepLock ==
  ASSUME Shape, LockInv,
         \/ handleCampaignStart
         \/ \E b \in Batch : handleBatchProcess(b)
         \/ \E j \in Job : Take(j) \/ deadLetter(j)
  PROVE  LockInv'
<1> USE Apart DEF Shape
<1>1. CASE RefusedAtStart \/ SaveLaunchFailed
  BY <1>1, NotTaken, AttemptLeads DEF RefusedAtStart, SaveLaunchFailed
<1>2. CASE ParkAndAnnounce
  BY <1>2, NotTaken, GotoLeads DEF ParkAndAnnounce
<1>3. CASE Fill(Start)
  BY <1>3, NotTaken, GotoLeads, WorkLeads, LeaveLeads, AttemptLeads
  DEF Fill, FindBatches, createBatches, enqueueBatch, SaveRunning
<1>4. ASSUME NEW b \in Batch, handleBatchProcess(b) PROVE LockInv'
  BY <1>4, NotTaken, GotoLeads, AttemptLeads
  DEF handleBatchProcess, SendBatch, getCampaignBatchStats, Finalize,
      AnnounceCompleted
<1>5. ASSUME NEW j \in Job, Take(j) PROVE LockInv'
  BY <1>5, NotTaken, GotoLeads, ReadLeads DEF Take
<1>6. ASSUME NEW j \in Job, deadLetter(j) PROVE LockInv'
  BY <1>6, NotTaken, LeaveLeads DEF deadLetter
<1> QED
  BY <1>1, <1>2, <1>3, <1>4, <1>5, <1>6 DEF handleCampaignStart

LEMMA FaultKeepsLock ==
  ASSUME Shape, LockInv, Fault
  PROVE  LockInv'
<1> USE Apart DEF Shape, Launching
<1>1. ASSUME NEW a \in Actor, Error(a) PROVE LockInv'
  BY <1>1, NotTaken, AttemptLeads DEF Error, LockInv, BulkAside
<1>2. ASSUME NEW a \in Actor, Crash(a) PROVE LockInv'
  BY <1>2, NotTaken, LeaveLeads DEF Crash
<1>3. ASSUME NEW p \in Proc, LaunchFails(p) PROVE LockInv'
  <2>1. GiveUp(p) /\ expired' = expired
    BY <1>3 DEF LaunchFails, Abort
  <2>2. CASE Holding(p) /\ ~locked'
    BY <2>1, <2>2, Released, GiveUpLeads
  <2>3. CASE UNCHANGED locked
    BY <2>1, <2>3, NotTaken, GiveUpLeads DEF lock
  <2> QED
    BY <1>3, <2>2, <2>3 DEF LaunchFails, Abort, Holding
<1>4. CASE SaveRunningFails
  BY <1>4, NotTaken, AttemptLeads DEF SaveRunningFails
<1>5. CASE Lose \/ \E j \in Job : Forget(j)
  BY <1>5 DEF Lose, Forget, lock, actors, LockInv, BulkAside, LaunchesExclude, Holding
<1>6. CASE LockExpiresEarly
  BY <1>6 DEF LockExpiresEarly, actors, LockInv, BulkAside, LaunchesExclude
<1> QED
  BY <1>1, <1>2, <1>3, <1>4, <1>5, <1>6 DEF Fault

LEMMA LockNext == Shape /\ LockInv /\ [Next]_vars => LockInv'
<1> SUFFICES ASSUME Shape, LockInv, [Next]_vars PROVE LockInv'
  OBVIOUS
<1>1. CASE UNCHANGED vars \/ Create \/ Billing
  BY <1>1 DEF vars, Create, Billing, handleCampaignCreated, handleCampaignCompleted,
     lock, actors, LockInv, BulkAside, LaunchesExclude, Holding
<1>2. CASE LockExpires
  BY <1>2 DEF LockExpires, actors, LockInv, BulkAside, LaunchesExclude, Holding
<1> QED
  BY <1>1, <1>2, LaunchKeepsLock, ProcsKeepLock, WorkersKeepLock, FaultKeepsLock
  DEF Next, Serve

\* As long as the lock's time to live outlasts its holders, one launch at a time
\* is between acquireLock and releaseLock.
THEOREM LaunchesAreExclusive == Spec => []LaunchesExclude
BY ShapeInit, ShapeNext, LockInit, LockNext, PTL DEF Spec, LockInv

-----------------------------------------------------------------------------
(* A campaign completes after each of its batches: the batches appear all at *)
(* once and before anything that needs them, and an actor that is about to   *)
(* complete the campaign has seen them all completed.                        *)

NeedsBatches ==
  \/ status = "RUNNING"
  \/ \E a \in Actor : pc[a] \in {"handOut", "saveRunning"}
  \/ \E b \in Batch : jobs[b] # "absent"

DoneInv ==
  /\ \A b \in Batch : batches[b] = "COMPLETED" => b \in finished
  /\ NeedsBatches => \A b \in Batch : batches[b] # "absent"
  /\ \A b, c \in Batch : batches[b] = "absent" => batches[c] = "absent"
  /\ \A a \in Actor :
       pc[a] \in {"finalize", "settle", "saveCompleted"} => finished = Batch
  /\ CompletedMeansFinished

LEMMA DoneInit == Init => DoneInv
BY Apart DEF Init, DoneInv, NeedsBatches, CompletedMeansFinished

\* A step of actor a that neither completes the campaign nor creates or takes
\* batches.
LEMMA NotDone ==
  ASSUME Shape, DoneInv, NEW a \in Actor, Others(a),
         UNCHANGED <<batches, finished>>,
         pc'[a] \in {"handOut", "saveRunning"} => NeedsBatches,
         pc'[a] \in {"finalize", "settle", "saveCompleted"} => finished = Batch,
         status' = "RUNNING" => NeedsBatches,
         status' = "COMPLETED" => status = "COMPLETED" \/ finished = Batch,
         \A b \in Batch : jobs'[b] # "absent" => NeedsBatches,
         budget' = "settled" => budget = "settled",
         "CampaignCompleted" \in billingEvents' =>
           "CampaignCompleted" \in billingEvents \/ finished = Batch
  PROVE  DoneInv'
BY Apart DEF DoneInv, NeedsBatches, CompletedMeansFinished, Others

LEMMA AddStart ==
  ASSUME Shape, jobs' = Added(jobs, Start)
  PROVE  \A b \in Batch : jobs'[b] = jobs[b]
BY Apart DEF Shape, QueueOK, Added

\* After an attempt a job that had no record has none.
LEMMA AttemptJobs ==
  ASSUME Shape, NEW a \in Actor, pc[a] \notin {"idle", "deadLetter"},
         (a \in Job /\ FailAttempt(a)) \/ Throw(a) \/ Succeed(a)
  PROVE  \A b \in Batch : jobs'[b] # "absent" => jobs[b] # "absent"
BY Apart DEF Shape, QueueOK, FailAttempt, Throw, Succeed, queue

LEMMA ProcsKeepDone ==
  ASSUME Shape, DoneInv, NEW p \in Proc,
         Launch(p) \/ Pause(p) \/ SaveStalled(p) \/ User(p) \/ Scheduler(p) \/ Consume(p)
  PROVE  DoneInv'
<1> USE Apart DEF Shape, documents, queue, events
<1>1. CASE acquireLock(p)
  BY <1>1, NotDone, ReadLeads DEF acquireLock, NeedsBatches
<1>2. CASE LockTaken(p) \/ RejectStart(p) \/ RefusedByPreflight(p)
  BY <1>2, NotDone, GiveUpLeads
  DEF LockTaken, RejectStart, RefusedByPreflight, Abort, Save, NeedsBatches
<1>3. CASE enqueue(p)
  BY <1>3, NotDone, AddStart, GotoLeads, LeaveLeads DEF enqueue, NeedsBatches
<1>4. CASE SaveQueued(p)
  BY <1>4, NotDone, GotoLeads, LeaveLeads DEF SaveQueued, Save, NeedsBatches
<1>5. CASE releaseLock(p)
  BY <1>5, NotDone, GotoLeads, LeaveLeads DEF releaseLock, NeedsBatches
<1>6. CASE EnqueueAgain(p)
  BY <1>6, NotDone, AddStart, LeaveLeads DEF EnqueueAgain, NeedsBatches
<1>7. CASE SaveFailed(p)
  BY <1>7, NotDone, LeaveLeads DEF SaveFailed, NeedsBatches
<1>8. CASE SavePaused(p)
  BY <1>8, NotDone, WorkLeads, LeaveLeads DEF SavePaused, Save, NeedsBatches
<1>9. CASE CancelNext(p)
  <2>1. \A b \in Batch : jobs'[b] # "absent" => jobs[b] # "absent"
    BY <1>9 DEF CancelNext, QueueOK
  <2> QED
    BY <1>9, <2>1, NotDone, WorkLeads, LeaveLeads DEF CancelNext, NeedsBatches
<1>10. CASE CancelFails(p)
  BY <1>10, NotDone, LeaveLeads DEF CancelFails, NeedsBatches
<1>11. CASE SaveStalled(p)
  <2>1. pc[p] = "saveCompleted" => finished = Batch
    BY DEF DoneInv
  <2>2. status' = "COMPLETED" => status = "COMPLETED" \/ finished = Batch
    BY <1>11, <2>1 DEF SaveStalled, Save
  <2>3. status' = "RUNNING" => NeedsBatches
    BY <1>11 DEF SaveStalled, Save, NeedsBatches
  <2> QED
    BY <1>11, <2>2, <2>3, NotDone, LeaveLeads DEF SaveStalled, NeedsBatches
<1>12. CASE User(p) \/ processScheduled(p)
  BY <1>12, NotDone, BeginLeads
  DEF User, CreateBulk, RequestStart, RequestPause, processScheduled, NeedsBatches
<1>13. CASE RecoverQueued(p)
  <2>1. BatchesExist => \A b \in Batch : batches[b] # "absent"
    BY DEF BatchesExist, DoneInv
  <2>2. /\ Others(p)
        /\ \/ pc'[p] = "saveRunning" /\ BatchesExist
           \/ pc'[p] = "enqueueAgain"
    BY <1>13, BeginLeads DEF RecoverQueued
  <2> QED
    BY <1>13, <2>1, <2>2
    DEF RecoverQueued, DoneInv, NeedsBatches, CompletedMeansFinished, Others
<1>14. CASE RecoverStalled(p)
  <2>1. \A b \in Batch : batches[b] # "absent"
    BY <1>14 DEF RecoverStalled, DoneInv, NeedsBatches
  <2>2. Pending = {} => finished = Batch
    BY <2>1 DEF Pending, DoneInv, WorldOK
  <2>3. Others(p) /\ pc'[p] = IF Pending = {} THEN "saveCompleted" ELSE "saveStalled"
    BY <1>14, BeginLeads DEF RecoverStalled
  <2> QED
    BY <1>14, <2>2, <2>3, NotDone DEF RecoverStalled, NeedsBatches
<1>15. CASE Consume(p)
  BY <1>15, NotDone, BeginLeads
  DEF Consume, handleBudgetReserved, handleBudgetReservationFailed, NeedsBatches
<1> QED
  BY <1>1, <1>2, <1>3, <1>4, <1>5, <1>6, <1>7, <1>8, <1>9, <1>10, <1>11, <1>12,
     <1>13, <1>14, <1>15
  DEF Launch, Pause, Scheduler

LEMMA FillKeepsDone ==
  ASSUME Shape, DoneInv, NEW a \in Proc \cup {Start}, Fill(a)
  PROVE  DoneInv'
<1> USE Apart DEF Shape, documents, queue, events
<1>0. BatchesExist => \A b \in Batch : batches[b] # "absent"
  BY DEF BatchesExist, DoneInv
<1>1. CASE FindBatches(a)
  <2>1. /\ Others(a)
        /\ \/ pc'[a] = "handOut" /\ BatchesExist
           \/ pc'[a] \in {"create", "idle"}
    BY <1>1, GotoLeads, WorkLeads, LeaveLeads DEF FindBatches
  <2> QED
    BY <1>0, <1>1, <2>1
    DEF FindBatches, DoneInv, NeedsBatches, CompletedMeansFinished, Others
<1>2. CASE createBatches(a)
  <2>1. CASE BatchesExist
    BY <1>2, <2>1, NotDone, AttemptLeads, AttemptJobs DEF createBatches, NeedsBatches
  <2>2. CASE ~BatchesExist
    <3>1. Others(a) /\ pc'[a] = "handOut"
      BY <1>2, <2>2, WorkLeads DEF createBatches
    <3>2. \A b \in Batch : batches'[b] = "PENDING"
      BY <1>2, <2>2 DEF createBatches
    <3> QED
      BY <1>2, <2>2, <3>1, <3>2
      DEF createBatches, DoneInv, NeedsBatches, CompletedMeansFinished, Others
  <2> QED
    BY <2>1, <2>2
<1>3. CASE enqueueBatch(a)
  BY <1>3, NotDone, WorkLeads DEF enqueueBatch, NeedsBatches
<1>4. CASE SaveRunning(a)
  BY <1>4, NotDone, AttemptLeads, AttemptJobs DEF SaveRunning, Save, NeedsBatches
<1> QED
  BY <1>1, <1>2, <1>3, <1>4 DEF Fill

LEMMA WorkersKeepDone ==
  ASSUME Shape, DoneInv,
         \/ handleCampaignStart
         \/ \E b \in Batch : handleBatchProcess(b)
         \/ \E j \in Job : Take(j) \/ deadLetter(j)
  PROVE  DoneInv'
<1> USE Apart DEF Shape, documents, queue, events
<1>1. CASE RefusedAtStart
  BY <1>1, NotDone, AttemptLeads, AttemptJobs DEF RefusedAtStart, Save, NeedsBatches
<1>2. CASE SaveLaunchFailed
  BY <1>2, NotDone, AttemptLeads, AttemptJobs DEF SaveLaunchFailed, Save, NeedsBatches
<1>3. CASE ParkAndAnnounce
  BY <1>3, NotDone, GotoLeads DEF ParkAndAnnounce, Reserved, NeedsBatches
<1>4. ASSUME NEW b \in Batch, SendBatch(b) PROVE DoneInv'
  <2>1. Others(b) /\ pc'[b] = "tally" /\ pc[b] = "send"
    BY <1>4, GotoLeads DEF SendBatch
  <2>2. finished = Batch => finished' = Batch
    BY <1>4 DEF SendBatch
  <2>3. \A c \in Batch : batches'[c] = IF c = b THEN "COMPLETED" ELSE batches[c]
    BY <1>4 DEF SendBatch, WorldOK
  <2>4. \A c \in Batch : batches[c] # "absent"
    BY <2>1 DEF QueueOK, DoneInv, NeedsBatches
  <2> QED
    BY <1>4, <2>1, <2>2, <2>3, <2>4
    DEF SendBatch, DoneInv, NeedsBatches, CompletedMeansFinished, Others
<1>5. ASSUME NEW b \in Batch, getCampaignBatchStats(b) PROVE DoneInv'
  <2>1. isLastBatch => finished = Batch
    BY DEF isLastBatch, DoneInv, WorldOK
  <2> QED
    BY <1>5, <2>1, NotDone, GotoLeads, AttemptLeads, AttemptJobs
    DEF getCampaignBatchStats, NeedsBatches
<1>6. ASSUME NEW b \in Batch, Finalize(b) PROVE DoneInv'
  <2>1. finished = Batch
    BY <1>6 DEF Finalize, DoneInv
  <2> QED
    BY <1>6, <2>1, NotDone, GotoLeads, AttemptLeads, AttemptJobs
    DEF Finalize, NeedsBatches
<1>7. ASSUME NEW b \in Batch, AnnounceCompleted(b) PROVE DoneInv'
  <2>1. finished = Batch
    BY <1>7 DEF AnnounceCompleted, DoneInv
  <2> QED
    BY <1>7, <2>1, NotDone, AttemptLeads, AttemptJobs
    DEF AnnounceCompleted, NeedsBatches
<1>8. ASSUME NEW j \in Job, Take(j) PROVE DoneInv'
  <2>1. CASE j = Start
    BY <1>8, <2>1, NotDone, ReadLeads DEF Take, QueueOK, NeedsBatches
  <2>2. CASE j \in Batch
    <3>1. Others(j) /\ pc'[j] = "send"
      BY <1>8, <2>2, GotoLeads DEF Take
    <3>2. \A c \in Batch : batches[c] # "absent"
      BY <1>8, <2>2 DEF Take, DoneInv, NeedsBatches
    <3>3. \A c \in Batch : batches'[c] = IF c = j THEN "PROCESSING" ELSE batches[c]
      BY <1>8, <2>2 DEF Take, WorldOK
    <3> QED
      BY <1>8, <3>1, <3>2, <3>3
      DEF Take, DoneInv, NeedsBatches, CompletedMeansFinished, Others
  <2> QED
    BY <2>1, <2>2 DEF Job
<1>9. ASSUME NEW j \in Job, deadLetter(j) PROVE DoneInv'
  BY <1>9, NotDone, LeaveLeads DEF deadLetter, NeedsBatches
<1> QED
  BY <1>1, <1>2, <1>3, <1>4, <1>5, <1>6, <1>7, <1>8, <1>9, FillKeepsDone
  DEF handleCampaignStart, handleBatchProcess

LEMMA FaultKeepsDone ==
  ASSUME Shape, DoneInv, Fault
  PROVE  DoneInv'
<1> USE Apart DEF Shape, documents, queue, events
<1>1. ASSUME NEW a \in Actor, Error(a) PROVE DoneInv'
  BY <1>1, NotDone, AttemptLeads, AttemptJobs DEF Error, NeedsBatches
<1>2. ASSUME NEW a \in Actor, Crash(a) PROVE DoneInv'
  <2>1. \A b \in Batch : jobs'[b] # "absent" => jobs[b] # "absent"
    BY <1>2 DEF Crash, QueueOK
  <2> QED
    BY <1>2, <2>1, NotDone, LeaveLeads DEF Crash, NeedsBatches
<1>3. ASSUME NEW p \in Proc, LaunchFails(p) PROVE DoneInv'
  BY <1>3, NotDone, GiveUpLeads DEF LaunchFails, Abort, NeedsBatches
<1>4. ASSUME NEW j \in Job, Forget(j) PROVE DoneInv'
  <2>1. \A b \in Batch : jobs'[b] # "absent" => jobs[b] # "absent"
    BY <1>4 DEF Forget, QueueOK
  <2> QED
    BY <1>4, <2>1 DEF Forget, actors, DoneInv, NeedsBatches, CompletedMeansFinished
<1>5. CASE SaveRunningFails
  BY <1>5, NotDone, AttemptLeads, AttemptJobs DEF SaveRunningFails, Save, NeedsBatches
<1>6. CASE Lose \/ LockExpiresEarly
  BY <1>6 DEF Lose, LockExpiresEarly, actors, DoneInv, NeedsBatches,
     CompletedMeansFinished
<1> QED
  BY <1>1, <1>2, <1>3, <1>4, <1>5, <1>6 DEF Fault

LEMMA DoneNext == Shape /\ DoneInv /\ [Next]_vars => DoneInv'
<1> SUFFICES ASSUME Shape, DoneInv, [Next]_vars PROVE DoneInv'
  OBVIOUS
<1> USE DEF DoneInv, NeedsBatches, CompletedMeansFinished, documents, queue, events,
            actors
<1>1. CASE UNCHANGED vars \/ LockExpires
  BY <1>1 DEF vars, LockExpires
<1>2. CASE Create
  BY <1>2 DEF Create
<1>3. CASE handleCampaignCreated
  BY <1>3 DEF handleCampaignCreated, Heard, Reserved
<1>4. CASE handleCampaignCompleted
  BY <1>4 DEF handleCampaignCompleted, Heard
<1> QED
  BY <1>1, <1>2, <1>3, <1>4, ProcsKeepDone, FillKeepsDone, WorkersKeepDone,
     FaultKeepsDone
  DEF Next, Serve, Billing

\* A campaign is COMPLETED, announces it, and has its budget settled, only after
\* each of its batches was completed.
THEOREM CompletionMeansFinished == Spec => []CompletedMeansFinished
BY ShapeInit, ShapeNext, DoneInit, DoneNext, PTL DEF Spec, DoneInv

-----------------------------------------------------------------------------
(* The run: every step is one of CampaignRun's or none.  A batch that is being *)
(* sent was marked so, and no step but those of its own job changes that.      *)

SentInv == \A b \in Batch : pc[b] = "send" => batches[b] = "PROCESSING"

RunInv == Shape /\ DoneInv /\ SentInv

LEMMA NotSent ==
  ASSUME SentInv, NEW a \in Actor, Others(a), pc'[a] # "send", UNCHANGED batches
  PROVE  SentInv'
BY Apart DEF SentInv, Others

LEMMA FillKeepsSent ==
  ASSUME Shape, SentInv, NEW a \in Actor, Fill(a)
  PROVE  SentInv'
<1> USE DEF Shape, documents, queue
<1>1. CASE FindBatches(a)
  BY <1>1, NotSent, GotoLeads, WorkLeads, LeaveLeads DEF FindBatches
<1>2. CASE createBatches(a)
  <2>1. CASE BatchesExist
    BY <1>2, <2>1, NotSent, AttemptLeads DEF createBatches
  <2>2. CASE ~BatchesExist
    <3>1. Others(a) /\ pc'[a] = "handOut"
      BY <1>2, <2>2, WorkLeads DEF createBatches
    <3>2. \A b \in Batch : pc[b] # "send"
      BY <2>2 DEF SentInv, BatchesExist
    <3> QED
      BY <3>1, <3>2, Apart DEF SentInv, Others
  <2> QED
    BY <2>1, <2>2
<1>3. CASE enqueueBatch(a)
  BY <1>3, NotSent, WorkLeads DEF enqueueBatch
<1>4. CASE SaveRunning(a)
  BY <1>4, NotSent, AttemptLeads DEF SaveRunning
<1> QED
  BY <1>1, <1>2, <1>3, <1>4 DEF Fill

LEMMA ProcsKeepSent ==
  ASSUME Shape, SentInv, NEW p \in Proc,
         Serve(p) \/ User(p) \/ Scheduler(p) \/ Consume(p)
  PROVE  SentInv'
<1> USE Apart DEF Shape, documents, queue
<1>1. CASE acquireLock(p) \/ LockTaken(p) \/ RejectStart(p) \/ RefusedByPreflight(p)
  BY <1>1, NotSent, ReadLeads, GiveUpLeads
  DEF acquireLock, LockTaken, RejectStart, RefusedByPreflight, Abort
<1>2. CASE enqueue(p) \/ SaveQueued(p) \/ releaseLock(p) \/ EnqueueAgain(p) \/ SaveFailed(p)
  BY <1>2, NotSent, GotoLeads, LeaveLeads
  DEF enqueue, SaveQueued, releaseLock, EnqueueAgain, SaveFailed
<1>3. CASE Pause(p) \/ SaveStalled(p)
  BY <1>3, NotSent, WorkLeads, LeaveLeads
  DEF Pause, SavePaused, CancelNext, CancelFails, SaveStalled
<1>4. CASE Fill(p)
  BY <1>4, FillKeepsSent
<1>5. CASE User(p) \/ Scheduler(p) \/ Consume(p)
  BY <1>5, NotSent, BeginLeads
  DEF User, CreateBulk, RequestStart, RequestPause, Scheduler, processScheduled,
      RecoverQueued, RecoverStalled, Consume, handleBudgetReserved,
      handleBudgetReservationFailed
<1> QED
  BY <1>1, <1>2, <1>3, <1>4, <1>5 DEF Serve, Launch

LEMMA WorkersKeepSent ==
  ASSUME Shape, SentInv,
         \/ handleCampaignStart
         \/ \E b \in Batch : handleBatchProcess(b)
         \/ \E j \in Job : Take(j) \/ deadLetter(j)
  PROVE  SentInv'
<1> USE Apart DEF Shape, documents, queue
<1>1. CASE RefusedAtStart
  BY <1>1, NotSent, AttemptLeads DEF RefusedAtStart
<1>2. CASE ParkAndAnnounce
  BY <1>2, NotSent, GotoLeads DEF ParkAndAnnounce
<1>3. CASE SaveLaunchFailed
  BY <1>3, NotSent, AttemptLeads DEF SaveLaunchFailed
<1>4. CASE Fill(Start)
  BY <1>4, FillKeepsSent
<1>5. ASSUME NEW b \in Batch, SendBatch(b) PROVE SentInv'
  <2>1. Others(b) /\ pc'[b] = "tally"
    BY <1>5, GotoLeads DEF SendBatch
  <2>2. \A c \in Batch \ {b} : batches'[c] = batches[c]
    BY <1>5 DEF SendBatch, WorldOK
  <2> QED
    BY <2>1, <2>2 DEF SentInv, Others
<1>6. ASSUME NEW b \in Batch,
             getCampaignBatchStats(b) \/ Finalize(b) \/ AnnounceCompleted(b)
      PROVE  SentInv'
  BY <1>6, NotSent, GotoLeads, AttemptLeads
  DEF getCampaignBatchStats, Finalize, AnnounceCompleted
<1>7. CASE Take(Start)
  BY <1>7, NotSent, ReadLeads DEF Take
<1>8. ASSUME NEW b \in Batch, Take(b) PROVE SentInv'
  <2>1. Others(b)
    BY <1>8, GotoLeads DEF Take
  <2>2. batches'[b] = "PROCESSING" /\ \A c \in Batch \ {b} : batches'[c] = batches[c]
    BY <1>8 DEF Take, WorldOK
  <2> QED
    BY <2>1, <2>2 DEF SentInv, Others
<1>9. ASSUME NEW j \in Job, deadLetter(j) PROVE SentInv'
  BY <1>9, NotSent, LeaveLeads DEF deadLetter
<1> QED
  BY <1>1, <1>2, <1>3, <1>4, <1>5, <1>6, <1>7, <1>8, <1>9
  DEF handleCampaignStart, handleBatchProcess, Job

LEMMA FaultKeepsSent ==
  ASSUME Shape, SentInv, Fault
  PROVE  SentInv'
<1> USE Apart DEF Shape, documents, queue
<1>1. ASSUME NEW a \in Actor, Error(a) PROVE SentInv'
  BY <1>1, NotSent, AttemptLeads DEF Error
<1>2. ASSUME NEW a \in Actor, Crash(a) PROVE SentInv'
  BY <1>2, NotSent, LeaveLeads DEF Crash
<1>3. ASSUME NEW p \in Proc, LaunchFails(p) PROVE SentInv'
  BY <1>3, NotSent, GiveUpLeads DEF LaunchFails, Abort
<1>4. CASE SaveRunningFails
  BY <1>4, NotSent, AttemptLeads DEF SaveRunningFails
<1>5. CASE (\E j \in Job : Forget(j)) \/ Lose \/ LockExpiresEarly
  BY <1>5 DEF Forget, Lose, LockExpiresEarly, actors, SentInv
<1> QED
  BY <1>1, <1>2, <1>3, <1>4, <1>5 DEF Fault

LEMMA SentNext == Shape /\ SentInv /\ [Next]_vars => SentInv'
<1> SUFFICES ASSUME Shape, SentInv, [Next]_vars PROVE SentInv'
  OBVIOUS
<1>1. CASE UNCHANGED vars \/ LockExpires \/ Create \/ Billing
  BY <1>1
  DEF vars, LockExpires, Create, Billing, handleCampaignCreated, handleCampaignCompleted,
      documents, actors, SentInv
<1> QED
  BY <1>1, ProcsKeepSent, WorkersKeepSent, FaultKeepsSent DEF Next

LEMMA RunAlways == Spec => []RunInv
<1>1. Init => SentInv
  BY Apart DEF Init, SentInv
<1> QED
  BY <1>1, ShapeInit, ShapeNext, DoneInit, DoneNext, SentNext, PTL DEF Spec, RunInv

\* A step that touches neither the batches nor the money can only complete the
\* campaign, for which all was sent, or take that back.
LEMMA StatusRun ==
  ASSUME DoneInv', UNCHANGED <<batches, finished, budget>>
  PROVE  [Run!Next]_(Run!vars)
<1>1. status' = "COMPLETED" => finished = Batch
  BY DEF DoneInv, CompletedMeansFinished
<1>2. CASE status' = "COMPLETED" /\ status # "COMPLETED"
  BY <1>1, <1>2 DEF Run!Next, Run!Complete
<1>3. CASE status' # "COMPLETED" /\ status = "COMPLETED"
  BY <1>3 DEF Run!Next, Run!TakeBack
<1>4. CASE status' = "COMPLETED" <=> status = "COMPLETED"
  BY <1>4 DEF Run!vars
<1> QED
  BY <1>2, <1>3, <1>4

Kept == UNCHANGED <<batches, finished, budget>>

\* The unique index lets createBatches succeed only where there are none, and then
\* there is no batch at all.
LEMMA FillRun ==
  ASSUME NEW a \in Actor, Fill(a)
  PROVE  Kept \/ Run!Fill
<1> USE DEF documents, Kept
<1>1. CASE FindBatches(a) \/ enqueueBatch(a) \/ SaveRunning(a)
  BY <1>1 DEF FindBatches, enqueueBatch, SaveRunning
<1>2. CASE createBatches(a)
  BY <1>2 DEF createBatches, BatchesExist, Run!Fill
<1> QED
  BY <1>1, <1>2 DEF Fill

LEMMA ProcsRun ==
  ASSUME NEW p \in Proc, Serve(p) \/ User(p) \/ Scheduler(p) \/ Consume(p)
  PROVE  Kept \/ Run!Fill
<1> USE DEF documents, Kept
<1>1. CASE Launch(p)
  BY <1>1
  DEF Launch, acquireLock, LockTaken, RejectStart, RefusedByPreflight, enqueue, SaveQueued,
      releaseLock, EnqueueAgain, SaveFailed
<1>2. CASE Pause(p) \/ SaveStalled(p)
  BY <1>2 DEF Pause, SavePaused, CancelNext, CancelFails, SaveStalled
<1>3. CASE Fill(p)
  BY <1>3, FillRun, Apart
<1>4. CASE User(p)
  BY <1>4 DEF User, CreateBulk, RequestStart, RequestPause
<1>5. CASE Scheduler(p)
  BY <1>5 DEF Scheduler, processScheduled, RecoverQueued, RecoverStalled
<1>6. CASE Consume(p)
  BY <1>6 DEF Consume, handleBudgetReserved, handleBudgetReservationFailed
<1> QED
  BY <1>1, <1>2, <1>3, <1>4, <1>5, <1>6 DEF Serve

LEMMA StartRun ==
  ASSUME handleCampaignStart
  PROVE  Kept \/ Run!Fill \/ Run!Park
<1> USE DEF documents, Kept
<1>1. CASE RefusedAtStart \/ SaveLaunchFailed
  BY <1>1 DEF RefusedAtStart, SaveLaunchFailed
<1>2. CASE ParkAndAnnounce
  BY <1>2 DEF ParkAndAnnounce, Reserved, Run!Park
<1>3. CASE Fill(Start)
  BY <1>3, FillRun, Apart
<1> QED
  BY <1>1, <1>2, <1>3 DEF handleCampaignStart

\* A job that waits has its batch, as batches come before their jobs.
LEMMA BatchRun ==
  ASSUME RunInv, NEW b \in Batch, handleBatchProcess(b) \/ Take(b) \/ deadLetter(b)
  PROVE  Kept \/ Run!Begin(b) \/ Run!End(b)
<1> USE Apart DEF documents, Kept, RunInv
<1>1. CASE SendBatch(b)
  BY <1>1 DEF SendBatch, SentInv, Run!End
<1>2. CASE Take(b)
  <2>1. batches[b] # "absent"
    BY <1>2 DEF Take, DoneInv, NeedsBatches
  <2> QED
    BY <1>2, <2>1 DEF Take, Run!Begin
<1>3. CASE getCampaignBatchStats(b) \/ Finalize(b) \/ AnnounceCompleted(b) \/ deadLetter(b)
  BY <1>3 DEF getCampaignBatchStats, Finalize, AnnounceCompleted, deadLetter
<1> QED
  BY <1>1, <1>2, <1>3 DEF handleBatchProcess

LEMMA BillingRun ==
  ASSUME RunInv, Billing
  PROVE  Kept \/ Run!Park \/ Run!Settle
<1> USE DEF documents, Kept
<1>1. CASE handleCampaignCreated
  BY <1>1 DEF handleCampaignCreated, Reserved, Run!Park
<1>2. CASE handleCampaignCompleted
  <2>1. finished = Batch
    BY <1>2 DEF handleCampaignCompleted, RunInv, DoneInv, CompletedMeansFinished
  <2> QED
    BY <1>2, <2>1 DEF handleCampaignCompleted, Run!Settle
<1> QED
  BY <1>1, <1>2 DEF Billing

LEMMA RestRun ==
  ASSUME Create \/ LockExpires \/ Fault \/ Take(Start) \/ deadLetter(Start)
         \/ UNCHANGED vars
  PROVE  Kept
BY DEF Create, LockExpires, Take, deadLetter, vars, documents, Kept, Fault, Error, Crash,
       LaunchFails, Forget, SaveRunningFails, Lose, LockExpiresEarly

LEMMA RunStep ==
  ASSUME RunInv, [Next]_vars
  PROVE  [Run!Next]_(Run!vars)
<1>1. CASE Kept
  BY <1>1, StatusRun, DoneNext DEF RunInv, Kept
<1>2. CASE ~Kept
  <2>1. ASSUME NEW p \in Proc, Serve(p) \/ User(p) \/ Scheduler(p) \/ Consume(p)
        PROVE  Run!Next
    BY <1>2, <2>1, ProcsRun DEF Run!Next
  <2>2. CASE handleCampaignStart
    BY <1>2, <2>2, StartRun DEF Run!Next
  <2>3. ASSUME NEW b \in Batch, handleBatchProcess(b) \/ Take(b) \/ deadLetter(b)
        PROVE  Run!Next
    BY <1>2, <2>3, BatchRun DEF Run!Next
  <2>4. CASE Billing
    BY <1>2, <2>4, BillingRun DEF Run!Next
  <2>5. ~(Create \/ LockExpires \/ Fault \/ Take(Start) \/ deadLetter(Start)
          \/ UNCHANGED vars)
    BY <1>2, RestRun
  <2> QED
    BY <2>1, <2>2, <2>3, <2>4, <2>5 DEF Next, Job
<1> QED
  BY <1>1, <1>2

\* Launches, pauses, recoveries, jobs and events together do to batches, campaign and
\* money what CampaignRun allows.
THEOREM CampaignImplementsRun == Spec => ImplementsRun
<1>1. Init => Run!Init
  BY DEF Init, Run!Init
<1>2. RunInv /\ [Next]_vars => [Run!Next]_(Run!vars)
  BY RunStep
<1> QED
  BY <1>1, <1>2, RunAlways, PTL DEF Spec, ImplementsRun, Run!Spec

\* A batch that is being sent or was sent is never made PENDING again, though two
\* handlers that found no batches may both go on to create them.
THEOREM BatchesAreCreatedOnce == Spec => BatchesCreatedOnce
<1>1. RunInv /\ [Next]_vars =>
        [\A b \in Batch : batches'[b] = "PENDING" => batches[b] \in {"absent", "PENDING"}]_vars
  <2> SUFFICES ASSUME RunInv, [Next]_vars, NEW b \in Batch, batches'[b] = "PENDING"
               PROVE  batches[b] \in {"absent", "PENDING"}
    OBVIOUS
  <2>1. [Run!Next]_(Run!vars)
    BY RunStep
  <2> QED
    BY <2>1
    DEF Run!Next, Run!vars, Run!Fill, Run!Begin, Run!End, Run!Complete, Run!TakeBack,
        Run!Park, Run!Settle, RunInv, Shape, WorldOK
<1> QED
  BY <1>1, RunAlways, PTL DEF Spec, BatchesCreatedOnce

=============================================================================

----------------------------- MODULE Automation -----------------------------
(***************************************************************************)
(* automation-service: what becomes of an inbound message, and the rules   *)
(* that run on a schedule.                                                 *)
(*                                                                         *)
(* A request takes a message from stage to stage (the checkout bot, auto   *)
(* replies, workflows, the answer bot, intents) until one of them handled  *)
(* it.  A heartbeat, one job for all replicas, queues the rules that are   *)
(* due in the minute it is worked on; workers take those jobs.  Both run a *)
(* rule by FlowExecutorService.execute, which walks the rule's graph, logs *)
(* what it does in an execution document, and throws only when it cannot   *)
(* log a failure or announce it.                                           *)
(*                                                                         *)
(* All rules have one graph; where its logic nodes lead is left open.      *)
(***************************************************************************)
EXTENDS Integers, Sequences

CONSTANTS
  Message,    \* inbound messages
  Talking,    \* rules a message can trigger
  Scheduled,  \* rules with a schedule
  Every,      \* Scheduled -> intervalMinutes
  Minute,     \* minutes of a day the heartbeat comes to; bounds TLC
  Replica,    \* replicas of the service
  Exec,       \* executions, numbered; bounds TLC
  Node,       \* the graph
  Trigger,    \* its trigger node
  Texts,      \* nodes that send a message, or fail
  Templates,  \* nodes that send a template; their failure is never reported
  Steady,     \* nodes with continueOnFailure
  Succ,       \* Node -> where its edges can lead
  End,        \* no node: there is no edge for the outcome
  NoExec,     \* no execution
  Replies,    \* auto replies a message can match
  MaxFaults   \* bound on faults

Rule == Talking \cup Scheduled

\* A number as String() writes it: without leading zeros.
Digits(n) == IF n < 10 THEN <<n>> ELSE <<n \div 10, n % 10>>
\* The bug of naming a job after the rule alone.
MutantStamp(t) == <<>>

\* The end of a job's id: hours and minutes, put together.
Stamp(t) == Digits(t \div 60) \o Digits(t % 60)
JobId == {<<r, Stamp(t)>> : r \in Scheduled, t \in Minute}

ASSUME AutomationAssumption ==
  /\ Every \in [Scheduled -> Nat \ {0}]
  /\ Minute \subseteq 0 .. 24 * 60 - 1 /\ Minute # {}
  /\ Trigger \in Node /\ End \notin Node
  /\ Texts \subseteq Node \ {Trigger} /\ Templates \subseteq Node \ {Trigger}
  /\ Texts \cap Templates = {}
  /\ Succ \in [Node -> SUBSET (Node \cup {End})]
  /\ Exec \subseteq Nat
  /\ NoExec \notin Exec /\ NoExec \notin Message /\ NoExec \notin JobId
  /\ Replies \in Nat /\ MaxFaults \in Nat

VARIABLES
  now,      \* the minute
  tick,     \* whether the heartbeat's job waits
  dispatch, \* Replica -> the minute it works on and the due rules it has left
  job,      \* job id -> its state in the queue
  message,  \* Message -> its stage
  sent,     \* history: Message -> stages that sent or did something for it
  exec,     \* Exec -> the execution: its document and where it stands
  offered,  \* history: due rules the heartbeat came to, with their minute
  queued,   \* history: those for which it made a job
  stalled,  \* jobs whose worker died
  struck,   \* history: executions and messages that met a fault
  faults    \* faults so far; bounds TLC

clock == <<now, tick, dispatch, offered, queued>>
trouble == <<struck, faults>>
vars == <<clock, job, stalled, message, sent, exec, trouble>>

isDue(r, t) == (t % 60) % Every[r] = 0

Stage == {"checkout", "auto", "flow", "intent"}
Ended == {"handled", "unhandled", "lost"}
Returned == {"over", "threw", "dead"}

Idle == [busy |-> FALSE, at |-> 0, left |-> {}]
Arriving == [stage |-> "new", tries |-> 0, left |-> {}, run |-> NoExec, any |-> FALSE]
Unused == [pc |-> "none", rule |-> NoExec, caller |-> NoExec, node |-> Trigger,
           visited |-> {}, acts |-> [n \in Node |-> 0], failed |-> {},
           status |-> "none"]

Caller == Message \cup JobId
Status == {"none", "PENDING", "SUCCESS", "FAILED"}
Pc == {"none", "read", "start", "walk", "save", "announce", "fail", "tell"} \cup Returned

Dispatch == [busy : BOOLEAN, at : Minute \cup {0}, left : SUBSET Scheduled]
Passage ==
  [stage : {"new", "checkout", "auto", "flows", "faq", "intent"} \cup Ended,
   tries : 0..Replies, left : SUBSET Talking, run : Exec \cup {NoExec}, any : BOOLEAN]
Execution ==
  [pc : Pc, rule : Rule \cup {NoExec}, caller : Caller \cup {NoExec},
   node : Node \cup {End}, visited : SUBSET Node, acts : [Node -> 0..2],
   failed : SUBSET Node, status : Status]

TypeOK ==
  /\ now \in Minute /\ tick \in BOOLEAN
  /\ dispatch \in [Replica -> Dispatch]
  /\ job \in [JobId -> {"none", "waiting", "active", "done", "failed"}]
  /\ message \in [Message -> Passage]
  /\ sent \in [Message -> SUBSET Stage]
  /\ exec \in [Exec -> Execution]
  /\ queued \subseteq offered /\ offered \subseteq Scheduled \X Minute
  /\ stalled \subseteq JobId
  /\ struck \subseteq Exec \cup Message
  /\ faults \in 0..MaxFaults

Init ==
  /\ now \in {t \in Minute : \A u \in Minute : t <= u}
  /\ tick = TRUE
  /\ dispatch = [d \in Replica |-> Idle]
  /\ job = [i \in JobId |-> "none"]
  /\ message = [m \in Message |-> Arriving]
  /\ sent = [m \in Message |-> {}]
  /\ exec = [e \in Exec |-> Unused]
  /\ offered = {} /\ queued = {}
  /\ stalled = {} /\ struck = {} /\ faults = 0

Fault(who) ==
  /\ faults < MaxFaults
  /\ faults' = faults + 1
  /\ struck' = struck \cup who

-----------------------------------------------------------------------------
(* The schedule. *)

\* Time goes on to the next minute, and the heartbeat's job is due once more.
Advance ==
  /\ \E t \in Minute : t > now
  /\ now' \in {t \in Minute : t > now /\ \A u \in Minute : u > now => t <= u}
  /\ tick' = TRUE
  /\ UNCHANGED <<dispatch, offered, queued, job, stalled, message, sent, exec, trouble>>

\* A replica takes the heartbeat's job, and finds the rules due in this minute.
Tick(d) ==
  /\ tick /\ ~dispatch[d].busy
  /\ tick' = FALSE
  /\ dispatch' = [dispatch EXCEPT ![d] =
                    [busy |-> TRUE, at |-> now,
                     left |-> {r \in Scheduled : isDue(r, now)}]]
  /\ UNCHANGED <<now, offered, queued, job, stalled, message, sent, exec, trouble>>

\* The bug of adding a job anew when one of its id has finished.
MutantDispatchDueRule(d, r) ==
  LET t == dispatch[d].at
      i == <<r, Stamp(t)>>
  IN
  /\ r \in dispatch[d].left
  /\ job' = [job EXCEPT ![i] = IF @ \in {"none", "done"} THEN "waiting" ELSE @]
  /\ dispatch' = [dispatch EXCEPT ![d].left = @ \ {r}]
  /\ offered' = offered \cup {<<r, t>>}
  /\ queued' = IF job[i] \in {"none", "done"} THEN queued \cup {<<r, t>>} ELSE queued
  /\ UNCHANGED <<now, tick, stalled, message, sent, exec, trouble>>

\* A due rule's job is added, unless the queue knows its id: the last thousand
\* finished jobs of a day are kept.
dispatchDueRule(d, r) ==
  LET t == dispatch[d].at
      i == <<r, Stamp(t)>>
  IN
  /\ r \in dispatch[d].left
  /\ job' = [job EXCEPT ![i] = IF @ = "none" THEN "waiting" ELSE @]
  /\ dispatch' = [dispatch EXCEPT ![d].left = @ \ {r}]
  /\ offered' = offered \cup {<<r, t>>}
  /\ queued' = IF job[i] = "none" THEN queued \cup {<<r, t>>} ELSE queued
  /\ UNCHANGED <<now, tick, stalled, message, sent, exec, trouble>>

\* The heartbeat's job is done, and gone.
TickDone(d) ==
  /\ dispatch[d].busy /\ dispatch[d].left = {}
  /\ dispatch' = [dispatch EXCEPT ![d] = Idle]
  /\ UNCHANGED <<now, tick, offered, queued, job, stalled, message, sent, exec, trouble>>

\* A replica dies before, and the job goes to another; or Redis or MongoDB fails it,
\* which is logged.
DispatchFails(d) ==
  /\ dispatch[d].busy
  /\ Fault({})
  /\ dispatch' = [dispatch EXCEPT ![d] = Idle]
  /\ tick' \in {tick, TRUE}
  /\ UNCHANGED <<now, offered, queued, job, stalled, message, sent, exec>>

Begin(e, r, caller) ==
  /\ exec[e].pc = "none" /\ \A f \in Exec : f < e => exec[f].pc # "none"
  /\ exec' = [exec EXCEPT ![e].pc = "read", ![e].rule = r, ![e].caller = caller]

TakeJob(i, e) ==
  /\ job[i] = "waiting"
  /\ job' = [job EXCEPT ![i] = "active"]
  /\ Begin(e, i[1], i)
  /\ UNCHANGED <<clock, stalled, message, sent, trouble>>

\* The worker swallows what the execution throws.
EndJob(i) ==
  /\ job[i] = "active"
  /\ \E e \in Exec : exec[e].caller = i /\ exec[e].pc \in {"over", "threw"}
  /\ job' = [job EXCEPT ![i] = "done"]
  /\ UNCHANGED <<clock, stalled, message, sent, exec, trouble>>

-----------------------------------------------------------------------------
(* A message. *)

At(m, s) == message[m].stage = s
GoTo(m, s) == message' = [message EXCEPT ![m].stage = s]
Sends(m, s) == sent' = [sent EXCEPT ![m] = @ \cup {s}]

handleInboundMessage(m) ==
  /\ At(m, "new")
  /\ GoTo(m, "checkout")
  /\ UNCHANGED <<clock, job, stalled, sent, exec, trouble>>

\* Whether the checkout bot handled the message is looked for in the wrong place,
\* so all others are asked in any case.
Checkout(m) ==
  /\ At(m, "checkout")
  /\ Sends(m, "checkout") \/ UNCHANGED sent
  /\ GoTo(m, "auto")
  /\ UNCHANGED <<clock, job, stalled, exec, trouble>>

\* The first matching rule whose reply chat-service accepts.
handleRuleBasedAutoReply(m) ==
  /\ At(m, "auto")
  /\ message[m].tries < Replies
  /\ \/ GoTo(m, "handled") /\ Sends(m, "auto")
     \/ message' = [message EXCEPT ![m].tries = @ + 1] /\ UNCHANGED sent
  /\ UNCHANGED <<clock, job, stalled, exec, trouble>>

\* No rule is left; the workflows that listen and match are found.
NoAutoReply(m) ==
  /\ At(m, "auto")
  /\ \E rules \in SUBSET Talking :
       message' = [message EXCEPT ![m].stage = "flows", ![m].left = rules]
  /\ UNCHANGED <<clock, job, stalled, sent, exec, trouble>>

\* One workflow after the other.
handleEvent(m, r, e) ==
  /\ At(m, "flows")
  /\ message[m].run = NoExec
  /\ r \in message[m].left
  /\ message' = [message EXCEPT ![m].left = @ \ {r}, ![m].run = e, ![m].any = TRUE]
  /\ Begin(e, r, m)
  /\ UNCHANGED <<clock, job, stalled, sent, trouble>>

\* The bug of counting only workflows that succeeded.
MutantFlowReturns(m) ==
  LET e == message[m].run IN
  /\ At(m, "flows")
  /\ e # NoExec
  /\ \/ /\ exec[e].pc = "over"
        /\ message' = [message EXCEPT ![m].run = NoExec,
                                      ![m].any = exec[e].status = "SUCCESS"]
     \/ /\ exec[e].pc = "threw"
        /\ message' = [message EXCEPT ![m].run = NoExec, ![m].stage = "faq"]
  /\ UNCHANGED <<clock, job, stalled, sent, exec, trouble>>

\* The bug of not catching what the executor throws: nobody goes on.
MutantNoCatch(m) ==
  /\ At(m, "flows")
  /\ message[m].run # NoExec
  /\ exec[message[m].run].pc = "over"
  /\ message' = [message EXCEPT ![m].run = NoExec]
  /\ UNCHANGED <<clock, job, stalled, sent, exec, trouble>>

\* A failed execution returns all the same; one that throws counts for none, and
\* ends the loop.
FlowReturns(m) ==
  LET e == message[m].run IN
  /\ At(m, "flows")
  /\ e # NoExec
  /\ \/ /\ exec[e].pc = "over"
        /\ message' = [message EXCEPT ![m].run = NoExec]
     \/ /\ exec[e].pc = "threw"
        /\ message' = [message EXCEPT ![m].run = NoExec, ![m].stage = "faq"]
  /\ UNCHANGED <<clock, job, stalled, sent, exec, trouble>>

FlowsDone(m) ==
  /\ At(m, "flows")
  /\ message[m].run = NoExec /\ message[m].left = {}
  /\ GoTo(m, IF message[m].any THEN "handled" ELSE "faq")
  /\ UNCHANGED <<clock, job, stalled, sent, exec, trouble>>

\* An answer that matches handles the message, and is not sent: what it is given
\* for the conversation is its id, in which it finds no phone number.
AnswerBot(m) ==
  /\ At(m, "faq")
  /\ GoTo(m, "handled") \/ GoTo(m, "intent")
  /\ UNCHANGED <<clock, job, stalled, sent, exec, trouble>>

\* An intent's actions, if one matches and one of them is carried out.
AIIntent(m) ==
  /\ At(m, "intent")
  /\ \/ GoTo(m, "handled") /\ Sends(m, "intent")
     \/ GoTo(m, "unhandled") /\ UNCHANGED sent
  /\ UNCHANGED <<clock, job, stalled, exec, trouble>>

\* chat-service carries out an auto reply and its answer is lost, so that the next
\* is tried; MongoDB fails the search for workflows, which are skipped then, or
\* another stage, which ends it; or the request dies.
StageFails(m) ==
  /\ message[m].stage \in {"checkout", "auto", "flows", "faq", "intent"}
  /\ message[m].run = NoExec
  /\ Fault({m})
  /\ \/ /\ At(m, "auto") /\ message[m].tries < Replies
        /\ message' = [message EXCEPT ![m].tries = @ + 1]
        /\ Sends(m, "auto")
     \/ At(m, "flows") /\ ~message[m].any /\ GoTo(m, "faq") /\ UNCHANGED sent
     \/ /\ message[m].stage \in {"faq", "intent"} \/ (At(m, "auto") /\ message[m].tries = 0)
        /\ GoTo(m, "unhandled")
        /\ \/ UNCHANGED sent
           \/ At(m, "intent") /\ Sends(m, "intent")
     \/ GoTo(m, "lost") /\ UNCHANGED sent
  /\ UNCHANGED <<clock, job, stalled, exec>>

-----------------------------------------------------------------------------
(* FlowExecutorService.execute. *)

In(e, s) == exec[e].pc = s
Step(e, s) == exec' = [exec EXCEPT ![e].pc = s]

\* The rule is read, and an execution document made.
CreateLog(e) ==
  /\ In(e, "read")
  /\ exec' = [exec EXCEPT ![e].pc = "start", ![e].status = "PENDING"]
  /\ UNCHANGED <<clock, job, stalled, message, sent, trouble>>

\* workflow_started is published.
Started(e) ==
  /\ In(e, "start")
  /\ Step(e, "walk")
  /\ UNCHANGED <<clock, job, stalled, message, sent, trouble>>

\* The bug of not knowing where the walk has been.
MutantArrived(e) == exec[e].node = End

\* No node, or one that was visited: the walk ends.
Arrived(e) == exec[e].node = End \/ exec[e].node \in exec[e].visited

\* Where to go from a node: nowhere without edges, and with a logic node without
\* one for its outcome.
Moves(e, n) ==
  IF Succ[n] = {} THEN {End} ELSE Succ[n]

\* Once, or more than once.
Acted(e, n) == [exec[e].acts EXCEPT ![n] = IF @ = 0 THEN 1 ELSE 2]
Passed(e, n, next) ==
  [exec EXCEPT ![e].visited = @ \cup {n}, ![e].node = next,
               ![e].acts = IF n \in Texts \cup Templates THEN Acted(e, n) ELSE @]
Tells(e) ==
  IF exec[e].caller \in Message THEN Sends(exec[e].caller, "flow") ELSE UNCHANGED sent

\* A node that sends nothing, or one whose message chat-service sent.  A template
\* counts as sent even if it was not.  A scheduled run knows nobody's phone number,
\* so that its messages are refused.
Visit(e) ==
  LET n == exec[e].node IN
  /\ In(e, "walk") /\ ~Arrived(e)
  /\ n \in Texts => exec[e].caller \in Message
  /\ \E next \in Moves(e, n) : exec' = Passed(e, n, next)
  /\ IF n \in Texts \cup Templates
     THEN \/ Tells(e)
          \/ n \in Templates /\ UNCHANGED sent
     ELSE UNCHANGED sent
  /\ UNCHANGED <<clock, job, stalled, message, trouble>>

\* The bug of going on after every failure.
MutantRefused(e) ==
  LET n == exec[e].node IN
  /\ In(e, "walk") /\ ~Arrived(e) /\ n \in Texts
  /\ \E next \in Moves(e, n) :
       exec' = [Passed(e, n, next) EXCEPT ![e].failed = @ \cup {n}]
  /\ UNCHANGED <<clock, job, stalled, message, sent, trouble>>

\* chat-service reports that it failed.
Refused(e) ==
  LET n == exec[e].node IN
  /\ In(e, "walk") /\ ~Arrived(e) /\ n \in Texts
  /\ \E next \in Moves(e, n) :
       exec' = [Passed(e, n, next) EXCEPT
                  ![e].failed = @ \cup {n},
                  ![e].pc = IF n \in Steady THEN "walk" ELSE "fail"]
  /\ UNCHANGED <<clock, job, stalled, message, sent, trouble>>

EndOfWalk(e) ==
  /\ In(e, "walk") /\ Arrived(e)
  /\ Step(e, "save")
  /\ UNCHANGED <<clock, job, stalled, message, sent, trouble>>

Success(e) ==
  /\ In(e, "save")
  /\ exec' = [exec EXCEPT ![e].pc = "announce", ![e].status = "SUCCESS"]
  /\ UNCHANGED <<clock, job, stalled, message, sent, trouble>>

Failure(e) ==
  /\ In(e, "fail")
  /\ exec' = [exec EXCEPT ![e].pc = "tell", ![e].status = "FAILED"]
  /\ UNCHANGED <<clock, job, stalled, message, sent, trouble>>

\* workflow_completed is published.
Completed(e) ==
  /\ In(e, "announce") \/ In(e, "tell")
  /\ Step(e, "over")
  /\ UNCHANGED <<clock, job, stalled, message, sent, trouble>>

\* MongoDB or Redis fails a step.  Before there is a document nothing is left behind
\* and nothing thrown; afterwards the execution counts as failed, even one that was
\* saved as a success and cannot be announced; and what fails then is thrown.
ExecFails(e) ==
  /\ \/ In(e, "read") /\ Step(e, "over")
     \/ exec[e].pc \in {"start", "save", "announce"} /\ Step(e, "fail")
     \/ exec[e].pc \in {"fail", "tell"} /\ Step(e, "threw")
  /\ Fault({e} \cup (Message \cap {exec[e].caller}))
  /\ UNCHANGED <<clock, job, stalled, message, sent>>

\* chat-service sends the message and its answer is lost: the node counts as failed.
AnswerLost(e) ==
  LET n == exec[e].node IN
  /\ In(e, "walk") /\ ~Arrived(e)
  /\ n \in Texts => exec[e].caller \in Message
  /\ n \in Texts \cup Templates
  /\ \E next \in Moves(e, n) :
       exec' = [Passed(e, n, next) EXCEPT
                  ![e].failed = @ \cup {n},
                  ![e].pc = IF n \in Steady THEN "walk" ELSE "fail"]
  /\ Tells(e)
  /\ Fault({e} \cup (Message \cap {exec[e].caller}))
  /\ UNCHANGED <<clock, job, stalled, message>>

\* The process that runs an execution dies: a message is lost, a job taken up again,
\* once.
Crash(e) ==
  LET by == exec[e].caller IN
  /\ exec[e].pc \notin Returned \cup {"none"}
  /\ Step(e, "dead")
  /\ IF by \in Message
     THEN GoTo(by, "lost") /\ UNCHANGED <<job, stalled>>
     ELSE /\ job' = [job EXCEPT ![by] = IF by \in stalled THEN "failed" ELSE "waiting"]
          /\ stalled' = stalled \cup {by}
          /\ UNCHANGED message
  /\ Fault({e} \cup (Message \cap {by}))
  /\ UNCHANGED <<clock, sent>>

-----------------------------------------------------------------------------
Schedule ==
  \/ Advance
  \/ \E d \in Replica : Tick(d) \/ TickDone(d) \/ DispatchFails(d)
                        \/ \E r \in Scheduled : dispatchDueRule(d, r)

Run(e) ==
  \/ CreateLog(e) \/ Started(e) \/ Visit(e) \/ Refused(e)
  \/ EndOfWalk(e) \/ Success(e) \/ Failure(e) \/ Completed(e)

Handle(m) ==
  \/ handleInboundMessage(m) \/ Checkout(m)
  \/ handleRuleBasedAutoReply(m) \/ NoAutoReply(m)
  \/ \E r \in Talking, e \in Exec : handleEvent(m, r, e)
  \/ FlowReturns(m) \/ FlowsDone(m) \/ AnswerBot(m) \/ AIIntent(m)

Next ==
  \/ Schedule
  \/ \E i \in JobId : EndJob(i) \/ \E e \in Exec : TakeJob(i, e)
  \/ \E m \in Message : Handle(m) \/ StageFails(m)
  \/ \E e \in Exec : Run(e) \/ ExecFails(e) \/ AnswerLost(e) \/ Crash(e)

Spec == Init /\ [][Next]_vars

\* Requests and workers go on as long as they live, and BullMQ hands out what waits.
Fairness ==
  /\ \A e \in Exec : WF_vars(Run(e))
  /\ \A m \in Message : WF_vars(Handle(m))
  /\ \A i \in JobId : WF_vars(EndJob(i)) /\ WF_vars(\E e \in Exec : TakeJob(i, e))

FairSpec == Spec /\ Fairness

-----------------------------------------------------------------------------
\* Whatever the heartbeat repeats, on any replica, a rule runs once in a minute, but
\* for runs whose worker died.
RunsOnce ==
  \A e, f \in Exec :
    e # f /\ exec[e].caller = exec[f].caller /\ exec[e].caller \in JobId
      => "dead" \in {exec[e].pc, exec[f].pc}

\* The log tells what happened: success, that no node failed that should have stopped
\* the flow; failure, that one did or a fault came in; pending, that the flow is
\* under way or met a fault.
LogTells ==
  \A e \in Exec :
    LET log == exec[e].status
        stopped == ~(exec[e].failed \subseteq Steady)
    IN
    /\ log = "SUCCESS" => ~stopped
    /\ log = "FAILED" => stopped \/ e \in struck
    /\ log = "PENDING" /\ exec[e].pc \in Returned => e \in struck

\* A flow that goes round in a circle acts once at each of its nodes.
ActsOnce == \A e \in Exec, n \in Node : exec[e].acts[n] <= 1

\* One stage answers a message, the checkout bot aside, if no call for it failed.
OneStageAnswers ==
  \A m \in Message \ struck : \A s, t \in sent[m] \ {"checkout"} : s = t

\* A message that the service took up is done with in the end, and the execution it
\* waits for as well, also on a graph with circles.
MessagesEnd == \A m \in Message : At(m, "checkout") ~> message[m].stage \in Ended

\* A run that was queued comes to an end.
JobsEnd == \A i \in JobId : job[i] = "waiting" ~> job[i] \in {"done", "failed"}

\* 1:10 looks like 11:00 without leading zeros; what is before 1:00 looks like nothing
\* else.
LooksLike(u, t) ==
  /\ u >= 60 /\ u % 60 >= 10
  /\ t \div 60 = 10 * (u \div 60) + (u % 60) \div 10 /\ t % 60 = u % 10

\* A rule that is due when the heartbeat comes to it gets a run for that minute,
\* unless it had one for another minute that looks the same.
DueRunsAreQueued ==
  \A r \in Scheduled, t \in Minute : <<r, t>> \in offered =>
    \/ <<r, t>> \in queued
    \/ \E u \in Minute :
         (LooksLike(u, t) \/ LooksLike(t, u)) /\ <<r, u>> \in queued
=============================================================================

-------------------------- MODULE AutomationProofs --------------------------
(***************************************************************************)
(* Proofs about Automation, for any rules, graphs, schedules, messages,    *)
(* replicas and faults.                                                    *)
(***************************************************************************)
EXTENDS Automation, TLAPS

-----------------------------------------------------------------------------
(* The inductive invariant.                                                *)

ClockOK ==
  /\ now \in Minute /\ tick \in BOOLEAN
  /\ dispatch \in [Replica -> Dispatch]
  /\ \A d \in Replica : dispatch[d].left # {} => dispatch[d].at \in Minute
  /\ queued \subseteq offered /\ offered \subseteq Scheduled \X Minute

JobOK ==
  /\ job \in [JobId -> {"none", "waiting", "active", "done", "failed"}]
  /\ stalled \subseteq JobId

MessageOK ==
  /\ message \in [Message -> Passage]
  /\ sent \in [Message -> SUBSET Stage]

ExecOK == exec \in [Exec -> Execution]

TroubleOK == struck \subseteq Exec \cup Message /\ faults \in 0..MaxFaults

\* Who waits for an execution is known once it has begun.
CallerInv ==
  /\ \A e \in Exec : exec[e].pc = "none" <=> exec[e].caller = NoExec
  /\ \A e \in Exec : exec[e].pc # "none" => exec[e].caller \in Caller

\* A job that is not yet taken has no execution that may still act.
JobInv ==
  \A e \in Exec :
    exec[e].caller \in JobId /\ job[exec[e].caller] \in {"none", "waiting"}
    => exec[e].pc = "dead"

\* The log while the execution is under way.
Log(e) ==
  LET pc == exec[e].pc
      log == exec[e].status
      stopped == ~(exec[e].failed \subseteq Steady)
  IN
  /\ pc \in {"none", "read"} => log = "none" /\ ~stopped
  /\ pc \in {"start", "walk", "save"} => log = "PENDING" /\ ~stopped
  /\ pc = "announce" => log = "SUCCESS"
  /\ pc = "fail" => log \in {"PENDING", "SUCCESS"} /\ (stopped \/ e \in struck)
  /\ pc = "tell" => log = "FAILED"
  /\ pc = "over" => log # "PENDING"
  /\ pc \in {"threw", "dead"} => e \in struck
  /\ log = "SUCCESS" => ~stopped
  /\ log = "FAILED" => stopped \/ e \in struck

LogInv == \A e \in Exec : Log(e)

\* Where an execution acted it has been.
Acts(e) ==
  \A n \in Node : /\ exec[e].acts[n] <= 1
                  /\ exec[e].acts[n] = 1 => n \in exec[e].visited

ActsInv == \A e \in Exec : Acts(e)

\* A message waits for its execution, and for no other.
Under(e) == exec[e].caller \in Message /\ exec[e].pc \notin Returned

Waits(e) ==
  LET m == message[exec[e].caller] IN
  Under(e) => m.stage = "flows" /\ m.run = e /\ m.any

WaitInv == \A e \in Exec : Waits(e)

RunInv ==
  \A m \in Message : message[m].run # NoExec => exec[message[m].run].caller = m

\* An execution that threw was struck by a fault, and so was its message.
StruckInv ==
  \A e \in Exec :
    exec[e].caller \in Message /\ exec[e].pc \in {"threw", "dead"}
    => exec[e].caller \in struck

\* What may have answered a message, stage by stage.
Answered(m) ==
  LET others == sent[m] \ {"checkout"}
      stage == message[m].stage
  IN
  /\ stage \in {"new", "checkout", "auto", "faq", "intent"} => others = {}
  /\ stage = "flows" => others \subseteq {"flow"} /\ (~message[m].any => others = {})
  /\ \A s, t \in others : s = t

AnswerInv == \A m \in Message \ struck : Answered(m)

Inv ==
  /\ ClockOK /\ JobOK /\ MessageOK /\ ExecOK /\ TroubleOK
  /\ CallerInv /\ JobInv /\ RunsOnce /\ LogInv /\ ActsInv
  /\ WaitInv /\ RunInv /\ StruckInv /\ AnswerInv

LEMMA InitInv == Init => Inv
<1> USE AutomationAssumption
<1>1. Init => ClockOK /\ JobOK /\ TroubleOK
  BY DEF Init, ClockOK, JobOK, TroubleOK, Idle, Dispatch
<1>2. Init => MessageOK
  BY DEF Init, MessageOK, Arriving, Passage, Stage
<1>3. Unused \in Execution
  BY DEF Unused, Execution, Pc, Status
<1>4. Init => ExecOK /\ \A e \in Exec : exec[e] = Unused
  BY <1>3 DEF Init, ExecOK
<1>5. Init => CallerInv /\ JobInv /\ RunsOnce /\ WaitInv /\ StruckInv
  BY <1>4 DEF Unused, CallerInv, JobInv, RunsOnce, WaitInv, Waits, Under, StruckInv
<1>6. Init => LogInv
  BY <1>4 DEF Unused, LogInv, Log
<1>7. Init => ActsInv
  BY <1>4 DEF Unused, ActsInv, Acts
<1>8. Init => RunInv /\ AnswerInv
  BY DEF Init, Arriving, RunInv, AnswerInv, Answered
<1> QED
  BY <1>1, <1>2, <1>4, <1>5, <1>6, <1>7, <1>8 DEF Inv

-----------------------------------------------------------------------------
(* Each part is kept by every step.                                        *)


Stages == {"new", "checkout", "auto", "flows", "faq", "intent"} \cup Ended

LEMMA GoToKeeps ==
  ASSUME MessageOK, NEW m \in Message, NEW s \in Stages, GoTo(m, s)
  PROVE  message' \in [Message -> Passage]
BY DEF MessageOK, GoTo, Passage, Stages

LEMMA SendsKeeps ==
  ASSUME MessageOK, NEW m \in Message, NEW s \in Stage, Sends(m, s)
  PROVE  sent' \in [Message -> SUBSET Stage]
BY DEF MessageOK, Sends

LEMMA TellsKeeps ==
  ASSUME MessageOK, NEW e \in Exec, Tells(e) PROVE sent' \in [Message -> SUBSET Stage]
BY SendsKeeps DEF MessageOK, Tells, Stage

LEMMA ActedIsTyped ==
  ASSUME ExecOK, NEW e \in Exec, NEW n \in Node PROVE Acted(e, n) \in [Node -> 0..2]
BY DEF ExecOK, Execution, Acted

\* What a change of the program counter leaves alone.
LEMMA StepKeeps ==
  ASSUME ExecOK, NEW e \in Exec, NEW s \in Pc, Step(e, s)
  PROVE  /\ ExecOK'
         /\ \A f \in Exec \ {e} : exec'[f] = exec[f]
         /\ exec'[e] = [exec[e] EXCEPT !.pc = s]
BY DEF ExecOK, Execution, Step

LEMMA BeginKeeps ==
  ASSUME ExecOK, NEW e \in Exec, NEW r \in Rule, NEW c \in Caller, Begin(e, r, c)
  PROVE  ExecOK'
<1>1. exec[e] \in Execution
  BY DEF ExecOK
<1>2. [exec[e] EXCEPT !.pc = "read", !.rule = r, !.caller = c] \in Execution
  BY <1>1 DEF Execution, Pc
<1>3. exec' = [exec EXCEPT ![e] = [exec[e] EXCEPT !.pc = "read", !.rule = r, !.caller = c]]
  BY DEF Begin, ExecOK
<1> QED
  BY <1>2, <1>3 DEF ExecOK

\* Where a node's edges lead.
LEMMA MovesAreTyped ==
  ASSUME NEW e \in Exec, NEW n \in Node PROVE Moves(e, n) \subseteq Node \cup {End}
BY AutomationAssumption DEF Moves

\* The record of an execution that passed a node.
After(e, n, next) ==
  [exec[e] EXCEPT !.visited = @ \cup {n}, !.node = next,
                  !.acts = IF n \in Texts \cup Templates THEN Acted(e, n) ELSE @]

LEMMA PassedKeeps ==
  ASSUME ExecOK, NEW e \in Exec, NEW n \in Node, NEW next \in Node \cup {End}
  PROVE  /\ Passed(e, n, next) = [exec EXCEPT ![e] = After(e, n, next)]
         /\ After(e, n, next) \in Execution
<1>1. exec[e] \in Execution
  BY DEF ExecOK
<1>2. Passed(e, n, next) = [exec EXCEPT ![e] = After(e, n, next)]
  BY DEF Passed, After, ExecOK
<1>3. (IF n \in Texts \cup Templates THEN Acted(e, n) ELSE exec[e].acts) \in [Node -> 0..2]
  BY <1>1, ActedIsTyped DEF Execution
<1>4. After(e, n, next) \in Execution
  BY <1>1, <1>3 DEF Execution, After
<1> QED
  BY <1>2, <1>4

LEMMA HereIsANode ==
  ASSUME ExecOK, NEW e \in Exec, ~Arrived(e) PROVE exec[e].node \in Node
BY DEF ExecOK, Execution, Arrived

\* The record of an execution one of whose nodes failed.
FailedAt(e, n, next) ==
  [After(e, n, next) EXCEPT !.failed = @ \cup {n},
                            !.pc = IF n \in Steady THEN "walk" ELSE "fail"]

LEMMA FailedKeeps ==
  ASSUME ExecOK, NEW e \in Exec, Refused(e) \/ AnswerLost(e)
  PROVE  \E next \in Node \cup {End} :
           /\ exec' = [exec EXCEPT ![e] = FailedAt(e, exec[e].node, next)]
           /\ FailedAt(e, exec[e].node, next) \in Execution
<1> DEFINE n == exec[e].node
<1>1. n \in Node
  BY HereIsANode DEF Refused, AnswerLost
<1>2. PICK next \in Moves(e, n) :
        exec' = [Passed(e, n, next) EXCEPT
                  ![e].failed = @ \cup {n},
                  ![e].pc = IF n \in Steady THEN "walk" ELSE "fail"]
  BY DEF Refused, AnswerLost
<1>3. next \in Node \cup {End}
  BY <1>1, <1>2, MovesAreTyped
<1>4. /\ Passed(e, n, next) = [exec EXCEPT ![e] = After(e, n, next)]
      /\ After(e, n, next) \in Execution
  BY <1>1, <1>3, PassedKeeps
<1> HIDE DEF n
<1>5. exec' = [exec EXCEPT ![e] = FailedAt(e, n, next)]
  BY <1>2, <1>4 DEF FailedAt, ExecOK
<1>6. FailedAt(e, n, next) \in Execution
  BY <1>1, <1>4 DEF FailedAt, Execution, Pc
<1> QED
  BY <1>3, <1>5, <1>6 DEF n

\* What a failed node changes in its execution.
NodeFailed(e) ==
  /\ \A f \in Exec \ {e} : exec'[f] = exec[f]
  /\ exec[e].pc = "walk" /\ ~Arrived(e) /\ exec[e].node \in Node
  /\ exec'[e].pc = IF exec[e].node \in Steady THEN "walk" ELSE "fail"
  /\ exec'[e].failed = exec[e].failed \cup {exec[e].node}
  /\ exec'[e].visited = exec[e].visited \cup {exec[e].node}
  /\ exec'[e].acts \in {exec[e].acts, Acted(e, exec[e].node)}
  /\ exec'[e].caller = exec[e].caller /\ exec'[e].status = exec[e].status

LEMMA FailedFields ==
  ASSUME ExecOK, NEW e \in Exec, Refused(e) \/ AnswerLost(e) PROVE NodeFailed(e)
<1>1. PICK next \in Node \cup {End} :
        exec' = [exec EXCEPT ![e] = FailedAt(e, exec[e].node, next)]
  BY FailedKeeps
<1>2. exec'[e] = FailedAt(e, exec[e].node, next) /\ \A f \in Exec \ {e} : exec'[f] = exec[f]
  BY <1>1 DEF ExecOK
<1>3. exec[e].pc = "walk" /\ ~Arrived(e) /\ exec[e].node \in Node
  BY HereIsANode DEF Refused, AnswerLost, In
<1>4. exec[e] \in Execution
  BY DEF ExecOK
<1>5. FailedAt(e, exec[e].node, next).acts \in {exec[e].acts, Acted(e, exec[e].node)}
  BY <1>4 DEF FailedAt, After, Execution
<1>6. /\ FailedAt(e, exec[e].node, next).pc = IF exec[e].node \in Steady THEN "walk" ELSE "fail"
      /\ FailedAt(e, exec[e].node, next).failed = exec[e].failed \cup {exec[e].node}
      /\ FailedAt(e, exec[e].node, next).visited = exec[e].visited \cup {exec[e].node}
      /\ FailedAt(e, exec[e].node, next).caller = exec[e].caller
      /\ FailedAt(e, exec[e].node, next).status = exec[e].status
  BY <1>4 DEF FailedAt, After, Execution
<1> QED
  BY <1>2, <1>3, <1>5, <1>6 DEF NodeFailed

LEMMA VisitPasses ==
  ASSUME ExecOK, NEW e \in Exec, Visit(e)
  PROVE  \E next \in Node \cup {End} :
           /\ exec' = [exec EXCEPT ![e] = After(e, exec[e].node, next)]
           /\ After(e, exec[e].node, next) \in Execution
<1>1. exec[e].node \in Node
  BY HereIsANode DEF Visit
<1>2. \E next \in Moves(e, exec[e].node) : exec' = Passed(e, exec[e].node, next)
  BY Zenon DEF Visit
<1>3. PICK next \in Moves(e, exec[e].node) : exec' = Passed(e, exec[e].node, next)
  BY <1>2
<1> QED
  BY <1>1, <1>3, MovesAreTyped, PassedKeeps

\* A visit tells nobody, or the message whose workflow it is.
LEMMA VisitTells ==
  ASSUME NEW e \in Exec, Visit(e)
  PROVE  \/ sent' = sent
         \/ exec[e].caller \in Message /\ Sends(exec[e].caller, "flow")
BY DEF Visit, Tells

LEMMA ClockKept ==
  ASSUME ClockOK, Next
  PROVE  ClockOK'
<1> USE AutomationAssumption DEF At, GoTo, Sends, In, Step, Dispatch, Idle
<1>1. ASSUME Advance PROVE ClockOK'
  BY <1>1 DEF Advance, ClockOK, clock, trouble
<1>2. ASSUME NEW d \in Replica, Tick(d) PROVE ClockOK'
  BY <1>2 DEF Tick, ClockOK, clock, trouble
<1>3. ASSUME NEW d \in Replica, TickDone(d) PROVE ClockOK'
  BY <1>3 DEF TickDone, ClockOK, clock, trouble
<1>4. ASSUME NEW d \in Replica, DispatchFails(d) PROVE ClockOK'
  BY <1>4 DEF DispatchFails, Fault, ClockOK, clock, trouble
<1>5. ASSUME NEW d \in Replica, NEW r \in Scheduled, dispatchDueRule(d, r)
     PROVE  ClockOK'
  <2> DEFINE t == dispatch[d].at
  <2>1. <<r, t>> \in Scheduled \X Minute
    BY <1>5 DEF dispatchDueRule, ClockOK
  <2>2. /\ offered' = offered \cup {<<r, t>>}
        /\ queued' = queued \/ queued' = queued \cup {<<r, t>>}
    BY <1>5 DEF dispatchDueRule
  <2>3. /\ now' \in Minute /\ tick' \in BOOLEAN
        /\ dispatch' \in [Replica -> Dispatch]
        /\ \A x \in Replica : dispatch'[x].left # {} => dispatch'[x].at \in Minute
    BY <1>5 DEF dispatchDueRule, ClockOK
  <2> QED
    BY <2>1, <2>2, <2>3 DEF ClockOK
<1>6. ASSUME NEW i \in JobId, EndJob(i) PROVE ClockOK'
  BY <1>6 DEF EndJob, ClockOK, clock, trouble
<1>7. ASSUME NEW i \in JobId, NEW e \in Exec, TakeJob(i, e) PROVE ClockOK'
  BY <1>7 DEF TakeJob, Begin, ClockOK, clock, trouble
<1>8. ASSUME NEW m \in Message, handleInboundMessage(m) PROVE ClockOK'
  BY <1>8 DEF handleInboundMessage, ClockOK, clock, trouble
<1>9. ASSUME NEW m \in Message, Checkout(m) PROVE ClockOK'
  BY <1>9 DEF Checkout, ClockOK, clock, trouble
<1>10. ASSUME NEW m \in Message, handleRuleBasedAutoReply(m) PROVE ClockOK'
  BY <1>10 DEF handleRuleBasedAutoReply, ClockOK, clock, trouble
<1>11. ASSUME NEW m \in Message, NoAutoReply(m) PROVE ClockOK'
  BY <1>11 DEF NoAutoReply, ClockOK, clock, trouble
<1>12. ASSUME NEW m \in Message, NEW r \in Talking, NEW e \in Exec, handleEvent(m, r, e)
     PROVE  ClockOK'
  BY <1>12 DEF handleEvent, Begin, ClockOK, clock, trouble
<1>13. ASSUME NEW m \in Message, FlowReturns(m) PROVE ClockOK'
  BY <1>13 DEF FlowReturns, ClockOK, clock, trouble
<1>14. ASSUME NEW m \in Message, FlowsDone(m) PROVE ClockOK'
  BY <1>14 DEF FlowsDone, ClockOK, clock, trouble
<1>15. ASSUME NEW m \in Message, AnswerBot(m) PROVE ClockOK'
  BY <1>15 DEF AnswerBot, ClockOK, clock, trouble
<1>16. ASSUME NEW m \in Message, AIIntent(m) PROVE ClockOK'
  BY <1>16 DEF AIIntent, ClockOK, clock, trouble
<1>17. ASSUME NEW m \in Message, StageFails(m) PROVE ClockOK'
  BY <1>17 DEF StageFails, Fault, ClockOK, clock, trouble
<1>18. ASSUME NEW e \in Exec, CreateLog(e) PROVE ClockOK'
  BY <1>18 DEF CreateLog, ClockOK, clock, trouble
<1>19. ASSUME NEW e \in Exec, Started(e) PROVE ClockOK'
  BY <1>19 DEF Started, ClockOK, clock, trouble
<1>20. ASSUME NEW e \in Exec, Visit(e) PROVE ClockOK'
  BY <1>20 DEF Visit, Passed, Tells, ClockOK, clock, trouble
<1>21. ASSUME NEW e \in Exec, Refused(e) PROVE ClockOK'
  BY <1>21 DEF Refused, Passed, ClockOK, clock, trouble
<1>22. ASSUME NEW e \in Exec, EndOfWalk(e) PROVE ClockOK'
  BY <1>22 DEF EndOfWalk, ClockOK, clock, trouble
<1>23. ASSUME NEW e \in Exec, Success(e) PROVE ClockOK'
  BY <1>23 DEF Success, ClockOK, clock, trouble
<1>24. ASSUME NEW e \in Exec, Failure(e) PROVE ClockOK'
  BY <1>24 DEF Failure, ClockOK, clock, trouble
<1>25. ASSUME NEW e \in Exec, Completed(e) PROVE ClockOK'
  BY <1>25 DEF Completed, ClockOK, clock, trouble
<1>26. ASSUME NEW e \in Exec, ExecFails(e) PROVE ClockOK'
  BY <1>26 DEF ExecFails, Fault, ClockOK, clock, trouble
<1>27. ASSUME NEW e \in Exec, AnswerLost(e) PROVE ClockOK'
  BY <1>27 DEF AnswerLost, Fault, Passed, Tells, ClockOK, clock, trouble
<1>28. ASSUME NEW e \in Exec, Crash(e) PROVE ClockOK'
  BY <1>28 DEF Crash, Fault, ClockOK, clock, trouble
<1> QED
  BY <1>1, <1>2, <1>3, <1>4, <1>5, <1>6, <1>7, <1>8, <1>9, <1>10, <1>11, <1>12,
      <1>13, <1>14, <1>15, <1>16, <1>17, <1>18, <1>19, <1>20, <1>21, <1>22,
      <1>23, <1>24, <1>25, <1>26, <1>27, <1>28 DEF Next, Schedule, Run, Handle

LEMMA JobKept ==
  ASSUME JobOK, CallerInv, Next
  PROVE  JobOK'
<1> USE AutomationAssumption DEF At, GoTo, Sends, In, Step, Caller, Returned
<1>1. ASSUME Advance PROVE JobOK'
  BY <1>1 DEF Advance, JobOK, CallerInv, clock, trouble
<1>2. ASSUME NEW d \in Replica, Tick(d) PROVE JobOK'
  BY <1>2 DEF Tick, JobOK, CallerInv, clock, trouble
<1>3. ASSUME NEW d \in Replica, TickDone(d) PROVE JobOK'
  BY <1>3 DEF TickDone, JobOK, CallerInv, clock, trouble
<1>4. ASSUME NEW d \in Replica, DispatchFails(d) PROVE JobOK'
  BY <1>4 DEF DispatchFails, Fault, JobOK, CallerInv, clock, trouble
<1>5. ASSUME NEW d \in Replica, NEW r \in Scheduled, dispatchDueRule(d, r)
     PROVE  JobOK'
  BY <1>5 DEF dispatchDueRule, JobOK, CallerInv, clock, trouble
<1>6. ASSUME NEW i \in JobId, EndJob(i) PROVE JobOK'
  BY <1>6 DEF EndJob, JobOK, CallerInv, clock, trouble
<1>7. ASSUME NEW i \in JobId, NEW e \in Exec, TakeJob(i, e) PROVE JobOK'
  BY <1>7 DEF TakeJob, Begin, JobOK, CallerInv, clock, trouble
<1>8. ASSUME NEW m \in Message, handleInboundMessage(m) PROVE JobOK'
  BY <1>8 DEF handleInboundMessage, JobOK, CallerInv, clock, trouble
<1>9. ASSUME NEW m \in Message, Checkout(m) PROVE JobOK'
  BY <1>9 DEF Checkout, JobOK, CallerInv, clock, trouble
<1>10. ASSUME NEW m \in Message, handleRuleBasedAutoReply(m) PROVE JobOK'
  BY <1>10 DEF handleRuleBasedAutoReply, JobOK, CallerInv, clock, trouble
<1>11. ASSUME NEW m \in Message, NoAutoReply(m) PROVE JobOK'
  BY <1>11 DEF NoAutoReply, JobOK, CallerInv, clock, trouble
<1>12. ASSUME NEW m \in Message, NEW r \in Talking, NEW e \in Exec, handleEvent(m, r, e)
     PROVE  JobOK'
  BY <1>12 DEF handleEvent, Begin, JobOK, CallerInv, clock, trouble
<1>13. ASSUME NEW m \in Message, FlowReturns(m) PROVE JobOK'
  BY <1>13 DEF FlowReturns, JobOK, CallerInv, clock, trouble
<1>14. ASSUME NEW m \in Message, FlowsDone(m) PROVE JobOK'
  BY <1>14 DEF FlowsDone, JobOK, CallerInv, clock, trouble
<1>15. ASSUME NEW m \in Message, AnswerBot(m) PROVE JobOK'
  BY <1>15 DEF AnswerBot, JobOK, CallerInv, clock, trouble
<1>16. ASSUME NEW m \in Message, AIIntent(m) PROVE JobOK'
  BY <1>16 DEF AIIntent, JobOK, CallerInv, clock, trouble
<1>17. ASSUME NEW m \in Message, StageFails(m) PROVE JobOK'
  BY <1>17 DEF StageFails, Fault, JobOK, CallerInv, clock, trouble
<1>18. ASSUME NEW e \in Exec, CreateLog(e) PROVE JobOK'
  BY <1>18 DEF CreateLog, JobOK, CallerInv, clock, trouble
<1>19. ASSUME NEW e \in Exec, Started(e) PROVE JobOK'
  BY <1>19 DEF Started, JobOK, CallerInv, clock, trouble
<1>20. ASSUME NEW e \in Exec, Visit(e) PROVE JobOK'
  BY <1>20 DEF Visit, Passed, Tells, JobOK, CallerInv, clock, trouble
<1>21. ASSUME NEW e \in Exec, Refused(e) PROVE JobOK'
  BY <1>21 DEF Refused, Passed, JobOK, CallerInv, clock, trouble
<1>22. ASSUME NEW e \in Exec, EndOfWalk(e) PROVE JobOK'
  BY <1>22 DEF EndOfWalk, JobOK, CallerInv, clock, trouble
<1>23. ASSUME NEW e \in Exec, Success(e) PROVE JobOK'
  BY <1>23 DEF Success, JobOK, CallerInv, clock, trouble
<1>24. ASSUME NEW e \in Exec, Failure(e) PROVE JobOK'
  BY <1>24 DEF Failure, JobOK, CallerInv, clock, trouble
<1>25. ASSUME NEW e \in Exec, Completed(e) PROVE JobOK'
  BY <1>25 DEF Completed, JobOK, CallerInv, clock, trouble
<1>26. ASSUME NEW e \in Exec, ExecFails(e) PROVE JobOK'
  BY <1>26 DEF ExecFails, Fault, JobOK, CallerInv, clock, trouble
<1>27. ASSUME NEW e \in Exec, AnswerLost(e) PROVE JobOK'
  BY <1>27 DEF AnswerLost, Fault, Passed, Tells, JobOK, CallerInv, clock,
      trouble
<1>28. ASSUME NEW e \in Exec, Crash(e) PROVE JobOK'
  BY <1>28 DEF Crash, Fault, JobOK, CallerInv, clock, trouble
<1> QED
  BY <1>1, <1>2, <1>3, <1>4, <1>5, <1>6, <1>7, <1>8, <1>9, <1>10, <1>11, <1>12,
      <1>13, <1>14, <1>15, <1>16, <1>17, <1>18, <1>19, <1>20, <1>21, <1>22,
      <1>23, <1>24, <1>25, <1>26, <1>27, <1>28 DEF Next, Schedule, Run, Handle

LEMMA MessageKept ==
  ASSUME MessageOK, ExecOK, CallerInv, Next
  PROVE  MessageOK'
<1> USE AutomationAssumption DEF At, GoTo, Sends, In, Step, Ended, Returned,
    Caller
<1>1. ASSUME Advance PROVE MessageOK'
  BY <1>1 DEF Advance, MessageOK, ExecOK, CallerInv, clock, trouble
<1>2. ASSUME NEW d \in Replica, Tick(d) PROVE MessageOK'
  BY <1>2 DEF Tick, MessageOK, ExecOK, CallerInv, clock, trouble
<1>3. ASSUME NEW d \in Replica, TickDone(d) PROVE MessageOK'
  BY <1>3 DEF TickDone, MessageOK, ExecOK, CallerInv, clock, trouble
<1>4. ASSUME NEW d \in Replica, DispatchFails(d) PROVE MessageOK'
  BY <1>4 DEF DispatchFails, Fault, MessageOK, ExecOK, CallerInv, clock,
      trouble
<1>5. ASSUME NEW d \in Replica, NEW r \in Scheduled, dispatchDueRule(d, r)
     PROVE  MessageOK'
  BY <1>5 DEF dispatchDueRule, MessageOK, ExecOK, CallerInv, clock, trouble
<1>6. ASSUME NEW i \in JobId, EndJob(i) PROVE MessageOK'
  BY <1>6 DEF EndJob, MessageOK, ExecOK, CallerInv, clock, trouble
<1>7. ASSUME NEW i \in JobId, NEW e \in Exec, TakeJob(i, e) PROVE MessageOK'
  BY <1>7 DEF TakeJob, Begin, MessageOK, ExecOK, CallerInv, clock, trouble
<1>8. ASSUME NEW m \in Message, handleInboundMessage(m) PROVE MessageOK'
  BY <1>8, GoToKeeps, SendsKeeps DEF handleInboundMessage, MessageOK, Stages, Stage
<1>9. ASSUME NEW m \in Message, Checkout(m) PROVE MessageOK'
  BY <1>9, GoToKeeps, SendsKeeps DEF Checkout, MessageOK, Stages, Stage
<1>10. ASSUME NEW m \in Message, handleRuleBasedAutoReply(m) PROVE MessageOK'
  BY <1>10, GoToKeeps, SendsKeeps DEF handleRuleBasedAutoReply, MessageOK, Passage,
     Stages, Stage
<1>11. ASSUME NEW m \in Message, NoAutoReply(m) PROVE MessageOK'
  <2>1. PICK rules \in SUBSET Talking :
          message' = [message EXCEPT ![m].stage = "flows", ![m].left = rules]
    BY <1>11 DEF NoAutoReply
  <2>2. message' = [message EXCEPT ![m] = [@ EXCEPT !.stage = "flows", !.left = rules]]
    BY <2>1 DEF MessageOK
  <2>3. [message[m] EXCEPT !.stage = "flows", !.left = rules] \in Passage
    BY DEF MessageOK, Passage
  <2> QED
    BY <1>11, <2>2, <2>3 DEF NoAutoReply, MessageOK
<1>12. ASSUME NEW m \in Message, NEW r \in Talking, NEW e \in Exec, handleEvent(m, r, e)
     PROVE  MessageOK'
  BY <1>12 DEF handleEvent, Begin, MessageOK, Passage, ExecOK, CallerInv, clock, trouble
<1>13. ASSUME NEW m \in Message, FlowReturns(m) PROVE MessageOK'
  <2>1. CASE message' = [message EXCEPT ![m].run = NoExec]
    BY <1>13, <2>1 DEF FlowReturns, MessageOK, Passage
  <2>2. CASE message' = [message EXCEPT ![m].run = NoExec, ![m].stage = "faq"]
    BY <1>13, <2>2 DEF FlowReturns, MessageOK, Passage
  <2> QED
    BY <1>13, <2>1, <2>2 DEF FlowReturns
<1>14. ASSUME NEW m \in Message, FlowsDone(m) PROVE MessageOK'
  BY <1>14, GoToKeeps, SendsKeeps DEF FlowsDone, MessageOK, Stages, Stage
<1>15. ASSUME NEW m \in Message, AnswerBot(m) PROVE MessageOK'
  BY <1>15, GoToKeeps, SendsKeeps DEF AnswerBot, MessageOK, Stages, Stage
<1>16. ASSUME NEW m \in Message, AIIntent(m) PROVE MessageOK'
  BY <1>16, GoToKeeps, SendsKeeps DEF AIIntent, MessageOK, Stages, Stage
<1>17. ASSUME NEW m \in Message, StageFails(m) PROVE MessageOK'
  <2>1. CASE message' = [message EXCEPT ![m].tries = @ + 1] /\ message[m].tries < Replies
    BY <1>17, <2>1, SendsKeeps DEF StageFails, MessageOK, Passage, Stage
  <2>2. CASE \E s \in Stages : GoTo(m, s)
    BY <1>17, <2>2, GoToKeeps, SendsKeeps DEF StageFails, MessageOK, Stage
  <2> QED
    BY <1>17, <2>1, <2>2 DEF StageFails, Stages
<1>18. ASSUME NEW e \in Exec, CreateLog(e) PROVE MessageOK'
  BY <1>18 DEF CreateLog, MessageOK, ExecOK, CallerInv, clock, trouble
<1>19. ASSUME NEW e \in Exec, Started(e) PROVE MessageOK'
  BY <1>19 DEF Started, MessageOK, ExecOK, CallerInv, clock, trouble
<1>20. ASSUME NEW e \in Exec, Visit(e) PROVE MessageOK'
  BY <1>20, TellsKeeps DEF Visit, MessageOK
<1>21. ASSUME NEW e \in Exec, Refused(e) PROVE MessageOK'
  BY <1>21 DEF Refused, Passed, MessageOK, ExecOK, CallerInv, clock, trouble
<1>22. ASSUME NEW e \in Exec, EndOfWalk(e) PROVE MessageOK'
  BY <1>22 DEF EndOfWalk, MessageOK, ExecOK, CallerInv, clock, trouble
<1>23. ASSUME NEW e \in Exec, Success(e) PROVE MessageOK'
  BY <1>23 DEF Success, MessageOK, ExecOK, CallerInv, clock, trouble
<1>24. ASSUME NEW e \in Exec, Failure(e) PROVE MessageOK'
  BY <1>24 DEF Failure, MessageOK, ExecOK, CallerInv, clock, trouble
<1>25. ASSUME NEW e \in Exec, Completed(e) PROVE MessageOK'
  BY <1>25 DEF Completed, MessageOK, ExecOK, CallerInv, clock, trouble
<1>26. ASSUME NEW e \in Exec, ExecFails(e) PROVE MessageOK'
  BY <1>26 DEF ExecFails, Fault, MessageOK, ExecOK, CallerInv, clock, trouble
<1>27. ASSUME NEW e \in Exec, AnswerLost(e) PROVE MessageOK'
  BY <1>27, TellsKeeps DEF AnswerLost, MessageOK
<1>28. ASSUME NEW e \in Exec, Crash(e) PROVE MessageOK'
  BY <1>28, GoToKeeps, SendsKeeps DEF Crash, MessageOK, Stages, Stage
<1> QED
  BY <1>1, <1>2, <1>3, <1>4, <1>5, <1>6, <1>7, <1>8, <1>9, <1>10, <1>11, <1>12,
      <1>13, <1>14, <1>15, <1>16, <1>17, <1>18, <1>19, <1>20, <1>21, <1>22,
      <1>23, <1>24, <1>25, <1>26, <1>27, <1>28 DEF Next, Schedule, Run, Handle

LEMMA ExecKept ==
  ASSUME ExecOK, Next
  PROVE  ExecOK'
<1> USE AutomationAssumption DEF At, GoTo, Sends, In, Step, Pc, Returned
<1>1. ASSUME Advance PROVE ExecOK'
  BY <1>1 DEF Advance, ExecOK, clock, trouble
<1>2. ASSUME NEW d \in Replica, Tick(d) PROVE ExecOK'
  BY <1>2 DEF Tick, ExecOK, clock, trouble
<1>3. ASSUME NEW d \in Replica, TickDone(d) PROVE ExecOK'
  BY <1>3 DEF TickDone, ExecOK, clock, trouble
<1>4. ASSUME NEW d \in Replica, DispatchFails(d) PROVE ExecOK'
  BY <1>4 DEF DispatchFails, Fault, ExecOK, clock, trouble
<1>5. ASSUME NEW d \in Replica, NEW r \in Scheduled, dispatchDueRule(d, r)
     PROVE  ExecOK'
  BY <1>5 DEF dispatchDueRule, ExecOK, clock, trouble
<1>6. ASSUME NEW i \in JobId, EndJob(i) PROVE ExecOK'
  BY <1>6 DEF EndJob, ExecOK, clock, trouble
<1>7. ASSUME NEW i \in JobId, NEW e \in Exec, TakeJob(i, e) PROVE ExecOK'
  <2>1. PICK r \in Scheduled, t \in Minute : i = <<r, Stamp(t)>>
    BY DEF JobId
  <2>2. i[1] \in Rule /\ i \in Caller
    BY <2>1 DEF Rule, Caller
  <2> QED
    BY <1>7, <2>2, BeginKeeps DEF TakeJob
<1>8. ASSUME NEW m \in Message, handleInboundMessage(m) PROVE ExecOK'
  BY <1>8 DEF handleInboundMessage, ExecOK, clock, trouble
<1>9. ASSUME NEW m \in Message, Checkout(m) PROVE ExecOK'
  BY <1>9 DEF Checkout, ExecOK, clock, trouble
<1>10. ASSUME NEW m \in Message, handleRuleBasedAutoReply(m) PROVE ExecOK'
  BY <1>10 DEF handleRuleBasedAutoReply, ExecOK, clock, trouble
<1>11. ASSUME NEW m \in Message, NoAutoReply(m) PROVE ExecOK'
  BY <1>11 DEF NoAutoReply, ExecOK, clock, trouble
<1>12. ASSUME NEW m \in Message, NEW r \in Talking, NEW e \in Exec, handleEvent(m, r, e)
     PROVE  ExecOK'
  BY <1>12, BeginKeeps DEF handleEvent, Rule, Caller
<1>13. ASSUME NEW m \in Message, FlowReturns(m) PROVE ExecOK'
  BY <1>13 DEF FlowReturns, ExecOK, clock, trouble
<1>14. ASSUME NEW m \in Message, FlowsDone(m) PROVE ExecOK'
  BY <1>14 DEF FlowsDone, ExecOK, clock, trouble
<1>15. ASSUME NEW m \in Message, AnswerBot(m) PROVE ExecOK'
  BY <1>15 DEF AnswerBot, ExecOK, clock, trouble
<1>16. ASSUME NEW m \in Message, AIIntent(m) PROVE ExecOK'
  BY <1>16 DEF AIIntent, ExecOK, clock, trouble
<1>17. ASSUME NEW m \in Message, StageFails(m) PROVE ExecOK'
  BY <1>17 DEF StageFails, Fault, ExecOK, clock, trouble
<1>18. ASSUME NEW e \in Exec, CreateLog(e) PROVE ExecOK'
  <2>1. exec[e] \in Execution
    BY DEF ExecOK
  <2>2. exec' = [exec EXCEPT ![e] = [@ EXCEPT !.pc = "start", !.status = "PENDING"]]
    BY <1>18 DEF CreateLog, ExecOK
  <2>3. [exec[e] EXCEPT !.pc = "start", !.status = "PENDING"] \in Execution
    BY <2>1 DEF Execution, Status
  <2> QED
    BY <2>2, <2>3 DEF ExecOK
<1>19. ASSUME NEW e \in Exec, Started(e) PROVE ExecOK'
  BY <1>19, StepKeeps DEF Started, Pc
<1>20. ASSUME NEW e \in Exec, Visit(e) PROVE ExecOK'
  <2>1. PICK next \in Node \cup {End} :
          /\ exec' = [exec EXCEPT ![e] = After(e, exec[e].node, next)]
          /\ After(e, exec[e].node, next) \in Execution
    BY <1>20, VisitPasses
  <2> QED
    BY <2>1 DEF ExecOK
<1>21. ASSUME NEW e \in Exec, Refused(e) PROVE ExecOK'
  <2>1. PICK next \in Node \cup {End} :
          /\ exec' = [exec EXCEPT ![e] = FailedAt(e, exec[e].node, next)]
          /\ FailedAt(e, exec[e].node, next) \in Execution
    BY <1>21, FailedKeeps
  <2> QED
    BY <2>1 DEF ExecOK
<1>22. ASSUME NEW e \in Exec, EndOfWalk(e) PROVE ExecOK'
  BY <1>22, StepKeeps DEF EndOfWalk, Pc
<1>23. ASSUME NEW e \in Exec, Success(e) PROVE ExecOK'
  <2>1. exec[e] \in Execution
    BY DEF ExecOK
  <2>2. exec' = [exec EXCEPT ![e] = [@ EXCEPT !.pc = "announce", !.status = "SUCCESS"]]
    BY <1>23 DEF Success, ExecOK
  <2>3. [exec[e] EXCEPT !.pc = "announce", !.status = "SUCCESS"] \in Execution
    BY <2>1 DEF Execution, Status
  <2> QED
    BY <2>2, <2>3 DEF ExecOK
<1>24. ASSUME NEW e \in Exec, Failure(e) PROVE ExecOK'
  <2>1. exec[e] \in Execution
    BY DEF ExecOK
  <2>2. exec' = [exec EXCEPT ![e] = [@ EXCEPT !.pc = "tell", !.status = "FAILED"]]
    BY <1>24 DEF Failure, ExecOK
  <2>3. [exec[e] EXCEPT !.pc = "tell", !.status = "FAILED"] \in Execution
    BY <2>1 DEF Execution, Status
  <2> QED
    BY <2>2, <2>3 DEF ExecOK
<1>25. ASSUME NEW e \in Exec, Completed(e) PROVE ExecOK'
  BY <1>25, StepKeeps DEF Completed, Pc
<1>26. ASSUME NEW e \in Exec, ExecFails(e) PROVE ExecOK'
  BY <1>26, StepKeeps DEF ExecFails, Pc
<1>27. ASSUME NEW e \in Exec, AnswerLost(e) PROVE ExecOK'
  <2>1. PICK next \in Node \cup {End} :
          /\ exec' = [exec EXCEPT ![e] = FailedAt(e, exec[e].node, next)]
          /\ FailedAt(e, exec[e].node, next) \in Execution
    BY <1>27, FailedKeeps
  <2> QED
    BY <2>1 DEF ExecOK
<1>28. ASSUME NEW e \in Exec, Crash(e) PROVE ExecOK'
  BY <1>28, StepKeeps DEF Crash, Pc
<1> QED
  BY <1>1, <1>2, <1>3, <1>4, <1>5, <1>6, <1>7, <1>8, <1>9, <1>10, <1>11, <1>12,
      <1>13, <1>14, <1>15, <1>16, <1>17, <1>18, <1>19, <1>20, <1>21, <1>22,
      <1>23, <1>24, <1>25, <1>26, <1>27, <1>28 DEF Next, Schedule, Run, Handle

LEMMA TroubleKept ==
  ASSUME TroubleOK, ExecOK, Next
  PROVE  TroubleOK'
<1> USE AutomationAssumption DEF At, GoTo, Sends, In, Step
<1>1. ASSUME Advance PROVE TroubleOK'
  BY <1>1 DEF Advance, TroubleOK, ExecOK, clock, trouble
<1>2. ASSUME NEW d \in Replica, Tick(d) PROVE TroubleOK'
  BY <1>2 DEF Tick, TroubleOK, ExecOK, clock, trouble
<1>3. ASSUME NEW d \in Replica, TickDone(d) PROVE TroubleOK'
  BY <1>3 DEF TickDone, TroubleOK, ExecOK, clock, trouble
<1>4. ASSUME NEW d \in Replica, DispatchFails(d) PROVE TroubleOK'
  BY <1>4 DEF DispatchFails, Fault, TroubleOK, ExecOK, clock, trouble
<1>5. ASSUME NEW d \in Replica, NEW r \in Scheduled, dispatchDueRule(d, r)
     PROVE  TroubleOK'
  BY <1>5 DEF dispatchDueRule, TroubleOK, ExecOK, clock, trouble
<1>6. ASSUME NEW i \in JobId, EndJob(i) PROVE TroubleOK'
  BY <1>6 DEF EndJob, TroubleOK, ExecOK, clock, trouble
<1>7. ASSUME NEW i \in JobId, NEW e \in Exec, TakeJob(i, e) PROVE TroubleOK'
  BY <1>7 DEF TakeJob, Begin, TroubleOK, ExecOK, clock, trouble
<1>8. ASSUME NEW m \in Message, handleInboundMessage(m) PROVE TroubleOK'
  BY <1>8 DEF handleInboundMessage, TroubleOK, ExecOK, clock, trouble
<1>9. ASSUME NEW m \in Message, Checkout(m) PROVE TroubleOK'
  BY <1>9 DEF Checkout, TroubleOK, ExecOK, clock, trouble
<1>10. ASSUME NEW m \in Message, handleRuleBasedAutoReply(m) PROVE TroubleOK'
  BY <1>10 DEF handleRuleBasedAutoReply, TroubleOK, ExecOK, clock, trouble
<1>11. ASSUME NEW m \in Message, NoAutoReply(m) PROVE TroubleOK'
  BY <1>11 DEF NoAutoReply, TroubleOK, ExecOK, clock, trouble
<1>12. ASSUME NEW m \in Message, NEW r \in Talking, NEW e \in Exec, handleEvent(m, r, e)
     PROVE  TroubleOK'
  BY <1>12 DEF handleEvent, Begin, TroubleOK, ExecOK, clock, trouble
<1>13. ASSUME NEW m \in Message, FlowReturns(m) PROVE TroubleOK'
  BY <1>13 DEF FlowReturns, TroubleOK, ExecOK, clock, trouble
<1>14. ASSUME NEW m \in Message, FlowsDone(m) PROVE TroubleOK'
  BY <1>14 DEF FlowsDone, TroubleOK, ExecOK, clock, trouble
<1>15. ASSUME NEW m \in Message, AnswerBot(m) PROVE TroubleOK'
  BY <1>15 DEF AnswerBot, TroubleOK, ExecOK, clock, trouble
<1>16. ASSUME NEW m \in Message, AIIntent(m) PROVE TroubleOK'
  BY <1>16 DEF AIIntent, TroubleOK, ExecOK, clock, trouble
<1>17. ASSUME NEW m \in Message, StageFails(m) PROVE TroubleOK'
  BY <1>17 DEF StageFails, Fault, TroubleOK, ExecOK, clock, trouble
<1>18. ASSUME NEW e \in Exec, CreateLog(e) PROVE TroubleOK'
  BY <1>18 DEF CreateLog, TroubleOK, ExecOK, clock, trouble
<1>19. ASSUME NEW e \in Exec, Started(e) PROVE TroubleOK'
  BY <1>19 DEF Started, TroubleOK, ExecOK, clock, trouble
<1>20. ASSUME NEW e \in Exec, Visit(e) PROVE TroubleOK'
  BY <1>20 DEF Visit, Passed, Tells, TroubleOK, ExecOK, clock, trouble
<1>21. ASSUME NEW e \in Exec, Refused(e) PROVE TroubleOK'
  BY <1>21 DEF Refused, Passed, TroubleOK, ExecOK, clock, trouble
<1>22. ASSUME NEW e \in Exec, EndOfWalk(e) PROVE TroubleOK'
  BY <1>22 DEF EndOfWalk, TroubleOK, ExecOK, clock, trouble
<1>23. ASSUME NEW e \in Exec, Success(e) PROVE TroubleOK'
  BY <1>23 DEF Success, TroubleOK, ExecOK, clock, trouble
<1>24. ASSUME NEW e \in Exec, Failure(e) PROVE TroubleOK'
  BY <1>24 DEF Failure, TroubleOK, ExecOK, clock, trouble
<1>25. ASSUME NEW e \in Exec, Completed(e) PROVE TroubleOK'
  BY <1>25 DEF Completed, TroubleOK, ExecOK, clock, trouble
<1>26. ASSUME NEW e \in Exec, ExecFails(e) PROVE TroubleOK'
  BY <1>26 DEF ExecFails, Fault, TroubleOK, ExecOK, clock, trouble
<1>27. ASSUME NEW e \in Exec, AnswerLost(e) PROVE TroubleOK'
  BY <1>27 DEF AnswerLost, Fault, Passed, Tells, TroubleOK, ExecOK, clock,
      trouble
<1>28. ASSUME NEW e \in Exec, Crash(e) PROVE TroubleOK'
  BY <1>28 DEF Crash, Fault, TroubleOK, ExecOK, clock, trouble
<1> QED
  BY <1>1, <1>2, <1>3, <1>4, <1>5, <1>6, <1>7, <1>8, <1>9, <1>10, <1>11, <1>12,
      <1>13, <1>14, <1>15, <1>16, <1>17, <1>18, <1>19, <1>20, <1>21, <1>22,
      <1>23, <1>24, <1>25, <1>26, <1>27, <1>28 DEF Next, Schedule, Run, Handle

LEMMA CallerKept ==
  ASSUME CallerInv, ExecOK, Next
  PROVE  CallerInv'
<1> USE AutomationAssumption DEF At, GoTo, Sends, In, Step, Execution,
    Returned, Caller
<1>1. ASSUME Advance PROVE CallerInv'
  BY <1>1 DEF Advance, CallerInv, ExecOK, clock, trouble
<1>2. ASSUME NEW d \in Replica, Tick(d) PROVE CallerInv'
  BY <1>2 DEF Tick, CallerInv, ExecOK, clock, trouble
<1>3. ASSUME NEW d \in Replica, TickDone(d) PROVE CallerInv'
  BY <1>3 DEF TickDone, CallerInv, ExecOK, clock, trouble
<1>4. ASSUME NEW d \in Replica, DispatchFails(d) PROVE CallerInv'
  BY <1>4 DEF DispatchFails, Fault, CallerInv, ExecOK, clock, trouble
<1>5. ASSUME NEW d \in Replica, NEW r \in Scheduled, dispatchDueRule(d, r)
     PROVE  CallerInv'
  BY <1>5 DEF dispatchDueRule, CallerInv, ExecOK, clock, trouble
<1>6. ASSUME NEW i \in JobId, EndJob(i) PROVE CallerInv'
  BY <1>6 DEF EndJob, CallerInv, ExecOK, clock, trouble
<1>7. ASSUME NEW i \in JobId, NEW e \in Exec, TakeJob(i, e) PROVE CallerInv'
  BY <1>7 DEF TakeJob, Begin, CallerInv, ExecOK, clock, trouble
<1>8. ASSUME NEW m \in Message, handleInboundMessage(m) PROVE CallerInv'
  BY <1>8 DEF handleInboundMessage, CallerInv, ExecOK, clock, trouble
<1>9. ASSUME NEW m \in Message, Checkout(m) PROVE CallerInv'
  BY <1>9 DEF Checkout, CallerInv, ExecOK, clock, trouble
<1>10. ASSUME NEW m \in Message, handleRuleBasedAutoReply(m) PROVE CallerInv'
  BY <1>10 DEF handleRuleBasedAutoReply, CallerInv, ExecOK, clock, trouble
<1>11. ASSUME NEW m \in Message, NoAutoReply(m) PROVE CallerInv'
  BY <1>11 DEF NoAutoReply, CallerInv, ExecOK, clock, trouble
<1>12. ASSUME NEW m \in Message, NEW r \in Talking, NEW e \in Exec, handleEvent(m, r, e)
     PROVE  CallerInv'
  BY <1>12 DEF handleEvent, Begin, CallerInv, ExecOK, clock, trouble
<1>13. ASSUME NEW m \in Message, FlowReturns(m) PROVE CallerInv'
  BY <1>13 DEF FlowReturns, CallerInv, ExecOK, clock, trouble
<1>14. ASSUME NEW m \in Message, FlowsDone(m) PROVE CallerInv'
  BY <1>14 DEF FlowsDone, CallerInv, ExecOK, clock, trouble
<1>15. ASSUME NEW m \in Message, AnswerBot(m) PROVE CallerInv'
  BY <1>15 DEF AnswerBot, CallerInv, ExecOK, clock, trouble
<1>16. ASSUME NEW m \in Message, AIIntent(m) PROVE CallerInv'
  BY <1>16 DEF AIIntent, CallerInv, ExecOK, clock, trouble
<1>17. ASSUME NEW m \in Message, StageFails(m) PROVE CallerInv'
  BY <1>17 DEF StageFails, Fault, CallerInv, ExecOK, clock, trouble
<1>18. ASSUME NEW e \in Exec, CreateLog(e) PROVE CallerInv'
  BY <1>18 DEF CreateLog, CallerInv, ExecOK, clock, trouble
<1>19. ASSUME NEW e \in Exec, Started(e) PROVE CallerInv'
  BY <1>19 DEF Started, CallerInv, ExecOK, clock, trouble
<1>20. ASSUME NEW e \in Exec, Visit(e) PROVE CallerInv'
  BY <1>20 DEF Visit, Passed, Tells, CallerInv, ExecOK, clock, trouble
<1>21. ASSUME NEW e \in Exec, Refused(e) PROVE CallerInv'
  BY <1>21 DEF Refused, Passed, CallerInv, ExecOK, clock, trouble
<1>22. ASSUME NEW e \in Exec, EndOfWalk(e) PROVE CallerInv'
  BY <1>22 DEF EndOfWalk, CallerInv, ExecOK, clock, trouble
<1>23. ASSUME NEW e \in Exec, Success(e) PROVE CallerInv'
  BY <1>23 DEF Success, CallerInv, ExecOK, clock, trouble
<1>24. ASSUME NEW e \in Exec, Failure(e) PROVE CallerInv'
  BY <1>24 DEF Failure, CallerInv, ExecOK, clock, trouble
<1>25. ASSUME NEW e \in Exec, Completed(e) PROVE CallerInv'
  BY <1>25 DEF Completed, CallerInv, ExecOK, clock, trouble
<1>26. ASSUME NEW e \in Exec, ExecFails(e) PROVE CallerInv'
  BY <1>26 DEF ExecFails, Fault, CallerInv, ExecOK, clock, trouble
<1>27. ASSUME NEW e \in Exec, AnswerLost(e) PROVE CallerInv'
  BY <1>27 DEF AnswerLost, Fault, Passed, Tells, CallerInv, ExecOK, clock,
      trouble
<1>28. ASSUME NEW e \in Exec, Crash(e) PROVE CallerInv'
  BY <1>28 DEF Crash, Fault, CallerInv, ExecOK, clock, trouble
<1> QED
  BY <1>1, <1>2, <1>3, <1>4, <1>5, <1>6, <1>7, <1>8, <1>9, <1>10, <1>11, <1>12,
      <1>13, <1>14, <1>15, <1>16, <1>17, <1>18, <1>19, <1>20, <1>21, <1>22,
      <1>23, <1>24, <1>25, <1>26, <1>27, <1>28 DEF Next, Schedule, Run, Handle

LEMMA JobInvKept ==
  ASSUME JobInv, JobOK, ExecOK, CallerInv, RunsOnce, Next
  PROVE  JobInv'
<1> USE AutomationAssumption DEF At, GoTo, Sends, In, Step, Execution,
    Returned, Caller
<1>1. ASSUME Advance PROVE JobInv'
  BY <1>1 DEF Advance, JobInv, JobOK, ExecOK, CallerInv, RunsOnce, clock,
      trouble
<1>2. ASSUME NEW d \in Replica, Tick(d) PROVE JobInv'
  BY <1>2 DEF Tick, JobInv, JobOK, ExecOK, CallerInv, RunsOnce, clock, trouble
<1>3. ASSUME NEW d \in Replica, TickDone(d) PROVE JobInv'
  BY <1>3 DEF TickDone, JobInv, JobOK, ExecOK, CallerInv, RunsOnce, clock,
      trouble
<1>4. ASSUME NEW d \in Replica, DispatchFails(d) PROVE JobInv'
  BY <1>4 DEF DispatchFails, Fault, JobInv, JobOK, ExecOK, CallerInv, RunsOnce,
      clock, trouble
<1>5. ASSUME NEW d \in Replica, NEW r \in Scheduled, dispatchDueRule(d, r)
     PROVE  JobInv'
  BY <1>5 DEF dispatchDueRule, JobInv, JobOK, ExecOK, CallerInv, RunsOnce,
      clock, trouble
<1>6. ASSUME NEW i \in JobId, EndJob(i) PROVE JobInv'
  BY <1>6 DEF EndJob, JobInv, JobOK, ExecOK, CallerInv, RunsOnce, clock,
      trouble
<1>7. ASSUME NEW i \in JobId, NEW e \in Exec, TakeJob(i, e) PROVE JobInv'
  BY <1>7 DEF TakeJob, Begin, JobInv, JobOK, ExecOK, CallerInv, RunsOnce,
      clock, trouble
<1>8. ASSUME NEW m \in Message, handleInboundMessage(m) PROVE JobInv'
  BY <1>8 DEF handleInboundMessage, JobInv, JobOK, ExecOK, CallerInv, RunsOnce,
      clock, trouble
<1>9. ASSUME NEW m \in Message, Checkout(m) PROVE JobInv'
  BY <1>9 DEF Checkout, JobInv, JobOK, ExecOK, CallerInv, RunsOnce, clock,
      trouble
<1>10. ASSUME NEW m \in Message, handleRuleBasedAutoReply(m) PROVE JobInv'
  BY <1>10 DEF handleRuleBasedAutoReply, JobInv, JobOK, ExecOK, CallerInv,
      RunsOnce, clock, trouble
<1>11. ASSUME NEW m \in Message, NoAutoReply(m) PROVE JobInv'
  BY <1>11 DEF NoAutoReply, JobInv, JobOK, ExecOK, CallerInv, RunsOnce, clock,
      trouble
<1>12. ASSUME NEW m \in Message, NEW r \in Talking, NEW e \in Exec, handleEvent(m, r, e)
     PROVE  JobInv'
  BY <1>12 DEF handleEvent, Begin, JobInv, JobOK, ExecOK, CallerInv, RunsOnce,
      clock, trouble
<1>13. ASSUME NEW m \in Message, FlowReturns(m) PROVE JobInv'
  BY <1>13 DEF FlowReturns, JobInv, JobOK, ExecOK, CallerInv, RunsOnce, clock,
      trouble
<1>14. ASSUME NEW m \in Message, FlowsDone(m) PROVE JobInv'
  BY <1>14 DEF FlowsDone, JobInv, JobOK, ExecOK, CallerInv, RunsOnce, clock,
      trouble
<1>15. ASSUME NEW m \in Message, AnswerBot(m) PROVE JobInv'
  BY <1>15 DEF AnswerBot, JobInv, JobOK, ExecOK, CallerInv, RunsOnce, clock,
      trouble
<1>16. ASSUME NEW m \in Message, AIIntent(m) PROVE JobInv'
  BY <1>16 DEF AIIntent, JobInv, JobOK, ExecOK, CallerInv, RunsOnce, clock,
      trouble
<1>17. ASSUME NEW m \in Message, StageFails(m) PROVE JobInv'
  BY <1>17 DEF StageFails, Fault, JobInv, JobOK, ExecOK, CallerInv, RunsOnce,
      clock, trouble
<1>18. ASSUME NEW e \in Exec, CreateLog(e) PROVE JobInv'
  BY <1>18 DEF CreateLog, JobInv, JobOK, ExecOK, CallerInv, RunsOnce, clock,
      trouble
<1>19. ASSUME NEW e \in Exec, Started(e) PROVE JobInv'
  BY <1>19 DEF Started, JobInv, JobOK, ExecOK, CallerInv, RunsOnce, clock,
      trouble
<1>20. ASSUME NEW e \in Exec, Visit(e) PROVE JobInv'
  BY <1>20 DEF Visit, Passed, Tells, JobInv, JobOK, ExecOK, CallerInv,
      RunsOnce, clock, trouble
<1>21. ASSUME NEW e \in Exec, Refused(e) PROVE JobInv'
  BY <1>21 DEF Refused, Passed, JobInv, JobOK, ExecOK, CallerInv, RunsOnce,
      clock, trouble
<1>22. ASSUME NEW e \in Exec, EndOfWalk(e) PROVE JobInv'
  BY <1>22 DEF EndOfWalk, JobInv, JobOK, ExecOK, CallerInv, RunsOnce, clock,
      trouble
<1>23. ASSUME NEW e \in Exec, Success(e) PROVE JobInv'
  BY <1>23 DEF Success, JobInv, JobOK, ExecOK, CallerInv, RunsOnce, clock,
      trouble
<1>24. ASSUME NEW e \in Exec, Failure(e) PROVE JobInv'
  BY <1>24 DEF Failure, JobInv, JobOK, ExecOK, CallerInv, RunsOnce, clock,
      trouble
<1>25. ASSUME NEW e \in Exec, Completed(e) PROVE JobInv'
  BY <1>25 DEF Completed, JobInv, JobOK, ExecOK, CallerInv, RunsOnce, clock,
      trouble
<1>26. ASSUME NEW e \in Exec, ExecFails(e) PROVE JobInv'
  BY <1>26 DEF ExecFails, Fault, JobInv, JobOK, ExecOK, CallerInv, RunsOnce,
      clock, trouble
<1>27. ASSUME NEW e \in Exec, AnswerLost(e) PROVE JobInv'
  BY <1>27 DEF AnswerLost, Fault, Passed, Tells, JobInv, JobOK, ExecOK,
      CallerInv, RunsOnce, clock, trouble
<1>28. ASSUME NEW e \in Exec, Crash(e) PROVE JobInv'
  BY <1>28 DEF Crash, Fault, JobInv, JobOK, ExecOK, CallerInv, RunsOnce, clock,
      trouble
<1> QED
  BY <1>1, <1>2, <1>3, <1>4, <1>5, <1>6, <1>7, <1>8, <1>9, <1>10, <1>11, <1>12,
      <1>13, <1>14, <1>15, <1>16, <1>17, <1>18, <1>19, <1>20, <1>21, <1>22,
      <1>23, <1>24, <1>25, <1>26, <1>27, <1>28 DEF Next, Schedule, Run, Handle

LEMMA RunsKept ==
  ASSUME RunsOnce, JobInv, JobOK, ExecOK, CallerInv, Next
  PROVE  RunsOnce'
<1> USE AutomationAssumption DEF At, GoTo, Sends, In, Step, Execution,
    Returned, Caller
<1>1. ASSUME Advance PROVE RunsOnce'
  BY <1>1 DEF Advance, RunsOnce, JobInv, JobOK, ExecOK, CallerInv, clock,
      trouble
<1>2. ASSUME NEW d \in Replica, Tick(d) PROVE RunsOnce'
  BY <1>2 DEF Tick, RunsOnce, JobInv, JobOK, ExecOK, CallerInv, clock, trouble
<1>3. ASSUME NEW d \in Replica, TickDone(d) PROVE RunsOnce'
  BY <1>3 DEF TickDone, RunsOnce, JobInv, JobOK, ExecOK, CallerInv, clock,
      trouble
<1>4. ASSUME NEW d \in Replica, DispatchFails(d) PROVE RunsOnce'
  BY <1>4 DEF DispatchFails, Fault, RunsOnce, JobInv, JobOK, ExecOK, CallerInv,
      clock, trouble
<1>5. ASSUME NEW d \in Replica, NEW r \in Scheduled, dispatchDueRule(d, r)
     PROVE  RunsOnce'
  BY <1>5 DEF dispatchDueRule, RunsOnce, JobInv, JobOK, ExecOK, CallerInv,
      clock, trouble
<1>6. ASSUME NEW i \in JobId, EndJob(i) PROVE RunsOnce'
  BY <1>6 DEF EndJob, RunsOnce, JobInv, JobOK, ExecOK, CallerInv, clock,
      trouble
<1>7. ASSUME NEW i \in JobId, NEW e \in Exec, TakeJob(i, e) PROVE RunsOnce'
  BY <1>7 DEF TakeJob, Begin, RunsOnce, JobInv, JobOK, ExecOK, CallerInv,
      clock, trouble
<1>8. ASSUME NEW m \in Message, handleInboundMessage(m) PROVE RunsOnce'
  BY <1>8 DEF handleInboundMessage, RunsOnce, JobInv, JobOK, ExecOK, CallerInv,
      clock, trouble
<1>9. ASSUME NEW m \in Message, Checkout(m) PROVE RunsOnce'
  BY <1>9 DEF Checkout, RunsOnce, JobInv, JobOK, ExecOK, CallerInv, clock,
      trouble
<1>10. ASSUME NEW m \in Message, handleRuleBasedAutoReply(m) PROVE RunsOnce'
  BY <1>10 DEF handleRuleBasedAutoReply, RunsOnce, JobInv, JobOK, ExecOK,
      CallerInv, clock, trouble
<1>11. ASSUME NEW m \in Message, NoAutoReply(m) PROVE RunsOnce'
  BY <1>11 DEF NoAutoReply, RunsOnce, JobInv, JobOK, ExecOK, CallerInv, clock,
      trouble
<1>12. ASSUME NEW m \in Message, NEW r \in Talking, NEW e \in Exec, handleEvent(m, r, e)
     PROVE  RunsOnce'
  BY <1>12 DEF handleEvent, Begin, RunsOnce, JobInv, JobOK, ExecOK, CallerInv,
      clock, trouble
<1>13. ASSUME NEW m \in Message, FlowReturns(m) PROVE RunsOnce'
  BY <1>13 DEF FlowReturns, RunsOnce, JobInv, JobOK, ExecOK, CallerInv, clock,
      trouble
<1>14. ASSUME NEW m \in Message, FlowsDone(m) PROVE RunsOnce'
  BY <1>14 DEF FlowsDone, RunsOnce, JobInv, JobOK, ExecOK, CallerInv, clock,
      trouble
<1>15. ASSUME NEW m \in Message, AnswerBot(m) PROVE RunsOnce'
  BY <1>15 DEF AnswerBot, RunsOnce, JobInv, JobOK, ExecOK, CallerInv, clock,
      trouble
<1>16. ASSUME NEW m \in Message, AIIntent(m) PROVE RunsOnce'
  BY <1>16 DEF AIIntent, RunsOnce, JobInv, JobOK, ExecOK, CallerInv, clock,
      trouble
<1>17. ASSUME NEW m \in Message, StageFails(m) PROVE RunsOnce'
  BY <1>17 DEF StageFails, Fault, RunsOnce, JobInv, JobOK, ExecOK, CallerInv,
      clock, trouble
<1>18. ASSUME NEW e \in Exec, CreateLog(e) PROVE RunsOnce'
  BY <1>18 DEF CreateLog, RunsOnce, JobInv, JobOK, ExecOK, CallerInv, clock,
      trouble
<1>19. ASSUME NEW e \in Exec, Started(e) PROVE RunsOnce'
  BY <1>19 DEF Started, RunsOnce, JobInv, JobOK, ExecOK, CallerInv, clock,
      trouble
<1>20. ASSUME NEW e \in Exec, Visit(e) PROVE RunsOnce'
  BY <1>20 DEF Visit, Passed, Tells, RunsOnce, JobInv, JobOK, ExecOK,
      CallerInv, clock, trouble
<1>21. ASSUME NEW e \in Exec, Refused(e) PROVE RunsOnce'
  BY <1>21 DEF Refused, Passed, RunsOnce, JobInv, JobOK, ExecOK, CallerInv,
      clock, trouble
<1>22. ASSUME NEW e \in Exec, EndOfWalk(e) PROVE RunsOnce'
  BY <1>22 DEF EndOfWalk, RunsOnce, JobInv, JobOK, ExecOK, CallerInv, clock,
      trouble
<1>23. ASSUME NEW e \in Exec, Success(e) PROVE RunsOnce'
  BY <1>23 DEF Success, RunsOnce, JobInv, JobOK, ExecOK, CallerInv, clock,
      trouble
<1>24. ASSUME NEW e \in Exec, Failure(e) PROVE RunsOnce'
  BY <1>24 DEF Failure, RunsOnce, JobInv, JobOK, ExecOK, CallerInv, clock,
      trouble
<1>25. ASSUME NEW e \in Exec, Completed(e) PROVE RunsOnce'
  BY <1>25 DEF Completed, RunsOnce, JobInv, JobOK, ExecOK, CallerInv, clock,
      trouble
<1>26. ASSUME NEW e \in Exec, ExecFails(e) PROVE RunsOnce'
  <2>1. CASE In(e, "read") /\ Step(e, "over")
    BY <1>26, <2>1 DEF ExecFails, Fault, RunsOnce, JobInv, JobOK, ExecOK,
        CallerInv, clock, trouble
  <2>2. CASE exec[e].pc \in {"start", "save", "announce"} /\ Step(e, "fail")
    BY <1>26, <2>2 DEF ExecFails, Fault, RunsOnce, JobInv, JobOK, ExecOK,
        CallerInv, clock, trouble
  <2>3. CASE exec[e].pc \in {"fail", "tell"} /\ Step(e, "threw")
    BY <1>26, <2>3 DEF ExecFails, Fault, RunsOnce, JobInv, JobOK, ExecOK,
        CallerInv, clock, trouble
  <2> QED
    BY <1>26, <2>1, <2>2, <2>3 DEF ExecFails, At
<1>27. ASSUME NEW e \in Exec, AnswerLost(e) PROVE RunsOnce'
  BY <1>27 DEF AnswerLost, Fault, Passed, Tells, RunsOnce, JobInv, JobOK,
      ExecOK, CallerInv, clock, trouble
<1>28. ASSUME NEW e \in Exec, Crash(e) PROVE RunsOnce'
  BY <1>28 DEF Crash, Fault, RunsOnce, JobInv, JobOK, ExecOK, CallerInv, clock,
      trouble
<1> QED
  BY <1>1, <1>2, <1>3, <1>4, <1>5, <1>6, <1>7, <1>8, <1>9, <1>10, <1>11, <1>12,
      <1>13, <1>14, <1>15, <1>16, <1>17, <1>18, <1>19, <1>20, <1>21, <1>22,
      <1>23, <1>24, <1>25, <1>26, <1>27, <1>28 DEF Next, Schedule, Run, Handle

LEMMA LogKept ==
  ASSUME LogInv, ExecOK, TroubleOK, Next
  PROVE  LogInv'
<1> USE AutomationAssumption DEF At, GoTo, Sends, In, Step, Log, Execution,
    Returned
<1>1. ASSUME Advance PROVE LogInv'
  BY <1>1 DEF Advance, LogInv, ExecOK, TroubleOK, clock, trouble
<1>2. ASSUME NEW d \in Replica, Tick(d) PROVE LogInv'
  BY <1>2 DEF Tick, LogInv, ExecOK, TroubleOK, clock, trouble
<1>3. ASSUME NEW d \in Replica, TickDone(d) PROVE LogInv'
  BY <1>3 DEF TickDone, LogInv, ExecOK, TroubleOK, clock, trouble
<1>4. ASSUME NEW d \in Replica, DispatchFails(d) PROVE LogInv'
  BY <1>4 DEF DispatchFails, Fault, LogInv, ExecOK, TroubleOK, clock, trouble
<1>5. ASSUME NEW d \in Replica, NEW r \in Scheduled, dispatchDueRule(d, r)
     PROVE  LogInv'
  BY <1>5 DEF dispatchDueRule, LogInv, ExecOK, TroubleOK, clock, trouble
<1>6. ASSUME NEW i \in JobId, EndJob(i) PROVE LogInv'
  BY <1>6 DEF EndJob, LogInv, ExecOK, TroubleOK, clock, trouble
<1>7. ASSUME NEW i \in JobId, NEW e \in Exec, TakeJob(i, e) PROVE LogInv'
  BY <1>7 DEF TakeJob, Begin, LogInv, ExecOK, TroubleOK, clock, trouble
<1>8. ASSUME NEW m \in Message, handleInboundMessage(m) PROVE LogInv'
  BY <1>8 DEF handleInboundMessage, LogInv, ExecOK, TroubleOK, clock, trouble
<1>9. ASSUME NEW m \in Message, Checkout(m) PROVE LogInv'
  BY <1>9 DEF Checkout, LogInv, ExecOK, TroubleOK, clock, trouble
<1>10. ASSUME NEW m \in Message, handleRuleBasedAutoReply(m) PROVE LogInv'
  BY <1>10 DEF handleRuleBasedAutoReply, LogInv, ExecOK, TroubleOK, clock,
      trouble
<1>11. ASSUME NEW m \in Message, NoAutoReply(m) PROVE LogInv'
  BY <1>11 DEF NoAutoReply, LogInv, ExecOK, TroubleOK, clock, trouble
<1>12. ASSUME NEW m \in Message, NEW r \in Talking, NEW e \in Exec, handleEvent(m, r, e)
     PROVE  LogInv'
  BY <1>12 DEF handleEvent, Begin, LogInv, ExecOK, TroubleOK, clock, trouble
<1>13. ASSUME NEW m \in Message, FlowReturns(m) PROVE LogInv'
  BY <1>13 DEF FlowReturns, LogInv, ExecOK, TroubleOK, clock, trouble
<1>14. ASSUME NEW m \in Message, FlowsDone(m) PROVE LogInv'
  BY <1>14 DEF FlowsDone, LogInv, ExecOK, TroubleOK, clock, trouble
<1>15. ASSUME NEW m \in Message, AnswerBot(m) PROVE LogInv'
  BY <1>15 DEF AnswerBot, LogInv, ExecOK, TroubleOK, clock, trouble
<1>16. ASSUME NEW m \in Message, AIIntent(m) PROVE LogInv'
  BY <1>16 DEF AIIntent, LogInv, ExecOK, TroubleOK, clock, trouble
<1>17. ASSUME NEW m \in Message, StageFails(m) PROVE LogInv'
  BY <1>17 DEF StageFails, Fault, LogInv, ExecOK, TroubleOK, clock, trouble
<1>18. ASSUME NEW e \in Exec, CreateLog(e) PROVE LogInv'
  BY <1>18 DEF CreateLog, LogInv, ExecOK, TroubleOK, clock, trouble
<1>19. ASSUME NEW e \in Exec, Started(e) PROVE LogInv'
  BY <1>19 DEF Started, LogInv, ExecOK, TroubleOK, clock, trouble
<1>20. ASSUME NEW e \in Exec, Visit(e) PROVE LogInv'
  BY <1>20 DEF Visit, Passed, Tells, LogInv, ExecOK, TroubleOK, clock, trouble
<1>21. ASSUME NEW e \in Exec, Refused(e) PROVE LogInv'
  <2>1. NodeFailed(e) /\ struck \subseteq struck'
    BY <1>21, FailedFields DEF Refused, trouble
  <2>2. ASSUME NEW f \in Exec \ {e} PROVE Log(f)'
    <3>1. Log(f) /\ exec'[f] = exec[f] /\ (f \in struck => f \in struck')
      BY <2>1, <2>2 DEF NodeFailed, LogInv
    <3> QED
      BY <3>1
  <2>3. Log(e)'
    BY <2>1 DEF NodeFailed, LogInv
  <2> QED
    BY <2>2, <2>3 DEF LogInv
<1>22. ASSUME NEW e \in Exec, EndOfWalk(e) PROVE LogInv'
  BY <1>22 DEF EndOfWalk, LogInv, ExecOK, TroubleOK, clock, trouble
<1>23. ASSUME NEW e \in Exec, Success(e) PROVE LogInv'
  BY <1>23 DEF Success, LogInv, ExecOK, TroubleOK, clock, trouble
<1>24. ASSUME NEW e \in Exec, Failure(e) PROVE LogInv'
  BY <1>24 DEF Failure, LogInv, ExecOK, TroubleOK, clock, trouble
<1>25. ASSUME NEW e \in Exec, Completed(e) PROVE LogInv'
  BY <1>25 DEF Completed, LogInv, ExecOK, TroubleOK, clock, trouble
<1>26. ASSUME NEW e \in Exec, ExecFails(e) PROVE LogInv'
  BY <1>26 DEF ExecFails, Fault, LogInv, ExecOK, TroubleOK, clock, trouble
<1>27. ASSUME NEW e \in Exec, AnswerLost(e) PROVE LogInv'
  <2>1. NodeFailed(e) /\ struck \subseteq struck' /\ e \in struck'
    BY <1>27, FailedFields DEF AnswerLost, Fault
  <2>2. ASSUME NEW f \in Exec \ {e} PROVE Log(f)'
    <3>1. Log(f) /\ exec'[f] = exec[f] /\ (f \in struck => f \in struck')
      BY <2>1, <2>2 DEF NodeFailed, LogInv
    <3> QED
      BY <3>1
  <2>3. Log(e)'
    BY <2>1 DEF NodeFailed, LogInv
  <2> QED
    BY <2>2, <2>3 DEF LogInv
<1>28. ASSUME NEW e \in Exec, Crash(e) PROVE LogInv'
  BY <1>28 DEF Crash, Fault, LogInv, ExecOK, TroubleOK, clock, trouble
<1> QED
  BY <1>1, <1>2, <1>3, <1>4, <1>5, <1>6, <1>7, <1>8, <1>9, <1>10, <1>11, <1>12,
      <1>13, <1>14, <1>15, <1>16, <1>17, <1>18, <1>19, <1>20, <1>21, <1>22,
      <1>23, <1>24, <1>25, <1>26, <1>27, <1>28 DEF Next, Schedule, Run, Handle

LEMMA ActsKept ==
  ASSUME ActsInv, ExecOK, Next
  PROVE  ActsInv'
<1> USE AutomationAssumption DEF At, GoTo, Sends, In, Step, Acts, Execution,
    Arrived, Acted, Returned
<1>1. ASSUME Advance PROVE ActsInv'
  BY <1>1 DEF Advance, ActsInv, ExecOK, clock, trouble
<1>2. ASSUME NEW d \in Replica, Tick(d) PROVE ActsInv'
  BY <1>2 DEF Tick, ActsInv, ExecOK, clock, trouble
<1>3. ASSUME NEW d \in Replica, TickDone(d) PROVE ActsInv'
  BY <1>3 DEF TickDone, ActsInv, ExecOK, clock, trouble
<1>4. ASSUME NEW d \in Replica, DispatchFails(d) PROVE ActsInv'
  BY <1>4 DEF DispatchFails, Fault, ActsInv, ExecOK, clock, trouble
<1>5. ASSUME NEW d \in Replica, NEW r \in Scheduled, dispatchDueRule(d, r)
     PROVE  ActsInv'
  BY <1>5 DEF dispatchDueRule, ActsInv, ExecOK, clock, trouble
<1>6. ASSUME NEW i \in JobId, EndJob(i) PROVE ActsInv'
  BY <1>6 DEF EndJob, ActsInv, ExecOK, clock, trouble
<1>7. ASSUME NEW i \in JobId, NEW e \in Exec, TakeJob(i, e) PROVE ActsInv'
  BY <1>7 DEF TakeJob, Begin, ActsInv, ExecOK, clock, trouble
<1>8. ASSUME NEW m \in Message, handleInboundMessage(m) PROVE ActsInv'
  BY <1>8 DEF handleInboundMessage, ActsInv, ExecOK, clock, trouble
<1>9. ASSUME NEW m \in Message, Checkout(m) PROVE ActsInv'
  BY <1>9 DEF Checkout, ActsInv, ExecOK, clock, trouble
<1>10. ASSUME NEW m \in Message, handleRuleBasedAutoReply(m) PROVE ActsInv'
  BY <1>10 DEF handleRuleBasedAutoReply, ActsInv, ExecOK, clock, trouble
<1>11. ASSUME NEW m \in Message, NoAutoReply(m) PROVE ActsInv'
  BY <1>11 DEF NoAutoReply, ActsInv, ExecOK, clock, trouble
<1>12. ASSUME NEW m \in Message, NEW r \in Talking, NEW e \in Exec, handleEvent(m, r, e)
     PROVE  ActsInv'
  BY <1>12 DEF handleEvent, Begin, ActsInv, ExecOK, clock, trouble
<1>13. ASSUME NEW m \in Message, FlowReturns(m) PROVE ActsInv'
  BY <1>13 DEF FlowReturns, ActsInv, ExecOK, clock, trouble
<1>14. ASSUME NEW m \in Message, FlowsDone(m) PROVE ActsInv'
  BY <1>14 DEF FlowsDone, ActsInv, ExecOK, clock, trouble
<1>15. ASSUME NEW m \in Message, AnswerBot(m) PROVE ActsInv'
  BY <1>15 DEF AnswerBot, ActsInv, ExecOK, clock, trouble
<1>16. ASSUME NEW m \in Message, AIIntent(m) PROVE ActsInv'
  BY <1>16 DEF AIIntent, ActsInv, ExecOK, clock, trouble
<1>17. ASSUME NEW m \in Message, StageFails(m) PROVE ActsInv'
  BY <1>17 DEF StageFails, Fault, ActsInv, ExecOK, clock, trouble
<1>18. ASSUME NEW e \in Exec, CreateLog(e) PROVE ActsInv'
  BY <1>18 DEF CreateLog, ActsInv, ExecOK, clock, trouble
<1>19. ASSUME NEW e \in Exec, Started(e) PROVE ActsInv'
  BY <1>19 DEF Started, ActsInv, ExecOK, clock, trouble
<1>20. ASSUME NEW e \in Exec, Visit(e) PROVE ActsInv'
  BY <1>20 DEF Visit, Passed, Tells, ActsInv, ExecOK, clock, trouble
<1>21. ASSUME NEW e \in Exec, Refused(e) PROVE ActsInv'
  <2>1. NodeFailed(e)
    BY <1>21, FailedFields
  <2>2. ASSUME NEW f \in Exec \ {e} PROVE Acts(f)'
    BY <2>1, <2>2 DEF NodeFailed, ActsInv
  <2>3. exec[e].acts \in [Node -> 0..2] /\ exec[e].node \notin exec[e].visited
    BY <2>1 DEF NodeFailed, ExecOK
  <2>4. CASE exec'[e].acts = exec[e].acts
    BY <2>1, <2>4 DEF NodeFailed, ActsInv
  <2>5. CASE exec'[e].acts = Acted(e, exec[e].node)
    BY <2>1, <2>3, <2>5 DEF NodeFailed, ActsInv
  <2> QED
    BY <2>1, <2>2, <2>4, <2>5 DEF NodeFailed, ActsInv
<1>22. ASSUME NEW e \in Exec, EndOfWalk(e) PROVE ActsInv'
  BY <1>22 DEF EndOfWalk, ActsInv, ExecOK, clock, trouble
<1>23. ASSUME NEW e \in Exec, Success(e) PROVE ActsInv'
  BY <1>23 DEF Success, ActsInv, ExecOK, clock, trouble
<1>24. ASSUME NEW e \in Exec, Failure(e) PROVE ActsInv'
  BY <1>24 DEF Failure, ActsInv, ExecOK, clock, trouble
<1>25. ASSUME NEW e \in Exec, Completed(e) PROVE ActsInv'
  BY <1>25 DEF Completed, ActsInv, ExecOK, clock, trouble
<1>26. ASSUME NEW e \in Exec, ExecFails(e) PROVE ActsInv'
  <2>1. CASE In(e, "read") /\ Step(e, "over")
    BY <1>26, <2>1 DEF ExecFails, Fault, ActsInv, ExecOK, clock, trouble
  <2>2. CASE exec[e].pc \in {"start", "save", "announce"} /\ Step(e, "fail")
    BY <1>26, <2>2 DEF ExecFails, Fault, ActsInv, ExecOK, clock, trouble
  <2>3. CASE exec[e].pc \in {"fail", "tell"} /\ Step(e, "threw")
    BY <1>26, <2>3 DEF ExecFails, Fault, ActsInv, ExecOK, clock, trouble
  <2> QED
    BY <1>26, <2>1, <2>2, <2>3 DEF ExecFails, At
<1>27. ASSUME NEW e \in Exec, AnswerLost(e) PROVE ActsInv'
  <2>1. NodeFailed(e)
    BY <1>27, FailedFields
  <2>2. ASSUME NEW f \in Exec \ {e} PROVE Acts(f)'
    BY <2>1, <2>2 DEF NodeFailed, ActsInv
  <2>3. exec[e].acts \in [Node -> 0..2] /\ exec[e].node \notin exec[e].visited
    BY <2>1 DEF NodeFailed, ExecOK
  <2>4. CASE exec'[e].acts = exec[e].acts
    BY <2>1, <2>4 DEF NodeFailed, ActsInv
  <2>5. CASE exec'[e].acts = Acted(e, exec[e].node)
    BY <2>1, <2>3, <2>5 DEF NodeFailed, ActsInv
  <2> QED
    BY <2>1, <2>2, <2>4, <2>5 DEF NodeFailed, ActsInv
<1>28. ASSUME NEW e \in Exec, Crash(e) PROVE ActsInv'
  BY <1>28 DEF Crash, Fault, ActsInv, ExecOK, clock, trouble
<1> QED
  BY <1>1, <1>2, <1>3, <1>4, <1>5, <1>6, <1>7, <1>8, <1>9, <1>10, <1>11, <1>12,
      <1>13, <1>14, <1>15, <1>16, <1>17, <1>18, <1>19, <1>20, <1>21, <1>22,
      <1>23, <1>24, <1>25, <1>26, <1>27, <1>28 DEF Next, Schedule, Run, Handle

LEMMA WaitKept ==
  ASSUME WaitInv, ExecOK, MessageOK, CallerInv, Next
  PROVE  WaitInv'
<1> USE AutomationAssumption DEF At, GoTo, Sends, In, Step, Waits, Under,
    Execution, Passage, Returned, Ended, Caller
<1>1. ASSUME Advance PROVE WaitInv'
  BY <1>1 DEF Advance, WaitInv, ExecOK, MessageOK, CallerInv, clock, trouble
<1>2. ASSUME NEW d \in Replica, Tick(d) PROVE WaitInv'
  BY <1>2 DEF Tick, WaitInv, ExecOK, MessageOK, CallerInv, clock, trouble
<1>3. ASSUME NEW d \in Replica, TickDone(d) PROVE WaitInv'
  BY <1>3 DEF TickDone, WaitInv, ExecOK, MessageOK, CallerInv, clock, trouble
<1>4. ASSUME NEW d \in Replica, DispatchFails(d) PROVE WaitInv'
  BY <1>4 DEF DispatchFails, Fault, WaitInv, ExecOK, MessageOK, CallerInv,
      clock, trouble
<1>5. ASSUME NEW d \in Replica, NEW r \in Scheduled, dispatchDueRule(d, r)
     PROVE  WaitInv'
  BY <1>5 DEF dispatchDueRule, WaitInv, ExecOK, MessageOK, CallerInv, clock,
      trouble
<1>6. ASSUME NEW i \in JobId, EndJob(i) PROVE WaitInv'
  BY <1>6 DEF EndJob, WaitInv, ExecOK, MessageOK, CallerInv, clock, trouble
<1>7. ASSUME NEW i \in JobId, NEW e \in Exec, TakeJob(i, e) PROVE WaitInv'
  BY <1>7 DEF TakeJob, Begin, WaitInv, ExecOK, MessageOK, CallerInv, clock,
      trouble
<1>8. ASSUME NEW m \in Message, handleInboundMessage(m) PROVE WaitInv'
  BY <1>8 DEF handleInboundMessage, WaitInv, ExecOK, MessageOK, CallerInv,
      clock, trouble
<1>9. ASSUME NEW m \in Message, Checkout(m) PROVE WaitInv'
  BY <1>9 DEF Checkout, WaitInv, ExecOK, MessageOK, CallerInv, clock, trouble
<1>10. ASSUME NEW m \in Message, handleRuleBasedAutoReply(m) PROVE WaitInv'
  <2>1. CASE GoTo(m, "handled") /\ Sends(m, "auto")
    BY <1>10, <2>1 DEF handleRuleBasedAutoReply, WaitInv, ExecOK, MessageOK,
        CallerInv, clock, trouble
  <2>2. CASE /\ message' = [message EXCEPT ![m].tries = @ + 1]
             /\ UNCHANGED sent
    BY <1>10, <2>2 DEF handleRuleBasedAutoReply, WaitInv, ExecOK, MessageOK,
        CallerInv, clock, trouble
  <2> QED
    BY <1>10, <2>1, <2>2 DEF handleRuleBasedAutoReply, At
<1>11. ASSUME NEW m \in Message, NoAutoReply(m) PROVE WaitInv'
  BY <1>11 DEF NoAutoReply, WaitInv, ExecOK, MessageOK, CallerInv, clock,
      trouble
<1>12. ASSUME NEW m \in Message, NEW r \in Talking, NEW e \in Exec, handleEvent(m, r, e)
     PROVE  WaitInv'
  BY <1>12 DEF handleEvent, Begin, WaitInv, ExecOK, MessageOK, CallerInv,
      clock, trouble
<1>13. ASSUME NEW m \in Message, FlowReturns(m) PROVE WaitInv'
  <2>1. CASE /\ exec[message[m].run].pc = "over"
             /\ message' = [message EXCEPT ![m].run = NoExec]
    BY <1>13, <2>1 DEF FlowReturns, WaitInv, ExecOK, MessageOK, CallerInv, clock,
        trouble
  <2>2. CASE /\ exec[message[m].run].pc = "threw"
             /\ message' = [message EXCEPT ![m].run = NoExec, ![m].stage = "faq"]
    BY <1>13, <2>2 DEF FlowReturns, WaitInv, ExecOK, MessageOK, CallerInv, clock,
        trouble
  <2> QED
    BY <1>13, <2>1, <2>2 DEF FlowReturns, At
<1>14. ASSUME NEW m \in Message, FlowsDone(m) PROVE WaitInv'
  BY <1>14 DEF FlowsDone, WaitInv, ExecOK, MessageOK, CallerInv, clock, trouble
<1>15. ASSUME NEW m \in Message, AnswerBot(m) PROVE WaitInv'
  <2>1. CASE GoTo(m, "handled")
    BY <1>15, <2>1 DEF AnswerBot, WaitInv, ExecOK, MessageOK, CallerInv, clock,
        trouble
  <2>2. CASE GoTo(m, "intent")
    BY <1>15, <2>2 DEF AnswerBot, WaitInv, ExecOK, MessageOK, CallerInv, clock,
        trouble
  <2> QED
    BY <1>15, <2>1, <2>2 DEF AnswerBot, At
<1>16. ASSUME NEW m \in Message, AIIntent(m) PROVE WaitInv'
  BY <1>16 DEF AIIntent, WaitInv, ExecOK, MessageOK, CallerInv, clock, trouble
<1>17. ASSUME NEW m \in Message, StageFails(m) PROVE WaitInv'
  <2>1. CASE /\ At(m, "auto") /\ message[m].tries < Replies
             /\ message' = [message EXCEPT ![m].tries = @ + 1]
             /\ Sends(m, "auto")
    BY <1>17, <2>1 DEF StageFails, Fault, WaitInv, ExecOK, MessageOK, CallerInv,
        clock, trouble
  <2>2. CASE /\ At(m, "flows") /\ ~message[m].any /\ GoTo(m, "faq") /\ UNCHANGED sent
    BY <1>17, <2>2 DEF StageFails, Fault, WaitInv, ExecOK, MessageOK, CallerInv,
        clock, trouble
  <2>3. CASE /\ message[m].stage \in {"auto", "faq", "intent"} /\ GoTo(m, "unhandled")
             /\ UNCHANGED sent
    BY <1>17, <2>3 DEF StageFails, Fault, WaitInv, ExecOK, MessageOK, CallerInv,
        clock, trouble
  <2>4. CASE /\ message[m].stage = "intent" /\ GoTo(m, "unhandled") /\ Sends(m, "intent")
    BY <1>17, <2>4 DEF StageFails, Fault, WaitInv, ExecOK, MessageOK, CallerInv,
        clock, trouble
  <2>5. CASE GoTo(m, "lost") /\ UNCHANGED sent
    BY <1>17, <2>5 DEF StageFails, Fault, WaitInv, ExecOK, MessageOK, CallerInv,
        clock, trouble
  <2> QED
    BY <1>17, <2>1, <2>2, <2>3, <2>4, <2>5 DEF StageFails, At
<1>18. ASSUME NEW e \in Exec, CreateLog(e) PROVE WaitInv'
  BY <1>18 DEF CreateLog, WaitInv, ExecOK, MessageOK, CallerInv, clock, trouble
<1>19. ASSUME NEW e \in Exec, Started(e) PROVE WaitInv'
  BY <1>19 DEF Started, WaitInv, ExecOK, MessageOK, CallerInv, clock, trouble
<1>20. ASSUME NEW e \in Exec, Visit(e) PROVE WaitInv'
  BY <1>20 DEF Visit, Passed, Tells, WaitInv, ExecOK, MessageOK, CallerInv,
      clock, trouble
<1>21. ASSUME NEW e \in Exec, Refused(e) PROVE WaitInv'
  <2>1. NodeFailed(e) /\ message' = message
    BY <1>21, FailedFields DEF Refused
  <2>2. ASSUME NEW f \in Exec \ {e} PROVE Waits(f)'
    <3>1. Waits(f) /\ exec'[f] = exec[f]
      BY <2>1, <2>2 DEF NodeFailed, WaitInv
    <3> QED
      BY <2>1, <3>1
  <2>3. Waits(e)'
    <3>1. Waits(e) /\ exec[e].pc \notin Returned /\ exec'[e].caller = exec[e].caller
      BY <2>1 DEF NodeFailed, WaitInv
    <3> QED
      BY <2>1, <3>1
  <2> QED
    BY <2>2, <2>3 DEF WaitInv
<1>22. ASSUME NEW e \in Exec, EndOfWalk(e) PROVE WaitInv'
  BY <1>22 DEF EndOfWalk, WaitInv, ExecOK, MessageOK, CallerInv, clock, trouble
<1>23. ASSUME NEW e \in Exec, Success(e) PROVE WaitInv'
  BY <1>23 DEF Success, WaitInv, ExecOK, MessageOK, CallerInv, clock, trouble
<1>24. ASSUME NEW e \in Exec, Failure(e) PROVE WaitInv'
  BY <1>24 DEF Failure, WaitInv, ExecOK, MessageOK, CallerInv, clock, trouble
<1>25. ASSUME NEW e \in Exec, Completed(e) PROVE WaitInv'
  BY <1>25 DEF Completed, WaitInv, ExecOK, MessageOK, CallerInv, clock, trouble
<1>26. ASSUME NEW e \in Exec, ExecFails(e) PROVE WaitInv'
  <2>1. CASE In(e, "read") /\ Step(e, "over")
    BY <1>26, <2>1 DEF ExecFails, Fault, WaitInv, ExecOK, MessageOK, CallerInv,
        clock, trouble
  <2>2. CASE exec[e].pc \in {"start", "save", "announce"} /\ Step(e, "fail")
    BY <1>26, <2>2 DEF ExecFails, Fault, WaitInv, ExecOK, MessageOK, CallerInv,
        clock, trouble
  <2>3. CASE exec[e].pc \in {"fail", "tell"} /\ Step(e, "threw")
    BY <1>26, <2>3 DEF ExecFails, Fault, WaitInv, ExecOK, MessageOK, CallerInv,
        clock, trouble
  <2> QED
    BY <1>26, <2>1, <2>2, <2>3 DEF ExecFails, At
<1>27. ASSUME NEW e \in Exec, AnswerLost(e) PROVE WaitInv'
  <2>1. NodeFailed(e) /\ message' = message
    BY <1>27, FailedFields DEF AnswerLost
  <2>2. ASSUME NEW f \in Exec \ {e} PROVE Waits(f)'
    <3>1. Waits(f) /\ exec'[f] = exec[f]
      BY <2>1, <2>2 DEF NodeFailed, WaitInv
    <3> QED
      BY <2>1, <3>1
  <2>3. Waits(e)'
    <3>1. Waits(e) /\ exec[e].pc \notin Returned /\ exec'[e].caller = exec[e].caller
      BY <2>1 DEF NodeFailed, WaitInv
    <3> QED
      BY <2>1, <3>1
  <2> QED
    BY <2>2, <2>3 DEF WaitInv
<1>28. ASSUME NEW e \in Exec, Crash(e) PROVE WaitInv'
  BY <1>28 DEF Crash, Fault, WaitInv, ExecOK, MessageOK, CallerInv, clock,
      trouble
<1> QED
  BY <1>1, <1>2, <1>3, <1>4, <1>5, <1>6, <1>7, <1>8, <1>9, <1>10, <1>11, <1>12,
      <1>13, <1>14, <1>15, <1>16, <1>17, <1>18, <1>19, <1>20, <1>21, <1>22,
      <1>23, <1>24, <1>25, <1>26, <1>27, <1>28 DEF Next, Schedule, Run, Handle

LEMMA RunKept ==
  ASSUME RunInv, ExecOK, MessageOK, CallerInv, Next
  PROVE  RunInv'
<1> USE AutomationAssumption DEF At, GoTo, Sends, In, Step, Execution, Passage,
    Returned, Ended
<1>1. ASSUME Advance PROVE RunInv'
  BY <1>1 DEF Advance, RunInv, ExecOK, MessageOK, CallerInv, clock, trouble
<1>2. ASSUME NEW d \in Replica, Tick(d) PROVE RunInv'
  BY <1>2 DEF Tick, RunInv, ExecOK, MessageOK, CallerInv, clock, trouble
<1>3. ASSUME NEW d \in Replica, TickDone(d) PROVE RunInv'
  BY <1>3 DEF TickDone, RunInv, ExecOK, MessageOK, CallerInv, clock, trouble
<1>4. ASSUME NEW d \in Replica, DispatchFails(d) PROVE RunInv'
  BY <1>4 DEF DispatchFails, Fault, RunInv, ExecOK, MessageOK, CallerInv,
      clock, trouble
<1>5. ASSUME NEW d \in Replica, NEW r \in Scheduled, dispatchDueRule(d, r)
     PROVE  RunInv'
  BY <1>5 DEF dispatchDueRule, RunInv, ExecOK, MessageOK, CallerInv, clock,
      trouble
<1>6. ASSUME NEW i \in JobId, EndJob(i) PROVE RunInv'
  BY <1>6 DEF EndJob, RunInv, ExecOK, MessageOK, CallerInv, clock, trouble
<1>7. ASSUME NEW i \in JobId, NEW e \in Exec, TakeJob(i, e) PROVE RunInv'
  BY <1>7 DEF TakeJob, Begin, RunInv, ExecOK, MessageOK, CallerInv, clock,
      trouble
<1>8. ASSUME NEW m \in Message, handleInboundMessage(m) PROVE RunInv'
  BY <1>8 DEF handleInboundMessage, RunInv, ExecOK, MessageOK, CallerInv,
      clock, trouble
<1>9. ASSUME NEW m \in Message, Checkout(m) PROVE RunInv'
  BY <1>9 DEF Checkout, RunInv, ExecOK, MessageOK, CallerInv, clock, trouble
<1>10. ASSUME NEW m \in Message, handleRuleBasedAutoReply(m) PROVE RunInv'
  <2>1. CASE GoTo(m, "handled") /\ Sends(m, "auto")
    BY <1>10, <2>1 DEF handleRuleBasedAutoReply, RunInv, ExecOK, MessageOK,
        CallerInv, clock, trouble
  <2>2. CASE /\ message' = [message EXCEPT ![m].tries = @ + 1]
             /\ UNCHANGED sent
    BY <1>10, <2>2 DEF handleRuleBasedAutoReply, RunInv, ExecOK, MessageOK,
        CallerInv, clock, trouble
  <2> QED
    BY <1>10, <2>1, <2>2 DEF handleRuleBasedAutoReply, At
<1>11. ASSUME NEW m \in Message, NoAutoReply(m) PROVE RunInv'
  BY <1>11 DEF NoAutoReply, RunInv, ExecOK, MessageOK, CallerInv, clock,
      trouble
<1>12. ASSUME NEW m \in Message, NEW r \in Talking, NEW e \in Exec, handleEvent(m, r, e)
     PROVE  RunInv'
  BY <1>12 DEF handleEvent, Begin, RunInv, ExecOK, MessageOK, CallerInv, clock,
      trouble
<1>13. ASSUME NEW m \in Message, FlowReturns(m) PROVE RunInv'
  <2>1. CASE /\ exec[message[m].run].pc = "over"
             /\ message' = [message EXCEPT ![m].run = NoExec]
    BY <1>13, <2>1 DEF FlowReturns, RunInv, ExecOK, MessageOK, CallerInv, clock,
        trouble
  <2>2. CASE /\ exec[message[m].run].pc = "threw"
             /\ message' = [message EXCEPT ![m].run = NoExec, ![m].stage = "faq"]
    BY <1>13, <2>2 DEF FlowReturns, RunInv, ExecOK, MessageOK, CallerInv, clock,
        trouble
  <2> QED
    BY <1>13, <2>1, <2>2 DEF FlowReturns, At
<1>14. ASSUME NEW m \in Message, FlowsDone(m) PROVE RunInv'
  BY <1>14 DEF FlowsDone, RunInv, ExecOK, MessageOK, CallerInv, clock, trouble
<1>15. ASSUME NEW m \in Message, AnswerBot(m) PROVE RunInv'
  BY <1>15 DEF AnswerBot, RunInv, ExecOK, MessageOK, CallerInv, clock, trouble
<1>16. ASSUME NEW m \in Message, AIIntent(m) PROVE RunInv'
  <2>1. CASE GoTo(m, "handled") /\ Sends(m, "intent")
    BY <1>16, <2>1 DEF AIIntent, RunInv, ExecOK, MessageOK, CallerInv, clock,
        trouble
  <2>2. CASE GoTo(m, "unhandled") /\ UNCHANGED sent
    BY <1>16, <2>2 DEF AIIntent, RunInv, ExecOK, MessageOK, CallerInv, clock,
        trouble
  <2> QED
    BY <1>16, <2>1, <2>2 DEF AIIntent, At
<1>17. ASSUME NEW m \in Message, StageFails(m) PROVE RunInv'
  <2>1. CASE /\ At(m, "auto") /\ message[m].tries < Replies
             /\ message' = [message EXCEPT ![m].tries = @ + 1]
             /\ Sends(m, "auto")
    BY <1>17, <2>1 DEF StageFails, Fault, RunInv, ExecOK, MessageOK, CallerInv,
        clock, trouble
  <2>2. CASE /\ At(m, "flows") /\ ~message[m].any /\ GoTo(m, "faq") /\ UNCHANGED sent
    BY <1>17, <2>2 DEF StageFails, Fault, RunInv, ExecOK, MessageOK, CallerInv,
        clock, trouble
  <2>3. CASE /\ message[m].stage \in {"auto", "faq", "intent"} /\ GoTo(m, "unhandled")
             /\ UNCHANGED sent
    BY <1>17, <2>3 DEF StageFails, Fault, RunInv, ExecOK, MessageOK, CallerInv,
        clock, trouble
  <2>4. CASE /\ message[m].stage = "intent" /\ GoTo(m, "unhandled") /\ Sends(m, "intent")
    BY <1>17, <2>4 DEF StageFails, Fault, RunInv, ExecOK, MessageOK, CallerInv,
        clock, trouble
  <2>5. CASE GoTo(m, "lost") /\ UNCHANGED sent
    BY <1>17, <2>5 DEF StageFails, Fault, RunInv, ExecOK, MessageOK, CallerInv,
        clock, trouble
  <2> QED
    BY <1>17, <2>1, <2>2, <2>3, <2>4, <2>5 DEF StageFails, At
<1>18. ASSUME NEW e \in Exec, CreateLog(e) PROVE RunInv'
  BY <1>18 DEF CreateLog, RunInv, ExecOK, MessageOK, CallerInv, clock, trouble
<1>19. ASSUME NEW e \in Exec, Started(e) PROVE RunInv'
  BY <1>19 DEF Started, RunInv, ExecOK, MessageOK, CallerInv, clock, trouble
<1>20. ASSUME NEW e \in Exec, Visit(e) PROVE RunInv'
  BY <1>20 DEF Visit, Passed, Tells, RunInv, ExecOK, MessageOK, CallerInv,
      clock, trouble
<1>21. ASSUME NEW e \in Exec, Refused(e) PROVE RunInv'
  <2>1. NodeFailed(e) /\ message' = message
    BY <1>21, FailedFields DEF Refused
  <2>2. \A f \in Exec : exec'[f].caller = exec[f].caller
    BY <2>1 DEF NodeFailed
  <2>3. \A m \in Message : message[m].run \in Exec \cup {NoExec}
    BY DEF MessageOK
  <2> QED
    BY <2>1, <2>2, <2>3 DEF RunInv
<1>22. ASSUME NEW e \in Exec, EndOfWalk(e) PROVE RunInv'
  BY <1>22 DEF EndOfWalk, RunInv, ExecOK, MessageOK, CallerInv, clock, trouble
<1>23. ASSUME NEW e \in Exec, Success(e) PROVE RunInv'
  BY <1>23 DEF Success, RunInv, ExecOK, MessageOK, CallerInv, clock, trouble
<1>24. ASSUME NEW e \in Exec, Failure(e) PROVE RunInv'
  BY <1>24 DEF Failure, RunInv, ExecOK, MessageOK, CallerInv, clock, trouble
<1>25. ASSUME NEW e \in Exec, Completed(e) PROVE RunInv'
  BY <1>25 DEF Completed, RunInv, ExecOK, MessageOK, CallerInv, clock, trouble
<1>26. ASSUME NEW e \in Exec, ExecFails(e) PROVE RunInv'
  <2>1. CASE In(e, "read") /\ Step(e, "over")
    BY <1>26, <2>1 DEF ExecFails, Fault, RunInv, ExecOK, MessageOK, CallerInv,
        clock, trouble
  <2>2. CASE exec[e].pc \in {"start", "save", "announce"} /\ Step(e, "fail")
    BY <1>26, <2>2 DEF ExecFails, Fault, RunInv, ExecOK, MessageOK, CallerInv,
        clock, trouble
  <2>3. CASE exec[e].pc \in {"fail", "tell"} /\ Step(e, "threw")
    BY <1>26, <2>3 DEF ExecFails, Fault, RunInv, ExecOK, MessageOK, CallerInv,
        clock, trouble
  <2> QED
    BY <1>26, <2>1, <2>2, <2>3 DEF ExecFails, At
<1>27. ASSUME NEW e \in Exec, AnswerLost(e) PROVE RunInv'
  <2>1. NodeFailed(e) /\ message' = message
    BY <1>27, FailedFields DEF AnswerLost
  <2>2. \A f \in Exec : exec'[f].caller = exec[f].caller
    BY <2>1 DEF NodeFailed
  <2>3. \A m \in Message : message[m].run \in Exec \cup {NoExec}
    BY DEF MessageOK
  <2> QED
    BY <2>1, <2>2, <2>3 DEF RunInv
<1>28. ASSUME NEW e \in Exec, Crash(e) PROVE RunInv'
  <2>1. \A f \in Exec : exec'[f].caller = exec[f].caller
    BY <1>28 DEF Crash, ExecOK
  <2>2. \A m \in Message : message'[m].run = message[m].run
    BY <1>28 DEF Crash, MessageOK
  <2>3. \A m \in Message : message[m].run \in Exec \cup {NoExec}
    BY DEF MessageOK
  <2> QED
    BY <2>1, <2>2, <2>3 DEF RunInv
<1> QED
  BY <1>1, <1>2, <1>3, <1>4, <1>5, <1>6, <1>7, <1>8, <1>9, <1>10, <1>11, <1>12,
      <1>13, <1>14, <1>15, <1>16, <1>17, <1>18, <1>19, <1>20, <1>21, <1>22,
      <1>23, <1>24, <1>25, <1>26, <1>27, <1>28 DEF Next, Schedule, Run, Handle

LEMMA StruckKept ==
  ASSUME StruckInv, ExecOK, CallerInv, Next
  PROVE  StruckInv'
<1> USE AutomationAssumption DEF At, GoTo, Sends, In, Step, Execution, Returned
<1>1. ASSUME Advance PROVE StruckInv'
  BY <1>1 DEF Advance, StruckInv, ExecOK, CallerInv, clock, trouble
<1>2. ASSUME NEW d \in Replica, Tick(d) PROVE StruckInv'
  BY <1>2 DEF Tick, StruckInv, ExecOK, CallerInv, clock, trouble
<1>3. ASSUME NEW d \in Replica, TickDone(d) PROVE StruckInv'
  BY <1>3 DEF TickDone, StruckInv, ExecOK, CallerInv, clock, trouble
<1>4. ASSUME NEW d \in Replica, DispatchFails(d) PROVE StruckInv'
  BY <1>4 DEF DispatchFails, Fault, StruckInv, ExecOK, CallerInv, clock,
      trouble
<1>5. ASSUME NEW d \in Replica, NEW r \in Scheduled, dispatchDueRule(d, r)
     PROVE  StruckInv'
  BY <1>5 DEF dispatchDueRule, StruckInv, ExecOK, CallerInv, clock, trouble
<1>6. ASSUME NEW i \in JobId, EndJob(i) PROVE StruckInv'
  BY <1>6 DEF EndJob, StruckInv, ExecOK, CallerInv, clock, trouble
<1>7. ASSUME NEW i \in JobId, NEW e \in Exec, TakeJob(i, e) PROVE StruckInv'
  BY <1>7 DEF TakeJob, Begin, StruckInv, ExecOK, CallerInv, clock, trouble
<1>8. ASSUME NEW m \in Message, handleInboundMessage(m) PROVE StruckInv'
  BY <1>8 DEF handleInboundMessage, StruckInv, ExecOK, CallerInv, clock,
      trouble
<1>9. ASSUME NEW m \in Message, Checkout(m) PROVE StruckInv'
  BY <1>9 DEF Checkout, StruckInv, ExecOK, CallerInv, clock, trouble
<1>10. ASSUME NEW m \in Message, handleRuleBasedAutoReply(m) PROVE StruckInv'
  BY <1>10 DEF handleRuleBasedAutoReply, StruckInv, ExecOK, CallerInv, clock,
      trouble
<1>11. ASSUME NEW m \in Message, NoAutoReply(m) PROVE StruckInv'
  BY <1>11 DEF NoAutoReply, StruckInv, ExecOK, CallerInv, clock, trouble
<1>12. ASSUME NEW m \in Message, NEW r \in Talking, NEW e \in Exec, handleEvent(m, r, e)
     PROVE  StruckInv'
  BY <1>12 DEF handleEvent, Begin, StruckInv, ExecOK, CallerInv, clock, trouble
<1>13. ASSUME NEW m \in Message, FlowReturns(m) PROVE StruckInv'
  BY <1>13 DEF FlowReturns, StruckInv, ExecOK, CallerInv, clock, trouble
<1>14. ASSUME NEW m \in Message, FlowsDone(m) PROVE StruckInv'
  BY <1>14 DEF FlowsDone, StruckInv, ExecOK, CallerInv, clock, trouble
<1>15. ASSUME NEW m \in Message, AnswerBot(m) PROVE StruckInv'
  BY <1>15 DEF AnswerBot, StruckInv, ExecOK, CallerInv, clock, trouble
<1>16. ASSUME NEW m \in Message, AIIntent(m) PROVE StruckInv'
  BY <1>16 DEF AIIntent, StruckInv, ExecOK, CallerInv, clock, trouble
<1>17. ASSUME NEW m \in Message, StageFails(m) PROVE StruckInv'
  BY <1>17 DEF StageFails, Fault, StruckInv, ExecOK, CallerInv, clock, trouble
<1>18. ASSUME NEW e \in Exec, CreateLog(e) PROVE StruckInv'
  BY <1>18 DEF CreateLog, StruckInv, ExecOK, CallerInv, clock, trouble
<1>19. ASSUME NEW e \in Exec, Started(e) PROVE StruckInv'
  BY <1>19 DEF Started, StruckInv, ExecOK, CallerInv, clock, trouble
<1>20. ASSUME NEW e \in Exec, Visit(e) PROVE StruckInv'
  BY <1>20 DEF Visit, Passed, Tells, StruckInv, ExecOK, CallerInv, clock,
      trouble
<1>21. ASSUME NEW e \in Exec, Refused(e) PROVE StruckInv'
  BY <1>21 DEF Refused, Passed, StruckInv, ExecOK, CallerInv, clock, trouble
<1>22. ASSUME NEW e \in Exec, EndOfWalk(e) PROVE StruckInv'
  BY <1>22 DEF EndOfWalk, StruckInv, ExecOK, CallerInv, clock, trouble
<1>23. ASSUME NEW e \in Exec, Success(e) PROVE StruckInv'
  BY <1>23 DEF Success, StruckInv, ExecOK, CallerInv, clock, trouble
<1>24. ASSUME NEW e \in Exec, Failure(e) PROVE StruckInv'
  BY <1>24 DEF Failure, StruckInv, ExecOK, CallerInv, clock, trouble
<1>25. ASSUME NEW e \in Exec, Completed(e) PROVE StruckInv'
  BY <1>25 DEF Completed, StruckInv, ExecOK, CallerInv, clock, trouble
<1>26. ASSUME NEW e \in Exec, ExecFails(e) PROVE StruckInv'
  <2>1. CASE In(e, "read") /\ Step(e, "over")
    BY <1>26, <2>1 DEF ExecFails, Fault, StruckInv, ExecOK, CallerInv, clock,
        trouble
  <2>2. CASE exec[e].pc \in {"start", "save", "announce"} /\ Step(e, "fail")
    BY <1>26, <2>2 DEF ExecFails, Fault, StruckInv, ExecOK, CallerInv, clock,
        trouble
  <2>3. CASE exec[e].pc \in {"fail", "tell"} /\ Step(e, "threw")
    BY <1>26, <2>3 DEF ExecFails, Fault, StruckInv, ExecOK, CallerInv, clock,
        trouble
  <2> QED
    BY <1>26, <2>1, <2>2, <2>3 DEF ExecFails, At
<1>27. ASSUME NEW e \in Exec, AnswerLost(e) PROVE StruckInv'
  BY <1>27 DEF AnswerLost, Fault, Passed, Tells, StruckInv, ExecOK, CallerInv,
      clock, trouble
<1>28. ASSUME NEW e \in Exec, Crash(e) PROVE StruckInv'
  BY <1>28 DEF Crash, Fault, StruckInv, ExecOK, CallerInv, clock, trouble
<1> QED
  BY <1>1, <1>2, <1>3, <1>4, <1>5, <1>6, <1>7, <1>8, <1>9, <1>10, <1>11, <1>12,
      <1>13, <1>14, <1>15, <1>16, <1>17, <1>18, <1>19, <1>20, <1>21, <1>22,
      <1>23, <1>24, <1>25, <1>26, <1>27, <1>28 DEF Next, Schedule, Run, Handle

LEMMA AnswerKept ==
  ASSUME AnswerInv, WaitInv, RunInv, StruckInv, ExecOK, MessageOK, CallerInv, Next
  PROVE  AnswerInv'
<1> USE AutomationAssumption DEF At, GoTo, Sends, In, Step, Answered, Under,
    Execution, Passage, Returned, Ended, Stage
<1>1. ASSUME Advance PROVE AnswerInv'
  BY <1>1 DEF Advance, AnswerInv, WaitInv, RunInv, StruckInv, ExecOK,
      MessageOK, CallerInv, clock, trouble
<1>2. ASSUME NEW d \in Replica, Tick(d) PROVE AnswerInv'
  BY <1>2 DEF Tick, AnswerInv, WaitInv, RunInv, StruckInv, ExecOK, MessageOK,
      CallerInv, clock, trouble
<1>3. ASSUME NEW d \in Replica, TickDone(d) PROVE AnswerInv'
  BY <1>3 DEF TickDone, AnswerInv, WaitInv, RunInv, StruckInv, ExecOK,
      MessageOK, CallerInv, clock, trouble
<1>4. ASSUME NEW d \in Replica, DispatchFails(d) PROVE AnswerInv'
  BY <1>4 DEF DispatchFails, Fault, AnswerInv, WaitInv, RunInv, StruckInv,
      ExecOK, MessageOK, CallerInv, clock, trouble
<1>5. ASSUME NEW d \in Replica, NEW r \in Scheduled, dispatchDueRule(d, r)
     PROVE  AnswerInv'
  BY <1>5 DEF dispatchDueRule, AnswerInv, WaitInv, RunInv, StruckInv, ExecOK,
      MessageOK, CallerInv, clock, trouble
<1>6. ASSUME NEW i \in JobId, EndJob(i) PROVE AnswerInv'
  BY <1>6 DEF EndJob, AnswerInv, WaitInv, RunInv, StruckInv, ExecOK, MessageOK,
      CallerInv, clock, trouble
<1>7. ASSUME NEW i \in JobId, NEW e \in Exec, TakeJob(i, e) PROVE AnswerInv'
  BY <1>7 DEF TakeJob, Begin, AnswerInv, WaitInv, RunInv, StruckInv, ExecOK,
      MessageOK, CallerInv, clock, trouble
<1>8. ASSUME NEW m \in Message, handleInboundMessage(m) PROVE AnswerInv'
  BY <1>8 DEF handleInboundMessage, AnswerInv, WaitInv, RunInv, StruckInv,
      ExecOK, MessageOK, CallerInv, clock, trouble
<1>9. ASSUME NEW m \in Message, Checkout(m) PROVE AnswerInv'
  BY <1>9 DEF Checkout, AnswerInv, WaitInv, RunInv, StruckInv, ExecOK,
      MessageOK, CallerInv, clock, trouble
<1>10. ASSUME NEW m \in Message, handleRuleBasedAutoReply(m) PROVE AnswerInv'
  <2>1. CASE GoTo(m, "handled") /\ Sends(m, "auto")
    BY <1>10, <2>1 DEF handleRuleBasedAutoReply, AnswerInv, WaitInv, RunInv,
        StruckInv, ExecOK, MessageOK, CallerInv, clock, trouble
  <2>2. CASE /\ message' = [message EXCEPT ![m].tries = @ + 1]
             /\ UNCHANGED sent
    BY <1>10, <2>2 DEF handleRuleBasedAutoReply, AnswerInv, WaitInv, RunInv,
        StruckInv, ExecOK, MessageOK, CallerInv, clock, trouble
  <2> QED
    BY <1>10, <2>1, <2>2 DEF handleRuleBasedAutoReply, At
<1>11. ASSUME NEW m \in Message, NoAutoReply(m) PROVE AnswerInv'
  BY <1>11 DEF NoAutoReply, AnswerInv, WaitInv, RunInv, StruckInv, ExecOK,
      MessageOK, CallerInv, clock, trouble
<1>12. ASSUME NEW m \in Message, NEW r \in Talking, NEW e \in Exec, handleEvent(m, r, e)
     PROVE  AnswerInv'
  BY <1>12 DEF handleEvent, Begin, AnswerInv, WaitInv, RunInv, StruckInv,
      ExecOK, MessageOK, CallerInv, clock, trouble
<1>13. ASSUME NEW m \in Message, FlowReturns(m) PROVE AnswerInv'
  <2> DEFINE e == message[m].run
  <2>1. e \in Exec /\ exec[e].caller = m
    BY <1>13 DEF FlowReturns, MessageOK, RunInv
  <2>2. CASE exec[e].pc = "over" /\ message' = [message EXCEPT ![m].run = NoExec]
    BY <1>13, <2>2 DEF FlowReturns, AnswerInv, MessageOK, trouble
  <2>3. CASE exec[e].pc = "threw"
    <3>1. m \in struck
      BY <2>1, <2>3 DEF StruckInv
    <3> QED
      BY <1>13, <3>1 DEF FlowReturns, AnswerInv, MessageOK, trouble
  <2> QED
    BY <1>13, <2>2, <2>3 DEF FlowReturns
<1>14. ASSUME NEW m \in Message, FlowsDone(m) PROVE AnswerInv'
  BY <1>14 DEF FlowsDone, AnswerInv, WaitInv, RunInv, StruckInv, ExecOK,
      MessageOK, CallerInv, clock, trouble
<1>15. ASSUME NEW m \in Message, AnswerBot(m) PROVE AnswerInv'
  <2>1. CASE GoTo(m, "handled")
    BY <1>15, <2>1 DEF AnswerBot, AnswerInv, WaitInv, RunInv, StruckInv, ExecOK,
        MessageOK, CallerInv, clock, trouble
  <2>2. CASE GoTo(m, "intent")
    BY <1>15, <2>2 DEF AnswerBot, AnswerInv, WaitInv, RunInv, StruckInv, ExecOK,
        MessageOK, CallerInv, clock, trouble
  <2> QED
    BY <1>15, <2>1, <2>2 DEF AnswerBot, At
<1>16. ASSUME NEW m \in Message, AIIntent(m) PROVE AnswerInv'
  <2>1. CASE GoTo(m, "handled") /\ Sends(m, "intent")
    BY <1>16, <2>1 DEF AIIntent, AnswerInv, WaitInv, RunInv, StruckInv, ExecOK,
        MessageOK, CallerInv, clock, trouble
  <2>2. CASE GoTo(m, "unhandled") /\ UNCHANGED sent
    BY <1>16, <2>2 DEF AIIntent, AnswerInv, WaitInv, RunInv, StruckInv, ExecOK,
        MessageOK, CallerInv, clock, trouble
  <2> QED
    BY <1>16, <2>1, <2>2 DEF AIIntent, At
<1>17. ASSUME NEW m \in Message, StageFails(m) PROVE AnswerInv'
  BY <1>17 DEF StageFails, Fault, AnswerInv, WaitInv, RunInv, StruckInv,
      ExecOK, MessageOK, CallerInv, clock, trouble
<1>18. ASSUME NEW e \in Exec, CreateLog(e) PROVE AnswerInv'
  BY <1>18 DEF CreateLog, AnswerInv, WaitInv, RunInv, StruckInv, ExecOK,
      MessageOK, CallerInv, clock, trouble
<1>19. ASSUME NEW e \in Exec, Started(e) PROVE AnswerInv'
  BY <1>19 DEF Started, AnswerInv, WaitInv, RunInv, StruckInv, ExecOK,
      MessageOK, CallerInv, clock, trouble
<1>20. ASSUME NEW e \in Exec, Visit(e) PROVE AnswerInv'
  <2>1. sent' = sent \/ (exec[e].caller \in Message /\ Sends(exec[e].caller, "flow"))
    BY <1>20, VisitTells
  <2>2. message' = message /\ struck' = struck /\ exec[e].pc = "walk"
    BY <1>20 DEF Visit, trouble
  <2>3. CASE sent' = sent
    BY <2>2, <2>3 DEF AnswerInv
  <2>4. CASE exec[e].caller \in Message /\ Sends(exec[e].caller, "flow")
    <3>1. message[exec[e].caller].stage = "flows" /\ message[exec[e].caller].any
      BY <2>2, <2>4 DEF WaitInv, Waits
    <3> QED
      BY <2>2, <2>4, <3>1 DEF AnswerInv, MessageOK
  <2> QED
    BY <2>1, <2>3, <2>4
<1>21. ASSUME NEW e \in Exec, Refused(e) PROVE AnswerInv'
  BY <1>21 DEF Refused, Passed, AnswerInv, WaitInv, RunInv, StruckInv, ExecOK,
      MessageOK, CallerInv, clock, trouble
<1>22. ASSUME NEW e \in Exec, EndOfWalk(e) PROVE AnswerInv'
  BY <1>22 DEF EndOfWalk, AnswerInv, WaitInv, RunInv, StruckInv, ExecOK,
      MessageOK, CallerInv, clock, trouble
<1>23. ASSUME NEW e \in Exec, Success(e) PROVE AnswerInv'
  BY <1>23 DEF Success, AnswerInv, WaitInv, RunInv, StruckInv, ExecOK,
      MessageOK, CallerInv, clock, trouble
<1>24. ASSUME NEW e \in Exec, Failure(e) PROVE AnswerInv'
  BY <1>24 DEF Failure, AnswerInv, WaitInv, RunInv, StruckInv, ExecOK,
      MessageOK, CallerInv, clock, trouble
<1>25. ASSUME NEW e \in Exec, Completed(e) PROVE AnswerInv'
  BY <1>25 DEF Completed, AnswerInv, WaitInv, RunInv, StruckInv, ExecOK,
      MessageOK, CallerInv, clock, trouble
<1>26. ASSUME NEW e \in Exec, ExecFails(e) PROVE AnswerInv'
  BY <1>26 DEF ExecFails, Fault, AnswerInv, WaitInv, RunInv, StruckInv, ExecOK,
      MessageOK, CallerInv, clock, trouble
<1>27. ASSUME NEW e \in Exec, AnswerLost(e) PROVE AnswerInv'
  BY <1>27 DEF AnswerLost, Fault, Passed, Tells, AnswerInv, WaitInv, RunInv,
      StruckInv, ExecOK, MessageOK, CallerInv, clock, trouble
<1>28. ASSUME NEW e \in Exec, Crash(e) PROVE AnswerInv'
  BY <1>28 DEF Crash, Fault, AnswerInv, WaitInv, RunInv, StruckInv, ExecOK,
      MessageOK, CallerInv, clock, trouble
<1> QED
  BY <1>1, <1>2, <1>3, <1>4, <1>5, <1>6, <1>7, <1>8, <1>9, <1>10, <1>11, <1>12,
      <1>13, <1>14, <1>15, <1>16, <1>17, <1>18, <1>19, <1>20, <1>21, <1>22,
      <1>23, <1>24, <1>25, <1>26, <1>27, <1>28 DEF Next, Schedule, Run, Handle

LEMMA NextInv == Inv /\ [Next]_vars => Inv'
<1>1. ASSUME Inv, Next PROVE Inv'
  BY <1>1, ClockKept, JobKept, MessageKept, ExecKept, TroubleKept, CallerKept,
     JobInvKept, RunsKept, LogKept, ActsKept, WaitKept, RunKept, StruckKept, AnswerKept
     DEF Inv
<1>2. ASSUME Inv, UNCHANGED vars PROVE Inv'
  BY <1>2 DEF Inv, vars, clock, trouble, ClockOK, JobOK, MessageOK, ExecOK,
     TroubleOK, CallerInv, JobInv, RunsOnce, LogInv, Log, ActsInv, Acts, WaitInv, Waits,
     Under, RunInv, StruckInv, AnswerInv, Answered
<1> QED
  BY <1>1, <1>2

LEMMA InvAlways == Spec => []Inv
<1> QED
  BY InitInv, NextInv, PTL DEF Spec

-----------------------------------------------------------------------------
(* The queue of due rules.  A job's id says for which minute it was made but *)
(* for the minutes that look the same, and a job that was made is never     *)
(* forgotten: who comes too late finds the job of such a minute.            *)

\* The hours and minutes of a minute of the day.
LEMMA ClockFace ==
  ASSUME NEW t \in 0 .. 24 * 60 - 1
  PROVE  /\ t \div 60 \in 0..23 /\ t % 60 \in 0..59
         /\ t = 60 * (t \div 60) + (t % 60)
BY SMT

\* That s is what hour h and minute m look like, put together.
Shows(s, h, m) ==
  /\ h < 10 /\ m < 10 => Len(s) = 2 /\ s[1] = h /\ s[2] = m
  /\ h < 10 /\ m >= 10 => Len(s) = 3 /\ s[1] = h /\ s[2] = m \div 10 /\ s[3] = m % 10
  /\ h >= 10 /\ m < 10 => Len(s) = 3 /\ s[1] = h \div 10 /\ s[2] = h % 10 /\ s[3] = m
  /\ h >= 10 /\ m >= 10 => /\ Len(s) = 4 /\ s[1] = h \div 10 /\ s[2] = h % 10
                           /\ s[3] = m \div 10 /\ s[4] = m % 10

\* What putting two numbers of one or two digits together gives.
LEMMA OneAndOne ==
  ASSUME NEW a \in Nat, NEW b \in Nat
  PROVE  LET s == <<a>> \o <<b>> IN Len(s) = 2 /\ s[1] = a /\ s[2] = b
OBVIOUS

LEMMA OneAndTwo ==
  ASSUME NEW a \in Nat, NEW b \in Nat, NEW c \in Nat
  PROVE  LET s == <<a>> \o <<b, c>> IN Len(s) = 3 /\ s[1] = a /\ s[2] = b /\ s[3] = c
OBVIOUS

LEMMA TwoAndOne ==
  ASSUME NEW a \in Nat, NEW b \in Nat, NEW c \in Nat
  PROVE  LET s == <<a, b>> \o <<c>> IN Len(s) = 3 /\ s[1] = a /\ s[2] = b /\ s[3] = c
OBVIOUS

LEMMA TwoAndTwo ==
  ASSUME NEW a \in Nat, NEW b \in Nat, NEW c \in Nat, NEW d \in Nat
  PROVE  LET s == <<a, b>> \o <<c, d>> IN
         Len(s) = 4 /\ s[1] = a /\ s[2] = b /\ s[3] = c /\ s[4] = d
OBVIOUS

LEMMA DigitsShow ==
  ASSUME NEW h \in 0..23, NEW m \in 0..59 PROVE Shows(Digits(h) \o Digits(m), h, m)
<1>1. /\ h \in Nat /\ h \div 10 \in Nat /\ h % 10 \in Nat
      /\ m \in Nat /\ m \div 10 \in Nat /\ m % 10 \in Nat
  OBVIOUS
<1>2. CASE h < 10 /\ m < 10
  <2>1. Digits(h) = <<h>> /\ Digits(m) = <<m>> /\ ~(h >= 10) /\ ~(m >= 10)
    BY <1>2 DEF Digits
  <2> QED
    BY <1>1, <2>1, OneAndOne DEF Shows
<1>3. CASE h < 10 /\ m >= 10
  <2>1. /\ Digits(h) = <<h>> /\ Digits(m) = <<m \div 10, m % 10>>
        /\ ~(h >= 10) /\ ~(m < 10)
    BY <1>3 DEF Digits
  <2> QED
    BY <1>1, <2>1, OneAndTwo DEF Shows
<1>4. CASE h >= 10 /\ m < 10
  <2>1. /\ Digits(h) = <<h \div 10, h % 10>> /\ Digits(m) = <<m>>
        /\ ~(h < 10) /\ ~(m >= 10)
    BY <1>4 DEF Digits
  <2> QED
    BY <1>1, <2>1, TwoAndOne DEF Shows
<1>5. CASE h >= 10 /\ m >= 10
  <2>1. /\ Digits(h) = <<h \div 10, h % 10>> /\ Digits(m) = <<m \div 10, m % 10>>
        /\ ~(h < 10) /\ ~(m < 10)
    BY <1>5 DEF Digits
  <2> QED
    BY <1>1, <2>1, TwoAndTwo DEF Shows
<1> QED
  BY <1>2, <1>3, <1>4, <1>5

LEMMA StampShows ==
  ASSUME NEW t \in 0 .. 24 * 60 - 1 PROVE Shows(Stamp(t), t \div 60, t % 60)
<1> DEFINE h == t \div 60
           m == t % 60
<1>1. h \in 0..23 /\ m \in 0..59 /\ Stamp(t) = Digits(h) \o Digits(m)
  BY ClockFace DEF Stamp
<1> HIDE DEF h, m
<1>2. Shows(Stamp(t), h, m)
  BY <1>1, DigitsShow
<1> QED
  BY <1>2 DEF h, m

\* Two times of the day that read the same: the two ways to read three digits.
ReadTheSame(h, m, k, n) ==
  \/ h = k /\ m = n
  \/ h >= 1 /\ m >= 10 /\ k = 10 * h + (m \div 10) /\ n = m % 10
  \/ k >= 1 /\ n >= 10 /\ h = 10 * k + (n \div 10) /\ m = n % 10

LEMMA ThreeDigits ==
  ASSUME NEW s, NEW h \in 0..23, NEW m \in 0..59, NEW k \in 0..23, NEW n \in 0..59,
         Shows(s, h, m), Shows(s, k, n)
  PROVE  ReadTheSame(h, m, k, n)
<1> DEFINE h1 == h \div 10
           h2 == h % 10
           m1 == m \div 10
           m2 == m % 10
           k1 == k \div 10
           k2 == k % 10
           n1 == n \div 10
           n2 == n % 10
<1>1. /\ h = 10 * h1 + h2 /\ h1 \in 0..2 /\ h2 \in 0..9
      /\ m = 10 * m1 + m2 /\ m1 \in 0..5 /\ m2 \in 0..9
      /\ k = 10 * k1 + k2 /\ k1 \in 0..2 /\ k2 \in 0..9
      /\ n = 10 * n1 + n2 /\ n1 \in 0..5 /\ n2 \in 0..9
  OBVIOUS
<1>2. /\ h < 10 /\ m < 10 => Len(s) = 2 /\ s[1] = h /\ s[2] = m
      /\ h < 10 /\ m >= 10 => Len(s) = 3 /\ s[1] = h /\ s[2] = m1 /\ s[3] = m2
      /\ h >= 10 /\ m < 10 => Len(s) = 3 /\ s[1] = h1 /\ s[2] = h2 /\ s[3] = m
      /\ h >= 10 /\ m >= 10 => /\ Len(s) = 4 /\ s[1] = h1 /\ s[2] = h2
                               /\ s[3] = m1 /\ s[4] = m2
  BY Zenon DEF Shows
<1>3. /\ k < 10 /\ n < 10 => Len(s) = 2 /\ s[1] = k /\ s[2] = n
      /\ k < 10 /\ n >= 10 => Len(s) = 3 /\ s[1] = k /\ s[2] = n1 /\ s[3] = n2
      /\ k >= 10 /\ n < 10 => Len(s) = 3 /\ s[1] = k1 /\ s[2] = k2 /\ s[3] = n
      /\ k >= 10 /\ n >= 10 => /\ Len(s) = 4 /\ s[1] = k1 /\ s[2] = k2
                               /\ s[3] = n1 /\ s[4] = n2
  BY Zenon DEF Shows
<1> HIDE DEF h1, h2, m1, m2, k1, k2, n1, n2
<1>4. \/ h = k /\ m = n
      \/ h >= 1 /\ m >= 10 /\ k = 10 * h + m1 /\ n = m2
      \/ k >= 1 /\ n >= 10 /\ h = 10 * k + n1 /\ m = n2
  BY <1>1, <1>2, <1>3
<1> QED
  BY <1>4 DEF ReadTheSame, m1, m2, n1, n2

\* Two minutes of the day whose stamps are the same are the same minute, or look alike.
LEMMA StampsCollide ==
  ASSUME NEW t \in 0 .. 24 * 60 - 1, NEW u \in 0 .. 24 * 60 - 1, Stamp(t) = Stamp(u)
  PROVE  u = t \/ LooksLike(u, t) \/ LooksLike(t, u)
<1> DEFINE tHour == t \div 60
           tMin == t % 60
           uHour == u \div 60
           uMin == u % 60
<1>1. Shows(Stamp(t), tHour, tMin) /\ Shows(Stamp(t), uHour, uMin)
  BY StampShows
<1>2. /\ tHour \in 0..23 /\ tMin \in 0..59 /\ t = 60 * tHour + tMin
      /\ uHour \in 0..23 /\ uMin \in 0..59 /\ u = 60 * uHour + uMin
  BY ClockFace
<1>3. t % 10 = tMin % 10 /\ u % 10 = uMin % 10
  BY SMT
<1> HIDE DEF tHour, tMin, uHour, uMin
<1>4. ReadTheSame(tHour, tMin, uHour, uMin)
  BY <1>1, <1>2, ThreeDigits
<1>5. tHour = uHour /\ tMin = uMin => u = t
  BY <1>2
<1>6. /\ tHour >= 1 => t >= 60
      /\ uHour >= 1 => u >= 60
  BY <1>2
<1>7. tHour >= 1 /\ tMin >= 10 /\ uHour = 10 * tHour + (tMin \div 10) /\ uMin = tMin % 10
      => LooksLike(t, u)
  BY <1>3, <1>6, Zenon DEF LooksLike, tHour, tMin, uHour, uMin
<1>8. uHour >= 1 /\ uMin >= 10 /\ tHour = 10 * uHour + (uMin \div 10) /\ tMin = uMin % 10
      => LooksLike(u, t)
  BY <1>3, <1>6, Zenon DEF LooksLike, tHour, tMin, uHour, uMin
<1> QED
  BY <1>4, <1>5, <1>7, <1>8 DEF ReadTheSame

\* A job is made when its rule is offered, and for a minute that looks like its own.
QueueInv ==
  /\ \A r \in Scheduled, t \in Minute :
       <<r, t>> \in offered => job[<<r, Stamp(t)>>] # "none"
  /\ \A r \in Scheduled, t \in Minute :
       job[<<r, Stamp(t)>>] # "none"
       => \E u \in Minute : Stamp(u) = Stamp(t) /\ <<r, u>> \in queued

\* No step but the heartbeat's makes a job, and none takes one back.
QueueSleeps ==
  /\ UNCHANGED <<offered, queued>>
  /\ \A i \in JobId : job'[i] = "none" <=> job[i] = "none"

LEMMA InitQueue == Init => QueueInv
<1> SUFFICES ASSUME Init PROVE QueueInv
  OBVIOUS
<1>1. \A r \in Scheduled, t \in Minute : job[<<r, Stamp(t)>>] = "none"
  BY DEF Init, JobId
<1> QED
  BY <1>1 DEF Init, QueueInv

LEMMA QueueSleepsKeeps ==
  ASSUME QueueInv, QueueSleeps PROVE QueueInv'
<1>1. \A r \in Scheduled, t \in Minute : <<r, Stamp(t)>> \in JobId
  BY DEF JobId
<1> QED
  BY <1>1 DEF QueueInv, QueueSleeps

\* A job whose run was killed had begun: it stays in the queue.
LEMMA CrashKeepsJob ==
  ASSUME Inv, NEW e \in Exec, Crash(e) PROVE QueueSleeps
<1> DEFINE by == exec[e].caller
<1>1. /\ UNCHANGED <<offered, queued>>
      /\ by \in Message => job' = job
      /\ by \notin Message =>
           job' = [job EXCEPT ![by] = IF by \in stalled THEN "failed" ELSE "waiting"]
  BY DEF Crash, clock
<1>2. exec[e].pc # "none" /\ exec[e].pc # "dead"
  BY DEF Crash, Returned
<1>3. by \in Caller
  BY <1>2 DEF Inv, CallerInv
<1>4. by \in JobId => job[by] # "none"
  BY <1>2 DEF Inv, JobInv
<1>5. job \in [JobId -> {"none", "waiting", "active", "done", "failed"}]
  BY DEF Inv, JobOK
<1> HIDE DEF by
<1> QED
  BY <1>1, <1>3, <1>4, <1>5 DEF QueueSleeps, Caller

LEMMA QueueSleepsBut ==
  ASSUME Inv, [Next]_vars
  PROVE  QueueSleeps \/ \E d \in Replica, r \in Scheduled : dispatchDueRule(d, r)
<1> DEFINE Due == \E d \in Replica, r \in Scheduled : dispatchDueRule(d, r)
<1>1. job \in [JobId -> {"none", "waiting", "active", "done", "failed"}]
  BY DEF Inv, JobOK
<1>2. ASSUME UNCHANGED <<job, offered, queued>> PROVE QueueSleeps
  BY <1>2 DEF QueueSleeps
<1>3. CASE UNCHANGED vars
  BY <1>2, <1>3 DEF vars, clock
<1>4. ASSUME Schedule, ~Due PROVE QueueSleeps
  BY <1>2, <1>4 DEF Schedule, Advance, Tick, TickDone, DispatchFails
<1>5. ASSUME NEW i \in JobId, EndJob(i) PROVE QueueSleeps
  BY <1>1, <1>5 DEF QueueSleeps, EndJob, clock
<1>6. ASSUME NEW i \in JobId, NEW e \in Exec, TakeJob(i, e) PROVE QueueSleeps
  BY <1>1, <1>6 DEF QueueSleeps, TakeJob, clock
<1>7. ASSUME NEW m \in Message, Handle(m) \/ StageFails(m) PROVE QueueSleeps
  BY <1>2, <1>7 DEF Handle, handleInboundMessage, Checkout, handleRuleBasedAutoReply,
     NoAutoReply, handleEvent, FlowReturns, FlowsDone, AnswerBot, AIIntent, StageFails, clock
<1>8. ASSUME NEW e \in Exec, Run(e) \/ ExecFails(e) \/ AnswerLost(e) PROVE QueueSleeps
  BY <1>2, <1>8 DEF Run, CreateLog, Started, Visit, Refused, EndOfWalk, Success,
     Failure, Completed, ExecFails, AnswerLost, clock
<1> QED
  BY <1>3, <1>4, <1>5, <1>6, <1>7, <1>8, CrashKeepsJob DEF Next

\* The heartbeat comes to a due rule: it makes the job, or finds it made.
LEMMA DueRuleKeeps ==
  ASSUME Inv, QueueInv, NEW d \in Replica, NEW r \in Scheduled, dispatchDueRule(d, r)
  PROVE  QueueInv'
<1> DEFINE t == dispatch[d].at
           i == <<r, Stamp(t)>>
           Id(q, u) == <<q, Stamp(u)>>
<1>1. t \in Minute
  BY DEF dispatchDueRule, Inv, ClockOK
<1>2. \A q \in Scheduled, u \in Minute : Id(q, u) \in JobId
  BY DEF JobId
<1>3. /\ job' = [job EXCEPT ![i] = IF @ = "none" THEN "waiting" ELSE @]
      /\ offered' = offered \cup {<<r, t>>}
      /\ queued' = IF job[i] = "none" THEN queued \cup {<<r, t>>} ELSE queued
  BY DEF dispatchDueRule
<1>4. job \in [JobId -> {"none", "waiting", "active", "done", "failed"}] /\ i \in JobId
  BY <1>1, <1>2 DEF Inv, JobOK
<1>5. /\ job'[i] # "none"
      /\ \A j \in JobId : job[j] # "none" => job'[j] # "none"
      /\ \A j \in JobId \ {i} : job'[j] = job[j]
  BY <1>3, <1>4
<1>6. ASSUME NEW q \in Scheduled, NEW u \in Minute, <<q, u>> \in offered'
      PROVE  job'[Id(q, u)] # "none"
  BY <1>2, <1>3, <1>5, <1>6 DEF QueueInv
<1>7. ASSUME NEW q \in Scheduled, NEW u \in Minute, job'[Id(q, u)] # "none"
      PROVE  \E v \in Minute : Stamp(v) = Stamp(u) /\ <<q, v>> \in queued'
  <2>1. queued \subseteq queued'
    BY <1>3
  <2>2. CASE job[Id(q, u)] # "none"
    BY <2>1, <2>2 DEF QueueInv
  <2>3. CASE job[Id(q, u)] = "none"
    <3>1. Id(q, u) = i
      BY <1>2, <1>5, <1>7, <2>3
    <3>2. <<r, t>> \in queued'
      BY <1>3, <2>3, <3>1
    <3> QED
      BY <1>1, <3>1, <3>2
  <2> QED
    BY <2>2, <2>3
<1> QED
  BY <1>6, <1>7 DEF QueueInv

LEMMA NextQueue == Inv /\ QueueInv /\ [Next]_vars => QueueInv'
<1> QED
  BY QueueSleepsBut, QueueSleepsKeeps, DueRuleKeeps

-----------------------------------------------------------------------------
(* The theorems.                                                           *)

\* Schedules, queue, messages and executions keep their shape.
THEOREM TypeCorrect == Spec => []TypeOK
<1>1. Inv => TypeOK
  BY DEF Inv, TypeOK, ClockOK, JobOK, MessageOK, ExecOK, TroubleOK
<1> QED
  BY <1>1, InvAlways, PTL

\* Of the runs of one job at most one was not killed, however often the heartbeat
\* offers it.
THEOREM JobsRunOnce == Spec => []RunsOnce
<1>1. Inv => RunsOnce
  BY DEF Inv
<1> QED
  BY <1>1, InvAlways, PTL

\* The log of an execution tells what happened, whatever fails.
THEOREM LogsTell == Spec => []LogTells
<1>1. Inv => LogTells
  BY DEF Inv, LogInv, Log, LogTells, Returned
<1> QED
  BY <1>1, InvAlways, PTL

\* On every graph, an execution acts at most once at a node.
THEOREM CirclesEnd == Spec => []ActsOnce
<1>1. Inv => ActsOnce
  BY DEF Inv, ActsInv, Acts, ActsOnce
<1> QED
  BY <1>1, InvAlways, PTL

\* Without a failed call, one stage at most answers a message.
THEOREM AnsweredOnce == Spec => []OneStageAnswers
<1>1. Inv => OneStageAnswers
  BY DEF Inv, AnswerInv, Answered, OneStageAnswers
<1> QED
  BY <1>1, InvAlways, PTL

\* A due rule the heartbeat comes to has a run for its minute, or had one for a minute
\* whose digits are the same: nothing else keeps the queue from making the job.
THEOREM DueRunsQueued == Spec => []DueRunsAreQueued
<1>1. Inv /\ QueueInv => DueRunsAreQueued
  <2> SUFFICES ASSUME QueueInv, NEW r \in Scheduled, NEW t \in Minute,
                      <<r, t>> \in offered
               PROVE  \/ <<r, t>> \in queued
                      \/ \E u \in Minute :
                           (LooksLike(u, t) \/ LooksLike(t, u)) /\ <<r, u>> \in queued
    BY DEF DueRunsAreQueued
  <2>1. PICK u \in Minute : Stamp(u) = Stamp(t) /\ <<r, u>> \in queued
    BY DEF QueueInv
  <2>2. t \in 0 .. 24 * 60 - 1 /\ u \in 0 .. 24 * 60 - 1
    BY AutomationAssumption
  <2>3. t = u \/ LooksLike(t, u) \/ LooksLike(u, t)
    BY <2>1, <2>2, StampsCollide
  <2> QED
    BY <2>1, <2>3
<1>2. QueueInv /\ Inv /\ [Next]_vars => QueueInv'
  BY NextQueue
<1> QED
  BY <1>1, <1>2, InitQueue, InvAlways, PTL DEF Spec
=============================================================================

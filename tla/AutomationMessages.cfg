\* One message, two workflows that may match, no schedule.
CONSTANTS
  trigger = trigger
  text = text
  logic = logic
  template = template
  last = last
  Node <- MCNode
  Trigger = trigger
  Texts = {text, last}
  Templates = {template}
  Steady = {text}
  Succ <- MCSucc
  End = End
  NoExec = NoExec
  Every <- MCEvery
  Message = {m}
  Talking = {greet, guide}
  Scheduled = {}
  Minute = {70}
  Replica = {d1}
  Exec = {1, 2}
  Replies = 2
  MaxFaults = 2
SPECIFICATION FairSpec
INVARIANTS  ActsOnce OneStageAnswers
PROPERTIES MessagesEnd
CHECK_DEADLOCK FALSE

\* A rule due every ten minutes: at 1:10, 1:20 and 11:00.
CONSTANTS
  trigger = trigger
  text = text
  logic = logic
  template = template
  last = last
  Node <- ShortNode
  Trigger = trigger
  Texts = {text}
  Templates = {}
  Steady = {text}
  Succ <- ShortSucc
  End = End
  NoExec = NoExec
  Every <- MCEvery
  Message = {}
  Talking = {}
  Scheduled = {report}
  Minute = {70, 80, 660}
  Replica = {d1, d2}
  Exec = {1, 2, 3}
  Replies = 0
  MaxFaults = 1
SPECIFICATION FairSpec
INVARIANTS RunsOnce DueRunsAreQueued
PROPERTIES JobsEnd
CHECK_DEADLOCK FALSE

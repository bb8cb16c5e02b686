CONSTANTS
  Agents = {a}
  Cancels = {c1}
  EvictAfter = 0
  NoJob = NoJob
  Nobody = Nobody
  MaxLines = 2
  PipeCap = 1
  QueueCap = 1
  RingCap = 2
  MaxAttempts = 2
  NoLine = NoLine
SPECIFICATION FairSpec
INVARIANT TypeOK
INVARIANT AtMostOneTerminal
INVARIANT RingIsOrdered
INVARIANT PollSeesWhatDeliverySees
INVARIANT EveryEventIsAccountedFor
INVARIANT CancelledEventIsTrue
INVARIANT NothingOvertakes
PROPERTY FifoDrains
PROPERTY TerminalReachesPoll
CHECK_DEADLOCK FALSE

CONSTANTS
  Agents = {a}
  Generics = {g}
  Cancels = {c1, c2}
  EvictAfter = 0
  NoJob = NoJob
  Nobody = Nobody
SPECIFICATION FairSpec
INVARIANT TypeOK
INVARIANT DoneMeansFinal
INVARIANT OutcomeIsTrue
PROPERTY CancelSticks
PROPERTY GraceAfterFinish
PROPERTY CancelsReturn
PROPERTY FinishedJobsLeave
CHECK_DEADLOCK FALSE

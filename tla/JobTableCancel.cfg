CONSTANTS
  Agents = {a}
  Generics = {}
  Cancels = {c1}
  EvictAfter = 1
  NoJob = NoJob
  Nobody = Nobody
SPECIFICATION Spec
INVARIANT CancelStopsRunner
CHECK_DEADLOCK FALSE

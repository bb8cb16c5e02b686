CONSTANTS
  Agents = {a}
  Generics = {g}
  Cancels = {c1}
  EvictAfter = 1
  NoJob = NoJob
  Nobody = Nobody
SPECIFICATION Spec
INVARIANT NoDoubleClose
CHECK_DEADLOCK FALSE

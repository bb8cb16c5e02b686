CONSTANTS
  Calls = {c1}
  MaxCalls = 3
  MaxChanges = 3
  Markers = Markers
  NotRebasing = NotRebasing
SPECIFICATION Spec
INVARIANT ConflictsAreNotPublished
CHECK_DEADLOCK FALSE

CONSTANTS
  Calls = {c1, c2}
  MaxCalls = 3
  MaxChanges = 3
  Markers = Markers
  NotRebasing = NotRebasing
SPECIFICATION Spec
INVARIANT PushedIsPublished
PROPERTY CommittedIsKept
CHECK_DEADLOCK FALSE

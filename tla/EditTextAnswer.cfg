SPECIFICATION Spec
CONSTANTS
  Letters = {a}
  Newline = nl
  MaxText = 6
  MaxString = 3
INVARIANT WrittenIsAnswered
CHECK_DEADLOCK FALSE

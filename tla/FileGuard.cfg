CONSTANTS
  Calls = {c1, c2}
  MaxVersion = 3
  MaxTime = 1
SPECIFICATION Spec
INVARIANT TypeOK
INVARIANT OnlyRacesGoUnseen
CHECK_DEADLOCK FALSE

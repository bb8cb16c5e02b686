CONSTANTS
  Shells = {s1}
  Readers = {r1, r2}
  Killers = {k1}
  Streams = {stdout, stderr}
  MaxChunks = 2
  MaxOutput = 1
  NoShell = NoShell
  Nobody = Nobody
SPECIFICATION BashSpec
INVARIANT BashTypeOK
INVARIANT OutputIsNew
INVARIANT NothingElseIsSkipped
INVARIANT FinalAnswerIsTrue
INVARIANT ForegroundAnswerIsTrue
PROPERTY EndIsSeen
PROPERTY CallsReturn
CHECK_DEADLOCK FALSE

\* Two programs and four calls, so that what two calls of one program leave can
\* meet two of the other.  A program may end: no deadlock check.
SPECIFICATION CallsSpec
CONSTANTS
  Programs = {p1, p2}
  LastPort = 2
  MaxCalls = 4
  MaxTaken = 1
INVARIANTS
  AnswerIsCurrent
  BindFindsPort
PROPERTIES
  CallsEnd
CHECK_DEADLOCK FALSE

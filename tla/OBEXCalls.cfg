\* Connect, Put of two packets, Disconnect and two more requests.
\* Both programs may end: no deadlock check.
SPECIFICATION Spec
CONSTANTS
  MaxRequests = 5
  Parts = 2
  PutSources = {"exact"}
  NoFileType = FALSE
INVARIANTS
  AnswerIsOwn
  SentIsReceived
PROPERTIES
  RunEnds
  CallsEnd
CHECK_DEADLOCK FALSE

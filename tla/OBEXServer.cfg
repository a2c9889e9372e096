\* Three requests, so that one follows an aborted one that followed another;
\* two packets with a body in each.  The client may stop at any time: no
\* deadlock check.
SPECIFICATION FairSpec
CONSTANTS
  MaxRequests = 3
  MaxPackets = 2
  SetsCodeLate = FALSE
INVARIANTS
  NoStreamForgotten
  StreamIsOfRequest
  NoFalseSuccess
  DelegateSeesRequest
PROPERTIES
  EveryPacketAnswered
CHECK_DEADLOCK FALSE

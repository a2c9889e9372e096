\* Two requests, so that one follows another that was aborted;
\* two packets with a body in a Put.  The client stops when its user does: no
\* deadlock check.
SPECIFICATION FairSpec
CONSTANTS
  MaxRequests = 2
  MaxPackets = 2
  GivesUp = TRUE
  RequestsInCallbacks = FALSE
INVARIANTS
  NoneForgotten
  AbortHitsItsRequest
  PutSuccessIsWhole
PROPERTIES
  AbortStopsRequest
  RequestEnds
CHECK_DEADLOCK FALSE

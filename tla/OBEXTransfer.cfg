\* Two requests, so that one follows an aborted one; two packets with a body.
\* The ends stop when their users do: no deadlock check.
SPECIFICATION FairTransferSpec
CONSTANTS
  MaxRequests = 2
  MaxPackets = 2
  GivesUp = FALSE
  RequestsInCallbacks = FALSE
INVARIANTS
  PutArrives
  StreamsEndTogether
PROPERTIES
  ServerMeetsItsClient
  ClientMeetsItsServer
CHECK_DEADLOCK FALSE

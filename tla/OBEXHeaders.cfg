\* A Put that is aborted before its first body, then another Put.
SPECIFICATION Spec
CONSTANTS
  MaxRequests = 2
  MaxPackets = 1
  SetsCodeLate = FALSE
INVARIANTS
  HeadersAreOfRequest
CHECK_DEADLOCK FALSE

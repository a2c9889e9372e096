\* An incoming and an outgoing channel.
\* A program may end: no deadlock check.
SPECIFICATION Spec
CONSTANTS
  Channels = {cin, cout}
  Incoming = {cin}
  Server = srv
  Mtu = 1
  MaxData = 2
  MaxSend = 2
  Shared = {srv}
INVARIANTS
  NoLostWakeup
  StreamsInOrder
PROPERTIES
  WaitsEnd
CHECK_DEADLOCK FALSE

\* Two sockets at a time, a duplicate, and addresses that are used again.
\* A program may end: no deadlock check.
SPECIFICATION Spec
CONSTANTS
  Ids = {i1, i2, i3}
  Ports = {p1, p2}
  Sockets = {s1, s2}
  MaxRecords = 2
SYMMETRY Symmetry
INVARIANTS
  PortsAreUnique
  ServicesEndWithSockets
PROPERTIES
  StopsItsOwn
CHECK_DEADLOCK FALSE

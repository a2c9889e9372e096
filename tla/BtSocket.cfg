\* Two threads and two objects.
\* Programs stop when their threads do: no deadlock check.
SPECIFICATION Spec
CONSTANTS
  Threads = {t1, t2}
  Objects = {o1, o2}
  DefaultTimeout = "none"
  MaxFd = 2
  MaxSessions = 2
  MaxChunks = 2
  MaxCalls = 3
SYMMETRY Symmetry
INVARIANTS
  ClosesItsOwn
  ServiceEndsWithSocket
  SessionsAreAlive
  TimeoutHolds
CHECK_DEADLOCK FALSE

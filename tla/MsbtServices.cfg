\* Two objects: two sockets, one that takes the descriptor of another, or a
\* duplicate.
\* A program may end: no deadlock check.
SPECIFICATION Spec
CONSTANTS
  Objects = {o1, o2}
  Ports = {1, 2}
  Services <- MCServices
  Peers <- MCPeers
  Names <- MCNames
  MaxFd = 2
  MaxHandle = 2
SYMMETRY Symmetry
INVARIANTS
  AdvertisedIsRegistered
  FoundAsAdvertised
  FoundAsOffered
CHECK_DEADLOCK FALSE

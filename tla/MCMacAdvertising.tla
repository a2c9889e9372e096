-------------------------- MODULE MCMacAdvertising --------------------------
\* Two sockets at a time, three objects, none of which differs from another to
\* begin with, and two ports, of which neither does.
EXTENDS MacAdvertising, TLC

Symmetry == Permutations(Ids) \cup Permutations(Ports) \cup Permutations(Sockets)
=============================================================================

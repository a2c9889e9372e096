--------------------------- MODULE MCMacDiscovery ---------------------------
\* A service of each kind that a record can be of.
EXTENDS MacDiscovery

MCServices == {[name |-> "serial", protos |-> {"L2CAP", "RFCOMM"}],
               [name |-> "push", protos |-> {"L2CAP", "RFCOMM", "OBEX"}],
               [name |-> "hid", protos |-> {"L2CAP"}]}
=============================================================================

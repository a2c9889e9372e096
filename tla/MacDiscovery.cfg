\* Two devices and two lookups.
\* A program may end: no deadlock check.
SPECIFICATION LookupSpec
CONSTANTS
  Devices = {d1, d2}
  Services <- MCServices
  Types = {"RFCOMM", "OBEX", "any"}
  MaxLookups = 2
  MaxChanges = 1
PROPERTIES
  FoundIsCurrent
  LookupsEnd
CHECK_DEADLOCK FALSE

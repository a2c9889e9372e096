\* Two devices, two inquiries (so that one can supersede another), two
\* responses, one event of another process and one power cycle of the adapter.
\* The object stops when its user does: no deadlock check.
SPECIFICATION SelectSpec
CONSTANTS
  Devices = {d1, d2}
  NoDevice = NoDevice
  LookupModes = {TRUE, FALSE}
  MaxInquiries = 2
  MaxResults = 2
  MaxForeign = 1
  MaxDown = 1
  QueueSize = 2
  CommandSlots = 2
INVARIANTS
  CompletesOnce
  NamesAreFresh
  NoLostWakeup
PROPERTIES
  InquiryIsCompleted
CHECK_DEADLOCK FALSE

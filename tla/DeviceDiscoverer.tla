------------------------- MODULE DeviceDiscoverer -------------------------
(***************************************************************************)
(* DeviceDiscoverer of bluetooth/bluez.py: asynchronous device discovery   *)
(* over a raw HCI socket.                                                  *)
(*                                                                         *)
(* The object is driven by its user (find_devices, cancel_inquiry,         *)
(* process_event) and reads the events of the adapter one at a time.  A    *)
(* raw HCI socket whose filter lets every event pass sees the events of    *)
(* the whole adapter: those its own commands cause, those of an inquiry    *)
(* an earlier socket started, and those other processes cause.             *)
(*                                                                         *)
(* The adapter is external: it takes the commands in the order they are    *)
(* sent and answers each as the HCI prescribes.  One thread uses the       *)
(* object; callbacks are the last statement of the paths that reach them,  *)
(* so a call made inside a callback is the next step of the model.         *)
(*                                                                         *)
(* The filter is taken as set.  Under Python 3 hci_filter_all_events       *)
(* (bluez/btmodule.c) returns its octets as text, which 0xff is not, and   *)
(* find_devices raises before it sends anything; the model is of the       *)
(* object with a helper that works.                                        *)
(***************************************************************************)
EXTENDS Naturals, Sequences, FiniteSets

CONSTANTS
  Devices,       \* the remote devices in range
  NoDevice,      \* an address that is none of theirs
  LookupModes,   \* the values of lookup_names the user passes
  MaxInquiries,  \* bound: inquiries the user starts
  MaxResults,    \* bound: inquiry responses of the adapter
  MaxForeign,    \* bound: events other processes cause on the adapter
  MaxDown,       \* bound: how often the adapter goes down
  QueueSize,     \* events the socket's receive buffer holds
  CommandSlots   \* commands the kernel holds for the adapter

ASSUME ConstantsAssumption ==
  /\ NoDevice \notin Devices
  /\ LookupModes \subseteq BOOLEAN
  /\ MaxInquiries \in Nat /\ MaxResults \in Nat
  /\ MaxForeign \in Nat /\ MaxDown \in Nat
  /\ QueueSize \in Nat \ {0} /\ CommandSlots \in Nat \ {0}

VARIABLES
  sock,           \* self.sock: "None", an "open" socket or a "closed" one
  is_inquiring,   \* self.is_inquiring
  lookup_names,   \* self.lookup_names
  names_to_find,  \* the keys of self.names_to_find
  queue,          \* events received by the open socket and not yet read
  cmds,           \* commands sent and not yet taken by the adapter
  up,             \* the adapter is up
  adInquiring,    \* the inquiry the adapter performs, 0 if it performs none
  adNaming,       \* name requests the adapter works on
  inquiry,        \* number of inquiries the user has started
  completions,    \* calls of inquiry_complete since self.sock was opened
  seen,           \* devices read since the inquiry was started
  cancelled,      \* cancel_inquiry returned since then
  raised,         \* process_event has raised since then
  lost,           \* the adapter went down or the receive buffer overflowed
  results, foreign, downs   \* counters of the bounds

self  == <<sock, is_inquiring, lookup_names, names_to_find>>
adapt == <<up, adInquiring, adNaming>>
hist  == <<inquiry, completions, seen, cancelled, raised>>
count == <<results, foreign, downs>>
vars  == <<self, queue, cmds, adapt, hist, lost, count>>

(***************************************************************************)
(* Events and commands.  An inquiry response is an "inquiry_result" unless *)
(* it carries extended data with a complete local name, or data on which   *)
(* the walk over it leaves the buffer ("eir_result").  An event with       *)
(* several responses counts as several events: they are handled in order   *)
(* with nothing in between.  The status in an event is part of its type.   *)
(*                                                                         *)
(* self.names_found is not a variable: its only entry is made after the    *)
(* statement NameFound shows to raise, so it is empty forever.             *)
(***************************************************************************)
ResultTypes == {"inquiry_result", "eir_result"}
OtherTypes  == {"inquiry_complete", "cmd_complete", "cmd_accepted", "cmd_refused",
                "name_found", "name_not_found"}

Event == [type : ResultTypes, dev : Devices]
           \cup [type : OtherTypes, dev : Devices \cup {NoDevice}]

Ev(type)  == [type |-> type, dev |-> NoDevice]
DevEv(type, d) == [type |-> type, dev |-> d]

\* OCF_REMOTE_NAME_REQ carries no device: its parameter is built with
\* str.format from a bytes object, so it is the text b'..' of the address and
\* not its six octets; what the adapter reads as an address is no device's.
Command == [op : {"inquiry"}, id : 1..MaxInquiries]
             \cup [op : {"cancel", "name"}, id : {0}]

InquiryCmd == [op |-> "inquiry", id |-> inquiry + 1]
CancelCmd  == [op |-> "cancel", id |-> 0]
NameCmd    == [op |-> "name", id |-> 0]

Init ==
  /\ sock = "None"
  /\ is_inquiring = FALSE
  /\ lookup_names = FALSE
  /\ names_to_find = {}
  /\ queue = <<>>
  /\ cmds = <<>>
  /\ up = TRUE
  /\ adInquiring = 0
  /\ adNaming = 0
  /\ inquiry = 0
  /\ completions = 0
  /\ seen = {}
  /\ cancelled = FALSE
  /\ raised = FALSE
  /\ lost = FALSE
  /\ results = 0
  /\ foreign = 0
  /\ downs = 0

-----------------------------------------------------------------------------
(***************************************************************************)
(* The user's calls.                                                       *)
(***************************************************************************)

\* hci_send_cmd succeeds iff the adapter is up.  The bound on commands is a
\* guard of the steps that send one.
Sends(c) == /\ up
            /\ Len(cmds) < CommandSlots
            /\ cmds' = Append(cmds, c)

\* Mutation of StartsInquiry: the names of the last inquiry are kept.
StartsInquiryKeepsNames ==
  /\ is_inquiring' = TRUE
  /\ inquiry' = inquiry + 1
  /\ seen' = {}
  /\ cancelled' = FALSE
  /\ raised' = FALSE
  /\ UNCHANGED names_to_find

\* The command was sent: an inquiry without names from earlier ones.
StartsInquiry ==
  /\ is_inquiring' = TRUE
  /\ names_to_find' = {}
  /\ inquiry' = inquiry + 1
  /\ seen' = {}
  /\ cancelled' = FALSE
  /\ raised' = FALSE

\* find_devices returns.  A socket of an earlier call is dropped with the
\* events it held; the new one starts with an empty buffer.
FindDevices(lookup) ==
  /\ ~is_inquiring
  /\ inquiry < MaxInquiries
  /\ lookup_names' = lookup
  /\ sock' = "open"
  /\ queue' = <<>>
  /\ completions' = 0
  /\ Sends(InquiryCmd)
  /\ StartsInquiry
  /\ UNCHANGED <<adapt, lost, count>>

\* find_devices raises because the adapter is down: no device to open (the
\* socket stays what it was), a socket object without a descriptor, refused by
\* setsockopt, or an open socket over which the command cannot be sent.
FindDevicesFails(lookup) ==
  /\ ~is_inquiring
  /\ ~up
  /\ lookup_names' = lookup
  /\ \/ UNCHANGED <<sock, queue, completions>>
     \/ sock' \in {"open", "closed"} /\ queue' = <<>> /\ completions' = 0
  /\ UNCHANGED <<is_inquiring, names_to_find, cmds, adapt, inquiry, seen,
                 cancelled, raised, lost, count>>

\* cancel_inquiry with an inquiry in process, the command sent.
CancelInquiry ==
  /\ is_inquiring
  /\ sock = "open"
  /\ Sends(CancelCmd)
  /\ names_to_find' = {}
  /\ is_inquiring' = FALSE
  /\ cancelled' = TRUE
  /\ UNCHANGED <<sock, lookup_names, queue, adapt, inquiry, completions,
                 seen, raised, lost, count>>

\* cancel_inquiry raises: the socket is gone, is_inquiring is still set.
CancelInquiryFails ==
  /\ is_inquiring
  /\ sock = "open"
  /\ ~up
  /\ names_to_find' = {}
  /\ sock' = "None"
  /\ queue' = <<>>
  /\ UNCHANGED <<is_inquiring, lookup_names, cmds, adapt, hist, lost, count>>

\* cancel_inquiry in the name lookup phase only forgets the names.
CancelLookup ==
  /\ ~is_inquiring
  /\ names_to_find # {}
  /\ names_to_find' = {}
  /\ cancelled' = TRUE
  /\ UNCHANGED <<sock, is_inquiring, lookup_names, queue, cmds, adapt,
                 inquiry, completions, seen, raised, lost, count>>

-----------------------------------------------------------------------------
(***************************************************************************)
(* process_event: one event is read and handled.  With no socket it        *)
(* returns at once and on a closed one recv raises: both leave the object  *)
(* as it was and are stuttering steps.                                     *)
(***************************************************************************)
Reads(types) == /\ sock = "open"
                /\ queue # <<>>
                /\ Head(queue).type \in types

\* The lookup and the inquiry are over: self.sock becomes s and
\* inquiry_complete is called.
Ends(s) == /\ is_inquiring' = FALSE
           /\ names_to_find' = {}
           /\ sock' = s
           /\ queue' = <<>>
           /\ completions' = completions + 1
           /\ UNCHANGED <<cmds, raised>>

\* Mutations of Completes: the socket stays open; inquiry_complete is not
\* called.
CompletesOpen     == Ends("open")
CompletesSilently == /\ sock' = "None" /\ queue' = <<>>
                     /\ is_inquiring' = FALSE /\ names_to_find' = {}
                     /\ UNCHANGED <<completions, cmds, raised>>

\* The socket is closed and forgotten (_inquiry_complete).
Completes == Ends("None")

\* Mutation of SendNextNameReq: the next name is not asked for.
SendNextNameReqForgets == UNCHANGED <<cmds, raised>>

\* _send_next_name_req raises when the adapter is down; names_to_find keeps
\* the name it asked for in any case.
SendNextNameReq == \/ Sends(NameCmd) /\ UNCHANGED raised
                   \/ ~up /\ raised' = TRUE /\ UNCHANGED cmds

\* The device is kept for the lookup of its name, or device_discovered is
\* called at once, or an IndexError leaves process_event before either.
ReadInquiryResult ==
  /\ Reads(ResultTypes)
  /\ queue' = Tail(queue)
  /\ seen' = seen \cup {Head(queue).dev}
  /\ names_to_find' = IF lookup_names /\ Head(queue).type = "inquiry_result"
                      THEN names_to_find \cup {Head(queue).dev}
                      ELSE names_to_find
  /\ \/ UNCHANGED raised
     \/ Head(queue).type = "eir_result" /\ raised' = TRUE
  /\ UNCHANGED <<sock, is_inquiring, lookup_names, cmds, adapt, inquiry,
                 completions, cancelled, lost, count>>

\* EVT_INQUIRY_COMPLETE and EVT_CMD_COMPLETE, whatever command the latter is of.
ReadComplete ==
  /\ Reads({"inquiry_complete", "cmd_complete"})
  /\ \/ /\ names_to_find = {}
        /\ Completes
     \/ /\ names_to_find # {}
        /\ is_inquiring' = FALSE
        /\ SendNextNameReq
        /\ queue' = Tail(queue)
        /\ UNCHANGED <<sock, names_to_find, completions>>
  /\ UNCHANGED <<lookup_names, adapt, inquiry, seen, cancelled, lost, count>>

\* The status of the command is not zero.
CommandRefused == Head(queue).type = "cmd_refused"

ReadCmdStatus ==
  /\ Reads({"cmd_accepted", "cmd_refused"})
  /\ \/ /\ CommandRefused
        /\ Completes
     \/ /\ ~CommandRefused
        /\ queue' = Tail(queue)
        /\ UNCHANGED <<sock, is_inquiring, names_to_find, cmds, completions, raised>>
  /\ UNCHANGED <<lookup_names, adapt, inquiry, seen, cancelled, lost, count>>

\* A name that arrives raises TypeError (a str separator passed to
\* bytes.split), before anything is recorded.
NameFound ==
  /\ Reads({"name_found"})
  /\ queue' = Tail(queue)
  /\ raised' = TRUE
  /\ UNCHANGED <<self, cmds, adapt, inquiry, completions, seen, cancelled,
                 lost, count>>

\* A failed lookup drops the device if it is one that was asked for.  After
\* the last one the socket is closed but, unlike in Completes, still held.
NameNotFound ==
  /\ Reads({"name_not_found"})
  /\ LET left == names_to_find \ {Head(queue).dev}
     IN  \/ /\ left = {}
            /\ Ends("closed")
         \/ /\ left # {}
            /\ names_to_find' = left
            /\ SendNextNameReq
            /\ queue' = Tail(queue)
            /\ UNCHANGED <<sock, is_inquiring, completions>>
  /\ UNCHANGED <<lookup_names, adapt, inquiry, seen, cancelled, lost, count>>

ProcessEvent == \/ ReadInquiryResult
                \/ ReadComplete
                \/ ReadCmdStatus
                \/ NameFound
                \/ NameNotFound

-----------------------------------------------------------------------------
(***************************************************************************)
(* The adapter and the other processes that use it (external).             *)
(***************************************************************************)

\* An event reaches the socket unless its receive buffer is full.
Delivers(e) == \/ /\ sock = "open"
                  /\ Len(queue) < QueueSize
                  /\ queue' = Append(queue, e)
                  /\ UNCHANGED lost
               \/ /\ sock = "open"
                  /\ Len(queue) = QueueSize
                  /\ lost' = TRUE
                  /\ UNCHANGED queue
               \/ /\ sock # "open"
                  /\ UNCHANGED <<queue, lost>>

Takes(op) == /\ up
             /\ cmds # <<>>
             /\ Head(cmds).op = op
             /\ cmds' = Tail(cmds)

AdapterTakesInquiry ==
  /\ Takes("inquiry")
  /\ \/ /\ adInquiring = 0
        /\ adInquiring' = Head(cmds).id
        /\ Delivers(Ev("cmd_accepted"))
     \/ /\ UNCHANGED adInquiring            \* disallowed, or no resources
        /\ Delivers(Ev("cmd_refused"))
  /\ UNCHANGED <<self, up, adNaming, hist, count>>

AdapterTakesCancel ==
  /\ Takes("cancel")
  /\ adInquiring' = 0
  /\ Delivers(Ev("cmd_complete"))
  /\ UNCHANGED <<self, up, adNaming, hist, count>>

AdapterTakesName ==
  /\ Takes("name")
  /\ \/ /\ adNaming' = adNaming + 1
        /\ Delivers(Ev("cmd_accepted"))
     \/ /\ UNCHANGED adNaming               \* invalid parameters
        /\ Delivers(Ev("cmd_refused"))
  /\ UNCHANGED <<self, up, adInquiring, hist, count>>

AdapterFinds(d, type) ==
  /\ adInquiring # 0
  /\ results < MaxResults
  /\ results' = results + 1
  /\ Delivers(DevEv(type, d))
  /\ UNCHANGED <<self, cmds, adapt, hist, foreign, downs>>

AdapterEndsInquiry ==
  /\ adInquiring # 0
  /\ adInquiring' = 0
  /\ Delivers(Ev("inquiry_complete"))
  /\ UNCHANGED <<self, cmds, up, adNaming, hist, count>>

\* The address of the request is no device's: the page times out.
AdapterEndsName ==
  /\ adNaming > 0
  /\ adNaming' = adNaming - 1
  /\ Delivers(Ev("name_not_found"))
  /\ UNCHANGED <<self, cmds, up, adInquiring, hist, count>>

\* Another process has the adapter complete a command, refuse one, or look up
\* the name of a device.
ForeignEvent(e) ==
  /\ up
  /\ foreign < MaxForeign
  /\ foreign' = foreign + 1
  /\ Delivers(e)
  /\ UNCHANGED <<self, cmds, adapt, hist, results, downs>>

ForeignEvents ==
  {Ev("cmd_complete"), Ev("cmd_refused")}
    \cup {DevEv(type, d) : type \in {"name_found", "name_not_found"}, d \in Devices}

\* The adapter is switched off: what it was doing is lost and not reported.
AdapterDown ==
  /\ up
  /\ downs < MaxDown
  /\ downs' = downs + 1
  /\ up' = FALSE
  /\ cmds' = <<>>
  /\ adInquiring' = 0
  /\ adNaming' = 0
  /\ lost' = TRUE
  /\ UNCHANGED <<self, queue, hist, results, foreign>>

AdapterUp ==
  /\ ~up
  /\ up' = TRUE
  /\ UNCHANGED <<self, queue, cmds, adInquiring, adNaming, hist, lost, count>>

\* What the adapter does of its own, without a user or another process.
AdapterWorks == \/ AdapterTakesInquiry
                \/ AdapterTakesCancel
                \/ AdapterTakesName
                \/ AdapterEndsInquiry
                \/ AdapterEndsName

-----------------------------------------------------------------------------
User == \/ \E lookup \in LookupModes : FindDevices(lookup)
        \/ \E lookup \in LookupModes : FindDevicesFails(lookup)
        \/ CancelInquiry
        \/ CancelInquiryFails
        \/ CancelLookup

Environment == \/ AdapterWorks
               \/ \E d \in Devices, type \in ResultTypes : AdapterFinds(d, type)
               \/ \E e \in ForeignEvents : ForeignEvent(e)
               \/ AdapterDown
               \/ AdapterUp

Next == User \/ ProcessEvent \/ Environment

Spec == Init /\ [][Next]_vars

(***************************************************************************)
(* Fairness.  The adapter answers its commands and ends what it started.   *)
(* The object runs no thread: an event is read because the user's loop     *)
(* reads it.  SelectLoop is the loop of examples/simple, which reads until *)
(* inquiry_complete was called; ProcessInquiryLoop is process_inquiry.     *)
(* Neither catches anything: an exception that leaves process_event ends   *)
(* the loop, and nothing more need be read of this inquiry.                *)
(***************************************************************************)
AdapterFairness == /\ WF_vars(AdapterTakesInquiry \/ AdapterTakesCancel \/ AdapterTakesName)
                   /\ WF_vars(AdapterEndsInquiry)
                   /\ WF_vars(AdapterEndsName)

SelectLoop         == completions = 0 /\ ~raised /\ ProcessEvent
ProcessInquiryLoop == (is_inquiring \/ names_to_find # {}) /\ ~raised /\ ProcessEvent

SelectSpec         == Spec /\ AdapterFairness /\ WF_vars(SelectLoop)
ProcessInquirySpec == Spec /\ AdapterFairness /\ WF_vars(ProcessInquiryLoop)
-----------------------------------------------------------------------------
(***************************************************************************)
(* Properties.                                                             *)
(***************************************************************************)
FlagsOK ==
  /\ is_inquiring \in BOOLEAN
  /\ lookup_names \in BOOLEAN
  /\ up \in BOOLEAN
  /\ cancelled \in BOOLEAN
  /\ raised \in BOOLEAN
  /\ lost \in BOOLEAN

DataOK ==
  /\ sock \in {"None", "open", "closed"}
  /\ names_to_find \subseteq Devices
  /\ queue \in Seq(Event)
  /\ cmds \in Seq(Command)
  /\ adInquiring \in 0..MaxInquiries
  /\ adNaming \in Nat
  /\ inquiry \in 0..MaxInquiries
  /\ completions \in Nat
  /\ seen \subseteq Devices
  /\ results \in Nat
  /\ foreign \in Nat
  /\ downs \in Nat

\* Each variable has its type; in particular only addresses of devices wait
\* for their names.
TypeOK == FlagsOK /\ DataOK

\* inquiry_complete is called at most once for a socket find_devices opens,
\* and when it is called the object is idle again: whatever events the adapter
\* and other processes send afterwards, no second call and no name lookup follow.
CompletesOnce ==
  /\ completions \in {0, 1}
  /\ completions = 1 => /\ sock # "open"
                        /\ ~is_inquiring
                        /\ names_to_find = {}

\* The names that wait to be looked up are of devices the present inquiry
\* found: none is left of an inquiry that was superseded, cancelled or ended.
NamesAreFresh == names_to_find \subseteq seen

\* The object waits for something only while something is coming that ends the
\* wait: process_event never blocks forever in the middle of an inquiry or of
\* a name lookup, provided no event was lost.
Waiting == /\ sock = "open"
           /\ is_inquiring \/ names_to_find # {}

EndsWait(e) ==
  e.type \in {"inquiry_complete", "cmd_complete", "cmd_refused", "name_not_found"}

SomethingComes == \/ cmds # <<>>
                  \/ adInquiring # 0
                  \/ adNaming > 0
                  \/ \E i \in DOMAIN queue : EndsWait(queue[i])

NoLostWakeup == ~lost /\ Waiting => SomethingComes

\* A socket is at hand while an inquiry is in process, so that cancel_inquiry
\* has one to send over and process_event one to read.  (Not so once the
\* adapter was down: CancelInquiryFails.)
InquiringHasSocket == is_inquiring /\ downs = 0 => sock = "open"

\* Every inquiry without name lookup ends with inquiry_complete, also one that
\* was cancelled, unless the user starts another one first, an event was lost
\* or process_event raised: of extended data that end too early and of a name
\* that arrives it does, which ends the loop that reads the events.
InquiryIsCompleted ==
  \A k \in 1..MaxInquiries :
    (inquiry = k /\ ~lookup_names)
      ~> (completions = 1 \/ inquiry # k \/ lookup_names \/ raised \/ lost)

(***************************************************************************)
(* What the documentation says and the code does not do.                   *)
(***************************************************************************)

\* "Called when an inquiry started by find_devices has completed."
CompletedMeansAdapterDone ==
  [][completions' > completions => adInquiring # inquiry]_vars

\* "inquiry_complete will still be called." (of cancel_inquiry)
CancelStillCompletes ==
  \A k \in 1..MaxInquiries :
    (cancelled /\ inquiry = k)
      ~> (completions = 1 \/ inquiry # k \/ raised \/ lost)

\* "Repeatedly calls process_event () until the device inquiry has completed."
ProcessInquiryReturns ==
  (is_inquiring \/ names_to_find # {})
    ~> ((~is_inquiring /\ names_to_find = {}) \/ raised \/ lost)
=============================================================================

---------------------------- MODULE BluezProofs ----------------------------
(***************************************************************************)
(* Proofs about DeviceDiscoverer, for every set of devices and all bounds, *)
(* and about BluezCalls, for any programs and number of ports.             *)
(***************************************************************************)
EXTENDS DeviceDiscoverer, BluezCalls, SequenceTheorems, TLAPS

-----------------------------------------------------------------------------
(***************************************************************************)
(* DeviceDiscoverer: events and the receive buffer.                        *)
(***************************************************************************)

\* Only addresses of devices come with an inquiry response.
LEMMA ResultHasDevice ==
  ASSUME NEW e \in Event, e.type \in ResultTypes
  PROVE  e.dev \in Devices
  BY DEF Event, ResultTypes, OtherTypes

\* Every event the adapter or another process causes is an Event.
LEMMA EventsAreEvents ==
  /\ \A type \in OtherTypes : Ev(type) \in Event
  /\ \A type \in ResultTypes, d \in Devices : DevEv(type, d) \in Event
  /\ \A e \in ForeignEvents : e \in Event
  BY DEF Event, Ev, DevEv, ForeignEvents, OtherTypes

\* Delivering an event keeps the buffer a sequence of events.
LEMMA DeliversType ==
  ASSUME queue \in Seq(Event), NEW e \in Event, Delivers(e)
  PROVE  queue' \in Seq(Event)
  BY DEF Delivers

-----------------------------------------------------------------------------
(***************************************************************************)
(* Type correctness: the flags, then the data, action by action.           *)
(***************************************************************************)
LEMMA FlagsStep == FlagsOK /\ [Next]_vars => FlagsOK'
<1> SUFFICES ASSUME FlagsOK, [Next]_vars PROVE FlagsOK'
  OBVIOUS
<1> USE DEF FlagsOK, self, adapt, hist, count, vars
<1>1. ASSUME NEW lookup \in LookupModes, FindDevices(lookup) PROVE FlagsOK'
  BY <1>1, ConstantsAssumption DEF FindDevices, StartsInquiry
<1>2. ASSUME NEW lookup \in LookupModes, FindDevicesFails(lookup) PROVE FlagsOK'
  BY <1>2, ConstantsAssumption DEF FindDevicesFails
<1>3. CASE CancelInquiry
  BY <1>3 DEF CancelInquiry
<1>4. CASE CancelInquiryFails
  BY <1>4 DEF CancelInquiryFails
<1>5. CASE CancelLookup
  BY <1>5 DEF CancelLookup
<1>6. CASE ProcessEvent
  <2>1. raised' \in BOOLEAN
    BY <1>6 DEF ProcessEvent, ReadInquiryResult, ReadComplete, ReadCmdStatus,
                NameFound, NameNotFound, Completes, Ends, SendNextNameReq
  <2>2. is_inquiring' \in BOOLEAN
    BY <1>6 DEF ProcessEvent, ReadInquiryResult, ReadComplete, ReadCmdStatus,
                NameFound, NameNotFound, Completes, Ends
  <2>3. UNCHANGED <<lookup_names, up, cancelled, lost>>
    BY <1>6 DEF ProcessEvent, ReadInquiryResult, ReadComplete, ReadCmdStatus,
                NameFound, NameNotFound
  <2>4. QED
    BY <2>1, <2>2, <2>3
<1>7. CASE Environment
  BY <1>7 DEF Environment, AdapterWorks, AdapterTakesInquiry, AdapterTakesCancel,
              AdapterTakesName, AdapterEndsInquiry, AdapterEndsName, AdapterFinds,
              ForeignEvent, AdapterDown, AdapterUp, Delivers
<1>8. CASE UNCHANGED vars
  BY <1>8
<1>9. QED
  BY <1>1, <1>2, <1>3, <1>4, <1>5, <1>6, <1>7, <1>8 DEF Next, User

LEMMA UserDataOK == DataOK /\ User => DataOK'
<1> SUFFICES ASSUME DataOK, User PROVE DataOK'
  OBVIOUS
<1> USE ConstantsAssumption DEF DataOK, adapt, hist, count
<1>1. ASSUME NEW lookup \in LookupModes, FindDevices(lookup) PROVE DataOK'
  <2>1. InquiryCmd \in Command
    BY <1>1 DEF FindDevices, InquiryCmd, Command
  <2>2. cmds' \in Seq(Command)
    BY <1>1, <2>1 DEF FindDevices, Sends
  <2>3. QED
    BY <1>1, <2>2 DEF FindDevices, StartsInquiry
<1>2. ASSUME NEW lookup \in LookupModes, FindDevicesFails(lookup) PROVE DataOK'
  <2>1. sock' \in {"None", "open", "closed"}
    BY <1>2 DEF FindDevicesFails
  <2>2. queue' \in {queue, <<>>} /\ completions' \in {completions, 0}
    BY <1>2 DEF FindDevicesFails
  <2>3. UNCHANGED <<names_to_find, cmds, adInquiring, adNaming, inquiry, seen,
                    results, foreign, downs>>
    BY <1>2 DEF FindDevicesFails
  <2>4. completions' \in Nat
    BY <2>2
  <2>5. queue' \in Seq(Event)
    <3>1. queue \in Seq(Event) /\ <<>> \in Seq(Event)
      OBVIOUS
    <3>2. QED
      BY <2>2, <3>1
  <2>6. QED
    BY <2>1, <2>3, <2>4, <2>5
<1>3. CASE CancelInquiry
  BY <1>3 DEF CancelInquiry, Sends, CancelCmd, Command
<1>4. CASE CancelInquiryFails
  BY <1>4 DEF CancelInquiryFails
<1>5. CASE CancelLookup
  BY <1>5 DEF CancelLookup
<1>6. QED
  BY <1>1, <1>2, <1>3, <1>4, <1>5 DEF User

LEMMA ProcessEventDataOK == DataOK /\ ProcessEvent => DataOK'
<1> SUFFICES ASSUME DataOK, ProcessEvent PROVE DataOK'
  OBVIOUS
<1>h. Head(queue) \in Event /\ Tail(queue) \in Seq(Event)
  <2>1. queue \in Seq(Event) /\ queue # <<>>
    BY DEF DataOK, ProcessEvent, ReadInquiryResult, ReadComplete, ReadCmdStatus,
           NameFound, NameNotFound, Reads
  <2>2. QED
    BY <2>1
<1>e. ASSUME NEW s \in {"None", "closed"}, Ends(s),
             UNCHANGED <<adapt, inquiry, seen, count>>
      PROVE  DataOK'
  BY <1>e DEF Ends, DataOK, adapt, count
<1>n. SendNextNameReq => cmds' \in Seq(Command)
  <2>1. NameCmd \in Command
    BY ConstantsAssumption DEF NameCmd, Command
  <2>2. QED
    BY <2>1 DEF SendNextNameReq, Sends, DataOK
<1> USE DEF self, adapt, hist, count
<1>1. CASE ReadInquiryResult
  BY <1>1, <1>h, ResultHasDevice DEF ReadInquiryResult, Reads, DataOK
<1>2. CASE ReadComplete
  <2>1. CASE names_to_find = {}
    BY <1>2, <2>1, <1>e DEF ReadComplete, Completes
  <2>2. CASE names_to_find # {}
    BY <1>2, <2>2, <1>h, <1>n DEF ReadComplete, DataOK
  <2>3. QED
    BY <2>1, <2>2
<1>3. CASE ReadCmdStatus
  <2>1. CASE CommandRefused
    BY <1>3, <2>1, <1>e DEF ReadCmdStatus, Completes
  <2>2. CASE ~CommandRefused
    BY <1>3, <2>2, <1>h DEF ReadCmdStatus, DataOK
  <2>3. QED
    BY <2>1, <2>2
<1>4. CASE NameFound
  BY <1>4, <1>h DEF NameFound, DataOK
<1>5. CASE NameNotFound
  <2> DEFINE left == names_to_find \ {Head(queue).dev}
  <2>1. CASE left = {}
    BY <1>5, <2>1, <1>e DEF NameNotFound
  <2>2. CASE left # {}
    BY <1>5, <2>2, <1>h, <1>n DEF NameNotFound, DataOK
  <2>3. QED
    BY <2>1, <2>2
<1>6. QED
  BY <1>1, <1>2, <1>3, <1>4, <1>5 DEF ProcessEvent

LEMMA EnvironmentDataOK == DataOK /\ Environment => DataOK'
<1> SUFFICES ASSUME DataOK, Environment PROVE DataOK'
  OBVIOUS
<1>q. \A e \in Event : Delivers(e) => queue' \in Seq(Event)
  BY DeliversType DEF DataOK
<1>c. cmds # <<>> => Head(cmds) \in Command /\ Tail(cmds) \in Seq(Command)
  BY DEF DataOK
<1>i. cmds # <<>> => Head(cmds).id \in 0..MaxInquiries
  <2>1. \A c \in Command : c.id \in 0..MaxInquiries
    BY ConstantsAssumption DEF Command
  <2>2. QED
    BY <1>c, <2>1
<1> USE ConstantsAssumption, EventsAreEvents, <1>q DEF DataOK, self, adapt, hist, count, OtherTypes
<1>1. CASE AdapterTakesInquiry
  BY <1>1, <1>c, <1>i DEF AdapterTakesInquiry, Takes
<1>2. CASE AdapterTakesCancel
  BY <1>2, <1>c DEF AdapterTakesCancel, Takes
<1>3. CASE AdapterTakesName
  BY <1>3, <1>c DEF AdapterTakesName, Takes
<1>4. CASE AdapterEndsInquiry
  BY <1>4 DEF AdapterEndsInquiry
<1>5. CASE AdapterEndsName
  BY <1>5 DEF AdapterEndsName
<1>6. ASSUME NEW d \in Devices, NEW type \in ResultTypes, AdapterFinds(d, type)
      PROVE  DataOK'
  BY <1>6 DEF AdapterFinds
<1>7. ASSUME NEW e \in ForeignEvents, ForeignEvent(e) PROVE DataOK'
  BY <1>7 DEF ForeignEvent
<1>8. CASE AdapterDown
  BY <1>8 DEF AdapterDown
<1>9. CASE AdapterUp
  BY <1>9 DEF AdapterUp
<1>10. QED
  BY <1>1, <1>2, <1>3, <1>4, <1>5, <1>6, <1>7, <1>8, <1>9
     DEF Environment, AdapterWorks

\* The variables hold what their declarations say, after any sequence of calls
\* and events.
THEOREM TypeCorrect == Spec => []TypeOK
<1>1. Init => FlagsOK
  BY DEF Init, FlagsOK
<1>2. Init => DataOK
  BY ConstantsAssumption DEF Init, DataOK
<1>3. DataOK /\ UNCHANGED vars => DataOK'
  BY DEF DataOK, vars, self, adapt, hist, count
<1>4. DataOK /\ [Next]_vars => DataOK'
  BY <1>3, UserDataOK, ProcessEventDataOK, EnvironmentDataOK DEF Next
<1>5. QED
  BY <1>1, <1>2, <1>4, FlagsStep, PTL DEF Spec, TypeOK

-----------------------------------------------------------------------------
(***************************************************************************)
(* One inquiry_complete per socket, fresh names, a socket while inquiring. *)
(***************************************************************************)

\* The adapter is only down after it went down, which loses what it was doing.
DownIsLoss == ~up => lost /\ downs # 0

ObjectInv == CompletesOnce /\ NamesAreFresh /\ InquiringHasSocket /\ DownIsLoss

LEMMA UserObjectInv == TypeOK /\ ObjectInv /\ User => ObjectInv'
<1> SUFFICES ASSUME TypeOK, ObjectInv, User PROVE ObjectInv'
  OBVIOUS
<1> USE DEF ObjectInv, CompletesOnce, NamesAreFresh, InquiringHasSocket, DownIsLoss,
            adapt, hist, count
<1>1. ASSUME NEW lookup \in LookupModes, FindDevices(lookup) PROVE ObjectInv'
  BY <1>1 DEF FindDevices, StartsInquiry, Sends
<1>2. ASSUME NEW lookup \in LookupModes, FindDevicesFails(lookup) PROVE ObjectInv'
  BY <1>2 DEF FindDevicesFails
<1>3. CASE CancelInquiry
  BY <1>3 DEF CancelInquiry, Sends
<1>4. CASE CancelInquiryFails
  BY <1>4 DEF CancelInquiryFails
<1>5. CASE CancelLookup
  BY <1>5 DEF CancelLookup
<1>6. QED
  BY <1>1, <1>2, <1>3, <1>4, <1>5 DEF User

LEMMA ProcessEventObjectInv == TypeOK /\ ObjectInv /\ ProcessEvent => ObjectInv'
<1> SUFFICES ASSUME TypeOK, ObjectInv, ProcessEvent PROVE ObjectInv'
  OBVIOUS
<1>o. sock = "open" /\ completions = 0
  BY DEF ProcessEvent, ReadInquiryResult, ReadComplete, ReadCmdStatus, NameFound,
         NameNotFound, Reads, ObjectInv, CompletesOnce
<1> USE <1>o DEF ObjectInv, CompletesOnce, NamesAreFresh, InquiringHasSocket, DownIsLoss,
                 self, adapt, hist, count
<1>e. ASSUME NEW s \in {"None", "closed"}, Ends(s),
             UNCHANGED <<adapt, inquiry, seen, lost, count>>
      PROVE  ObjectInv'
  BY <1>e DEF Ends
<1>1. CASE ReadInquiryResult
  BY <1>1 DEF ReadInquiryResult
<1>2. CASE ReadComplete
  BY <1>2, <1>e DEF ReadComplete, Completes
<1>3. CASE ReadCmdStatus
  BY <1>3, <1>e DEF ReadCmdStatus, Completes
<1>4. CASE NameFound
  BY <1>4 DEF NameFound
<1>5. CASE NameNotFound
  BY <1>5, <1>e DEF NameNotFound
<1>6. QED
  BY <1>1, <1>2, <1>3, <1>4, <1>5 DEF ProcessEvent

LEMMA EnvironmentObjectInv == TypeOK /\ ObjectInv /\ Environment => ObjectInv'
<1> SUFFICES ASSUME TypeOK, ObjectInv, Environment PROVE ObjectInv'
  OBVIOUS
<1>1. UNCHANGED <<self, hist>> /\ (lost => lost')
  BY DEF Environment, AdapterWorks, AdapterTakesInquiry, AdapterTakesCancel,
         AdapterTakesName, AdapterEndsInquiry, AdapterEndsName, AdapterFinds,
         ForeignEvent, AdapterDown, AdapterUp, Delivers
<1>2. \/ up' = up /\ downs' = downs
      \/ lost' = TRUE /\ up' = FALSE /\ downs' = downs + 1
      \/ up' = TRUE /\ downs' = downs
  BY DEF Environment, AdapterWorks, AdapterTakesInquiry, AdapterTakesCancel,
         AdapterTakesName, AdapterEndsInquiry, AdapterEndsName, AdapterFinds,
         ForeignEvent, AdapterDown, AdapterUp, adapt, count, Takes
<1>3. downs \in Nat
  BY DEF TypeOK, DataOK
<1>4. DownIsLoss'
  BY <1>1, <1>2, <1>3 DEF ObjectInv, DownIsLoss
<1>5. InquiringHasSocket'
  BY <1>1, <1>2, <1>3 DEF ObjectInv, InquiringHasSocket, self
<1>6. CompletesOnce' /\ NamesAreFresh'
  BY <1>1 DEF ObjectInv, CompletesOnce, NamesAreFresh, self, hist
<1>7. QED
  BY <1>4, <1>5, <1>6 DEF ObjectInv

LEMMA ObjectInvariant == Spec => []ObjectInv
<1>1. Init => ObjectInv
  BY DEF Init, ObjectInv, CompletesOnce, NamesAreFresh, InquiringHasSocket, DownIsLoss
<1>2. ObjectInv /\ UNCHANGED vars => ObjectInv'
  BY DEF ObjectInv, CompletesOnce, NamesAreFresh, InquiringHasSocket, DownIsLoss,
         vars, self, adapt, hist, count
<1>3. TypeOK /\ ObjectInv /\ [Next]_vars => ObjectInv'
  BY <1>2, UserObjectInv, ProcessEventObjectInv, EnvironmentObjectInv DEF Next
<1>4. QED
  BY <1>1, <1>3, TypeCorrect, PTL DEF Spec

\* inquiry_complete is called at most once for a socket that find_devices
\* opens, whatever events arrive later, and leaves the object idle.
THEOREM InquiryCompletesOnce == Spec => []CompletesOnce
<1>1. ObjectInv => CompletesOnce
  BY DEF ObjectInv
<1>2. QED
  BY <1>1, ObjectInvariant, PTL

\* A name that is looked up belongs to a device the present inquiry found.
THEOREM NamesStayFresh == Spec => []NamesAreFresh
<1>1. ObjectInv => NamesAreFresh
  BY DEF ObjectInv
<1>2. QED
  BY <1>1, ObjectInvariant, PTL

\* As long as the adapter was never down, cancel_inquiry and process_event
\* find a socket whenever is_inquiring is set.
THEOREM SocketWhileInquiring == Spec => []InquiringHasSocket
<1>1. ObjectInv => InquiringHasSocket
  BY DEF ObjectInv
<1>2. QED
  BY <1>1, ObjectInvariant, PTL

-----------------------------------------------------------------------------
(***************************************************************************)
(* No lost wakeup.  NoLostWakeup is not inductive: a response that is read *)
(* after cancel_inquiry makes the object wait again.  The invariant says   *)
(* that something is coming for as long as the socket is open.             *)
(***************************************************************************)
ComesWhileOpen == sock = "open" /\ ~lost => SomethingComes

EndInQueue == \E i \in DOMAIN queue : EndsWait(queue[i])

\* An event that does not end the wait can be read without harm.
LEMMA TailKeepsEnd ==
  ASSUME queue \in Seq(Event), queue # <<>>, ~EndsWait(Head(queue)),
         EndInQueue, queue' = Tail(queue)
  PROVE  EndInQueue'
<1>1. PICK i \in DOMAIN queue : EndsWait(queue[i])
  BY DEF EndInQueue
<1>2. i \in 2..Len(queue)
  BY <1>1
<1>3. i - 1 \in DOMAIN Tail(queue) /\ Tail(queue)[i - 1] = queue[i]
  BY <1>2
<1>4. QED
  BY <1>1, <1>3 DEF EndInQueue, EndsWait

\* Delivering an event keeps those in the buffer, or sets lost.
LEMMA DeliversKeepsEnd ==
  ASSUME queue \in Seq(Event), NEW e \in Event, Delivers(e), sock = "open", ~lost'
  PROVE  /\ EndInQueue => EndInQueue'
         /\ EndsWait(e) => EndInQueue'
<1>1. queue' = Append(queue, e)
  BY DEF Delivers
<1>2. Len(queue) + 1 \in DOMAIN queue' /\ queue'[Len(queue) + 1] = e
  BY <1>1
<1>3. \A i \in DOMAIN queue : i \in DOMAIN queue' /\ queue'[i] = queue[i]
  BY <1>1
<1>4. QED
  BY <1>2, <1>3 DEF EndInQueue, EndsWait

LEMMA UserComes == TypeOK /\ ObjectInv /\ ComesWhileOpen /\ User => ComesWhileOpen'
<1> SUFFICES ASSUME TypeOK, ObjectInv, ComesWhileOpen, User PROVE ComesWhileOpen'
  OBVIOUS
<1>c. \A c : cmds' = Append(cmds, c) => cmds' # <<>>
  BY DEF TypeOK, DataOK
<1> USE DEF ComesWhileOpen, SomethingComes
<1>1. ASSUME NEW lookup \in LookupModes, FindDevices(lookup) PROVE ComesWhileOpen'
  BY <1>1, <1>c DEF FindDevices, Sends
<1>2. ASSUME NEW lookup \in LookupModes, FindDevicesFails(lookup) PROVE ComesWhileOpen'
  BY <1>2 DEF FindDevicesFails, ObjectInv, DownIsLoss
<1>3. CASE CancelInquiry
  BY <1>3, <1>c DEF CancelInquiry, Sends
<1>4. CASE CancelInquiryFails
  BY <1>4 DEF CancelInquiryFails
<1>5. CASE CancelLookup
  BY <1>5 DEF CancelLookup, adapt, EndsWait
<1>6. QED
  BY <1>1, <1>2, <1>3, <1>4, <1>5 DEF User

LEMMA ProcessEventComes ==
  TypeOK /\ ObjectInv /\ ComesWhileOpen /\ ProcessEvent => ComesWhileOpen'
<1> SUFFICES ASSUME TypeOK, ObjectInv, ComesWhileOpen, ProcessEvent,
                    sock' = "open", ~lost'
             PROVE  SomethingComes'
  BY DEF ComesWhileOpen
<1>1. /\ sock = "open" /\ ~lost /\ queue # <<>>
      /\ UNCHANGED <<adInquiring, adNaming>>
  BY DEF ProcessEvent, ReadInquiryResult, ReadComplete, ReadCmdStatus, NameFound,
         NameNotFound, Reads, adapt, self
<1>2. queue \in Seq(Event) /\ cmds \in Seq(Command)
  BY DEF TypeOK, DataOK
<1>3. up
  BY <1>1 DEF ObjectInv, DownIsLoss
<1>4. SendNextNameReq => cmds' # <<>>
  BY <1>2, <1>3 DEF SendNextNameReq, Sends
<1>5. queue' = Tail(queue) /\ (cmds' # <<>> \/ UNCHANGED cmds)
  BY <1>4 DEF ProcessEvent, ReadInquiryResult, ReadComplete, ReadCmdStatus,
         NameFound, NameNotFound, Completes, Ends
<1>6. CASE EndsWait(Head(queue))
  <2>1. ~ReadInquiryResult /\ ~NameFound
    BY <1>6 DEF EndsWait, ReadInquiryResult, NameFound, Reads, ResultTypes
  <2>2. ReadCmdStatus => CommandRefused
    BY <1>6 DEF EndsWait, ReadCmdStatus, Reads, CommandRefused
  <2>3. SendNextNameReq
    BY <2>1, <2>2 DEF ProcessEvent, ReadComplete, ReadCmdStatus, NameNotFound,
                      Completes, Ends
  <2>4. QED
    BY <2>3, <1>4 DEF SomethingComes
<1>7. CASE ~EndsWait(Head(queue))
  <2>1. EndInQueue => EndInQueue'
    BY <1>1, <1>2, <1>5, <1>7, TailKeepsEnd
  <2>2. cmds # <<>> \/ adInquiring # 0 \/ adNaming > 0 \/ EndInQueue
    BY <1>1 DEF ComesWhileOpen, SomethingComes, EndInQueue
  <2>3. QED
    BY <1>1, <1>5, <2>1, <2>2 DEF SomethingComes, EndInQueue
<1>8. QED
  BY <1>6, <1>7

LEMMA EnvironmentComes ==
  TypeOK /\ ObjectInv /\ ComesWhileOpen /\ Environment => ComesWhileOpen'
<1> SUFFICES ASSUME TypeOK, ObjectInv, ComesWhileOpen, Environment,
                    sock' = "open", ~lost'
             PROVE  SomethingComes'
  BY DEF ComesWhileOpen
<1>1. sock = "open" /\ ~lost
  BY DEF Environment, AdapterWorks, AdapterTakesInquiry, AdapterTakesCancel,
         AdapterTakesName, AdapterEndsInquiry, AdapterEndsName, AdapterFinds,
         ForeignEvent, AdapterDown, AdapterUp, Delivers, self
<1>t. /\ queue \in Seq(Event) /\ cmds \in Seq(Command)
      /\ adInquiring \in Nat /\ adNaming \in Nat
  BY ConstantsAssumption DEF TypeOK, DataOK
<1>2. cmds # <<>> \/ adInquiring # 0 \/ adNaming > 0 \/ EndInQueue
  BY <1>1 DEF ComesWhileOpen, SomethingComes, EndInQueue
<1>s. /\ cmds' # <<>> => SomethingComes'
      /\ adInquiring' # 0 => SomethingComes'
      /\ adNaming' > 0 => SomethingComes'
      /\ EndInQueue' => SomethingComes'
  BY DEF SomethingComes, EndInQueue
<1>d. ASSUME NEW e \in Event, Delivers(e)
      PROVE  /\ EndInQueue => EndInQueue'
             /\ EndsWait(e) => EndInQueue'
  BY <1>1, <1>t, <1>d, DeliversKeepsEnd
<1>w. ASSUME NEW type \in OtherTypes, Delivers(Ev(type)),
             type \in {"inquiry_complete", "cmd_complete", "cmd_refused",
                       "name_not_found"}
      PROVE  SomethingComes'
  <2>1. Ev(type) \in Event
    BY EventsAreEvents
  <2>2. EndsWait(Ev(type))
    BY <1>w DEF EndsWait, Ev
  <2>3. EndInQueue'
    BY <1>w, <1>d, <2>1, <2>2
  <2>4. QED
    BY <2>3, <1>s
<1>k. ASSUME NEW e \in Event, Delivers(e), UNCHANGED <<cmds, adapt>>
      PROVE  SomethingComes'
  <2>1. CASE EndInQueue
    BY <2>1, <1>k, <1>d, <1>s
  <2>2. CASE ~EndInQueue
    BY <2>2, <1>k, <1>2 DEF adapt, SomethingComes
  <2>3. QED
    BY <2>1, <2>2
<1>3. CASE AdapterTakesInquiry
  <2>1. Head(cmds) \in Command /\ Head(cmds).op = "inquiry"
    BY <1>3, <1>t DEF AdapterTakesInquiry, Takes
  <2>2. Head(cmds).id # 0
    BY <2>1, ConstantsAssumption DEF Command
  <2>3. CASE adInquiring' = Head(cmds).id
    BY <2>2, <2>3, <1>s
  <2>4. CASE Delivers(Ev("cmd_refused"))
    BY <2>4, <1>w DEF OtherTypes
  <2>5. QED
    BY <1>3, <2>3, <2>4 DEF AdapterTakesInquiry
<1>4. CASE AdapterTakesCancel
  BY <1>4, <1>w DEF AdapterTakesCancel, OtherTypes
<1>5. CASE AdapterTakesName
  <2>1. CASE adNaming' = adNaming + 1
    BY <2>1, <1>t, <1>s
  <2>2. CASE Delivers(Ev("cmd_refused"))
    BY <2>2, <1>w DEF OtherTypes
  <2>3. QED
    BY <1>5, <2>1, <2>2 DEF AdapterTakesName
<1>6. CASE AdapterEndsInquiry
  BY <1>6, <1>w DEF AdapterEndsInquiry, OtherTypes
<1>7. CASE AdapterEndsName
  BY <1>7, <1>w DEF AdapterEndsName, OtherTypes
<1>8. ASSUME NEW d \in Devices, NEW type \in ResultTypes, AdapterFinds(d, type)
      PROVE  SomethingComes'
  <2>1. DevEv(type, d) \in Event
    BY EventsAreEvents
  <2>2. QED
    BY <1>8, <1>k, <2>1 DEF AdapterFinds
<1>9. ASSUME NEW e \in ForeignEvents, ForeignEvent(e) PROVE SomethingComes'
  <2>1. e \in Event
    BY EventsAreEvents
  <2>2. QED
    BY <1>9, <1>k, <2>1 DEF ForeignEvent
<1>10. ~AdapterDown
  BY DEF AdapterDown
<1>11. ~AdapterUp
  BY <1>1 DEF AdapterUp, ObjectInv, DownIsLoss
<1>12. QED
  BY <1>3, <1>4, <1>5, <1>6, <1>7, <1>8, <1>9, <1>10, <1>11
     DEF Environment, AdapterWorks

\* process_event never waits for an event that cannot come: while an inquiry or
\* a name lookup is in process and no event was lost, the adapter still owes
\* the object an event that ends it.
THEOREM NeverWaitsInVain == Spec => []NoLostWakeup
<1>1. Init => ComesWhileOpen
  BY DEF Init, ComesWhileOpen
<1>2. ComesWhileOpen /\ UNCHANGED vars => ComesWhileOpen'
  BY DEF ComesWhileOpen, SomethingComes, EndsWait, vars, self, adapt
<1>3. TypeOK /\ ObjectInv /\ ComesWhileOpen /\ [Next]_vars => ComesWhileOpen'
  BY <1>2, UserComes, ProcessEventComes, EnvironmentComes DEF Next
<1>4. ComesWhileOpen => NoLostWakeup
  BY DEF ComesWhileOpen, NoLostWakeup, Waiting
<1>5. QED
  BY <1>1, <1>3, <1>4, TypeCorrect, ObjectInvariant, PTL DEF Spec

-----------------------------------------------------------------------------
(***************************************************************************)
(* BluezCalls: the inductive invariant.                                    *)
(***************************************************************************)
Filters  == Opcodes \cup {Nothing}
Events   == [op : Opcodes, short : BOOLEAN, val : {0, 1}]
Commands == [op : Opcodes, by : Programs \cup {Gone}]
InCall   == {"send", "recv", "restore"}

\* Each variable has its type.
CallsTypeOK ==
  /\ value \in [Registers -> {0, 1}]
  /\ sent \in Seq(Commands)
  /\ open \subseteq Programs
  /\ filter \in [Programs -> Filters]
  /\ heard \in [Programs -> Seq(Events)]
  /\ shared \subseteq Programs
  /\ pc \in [Programs -> InCall \cup {"idle", "bind", "in use"}]
  /\ call \in [Programs -> [op : Filters, old : Filters]]
  /\ found \in [Programs -> SUBSET {0, 1}]
  /\ had \in [Programs -> SUBSET {0, 1}]
  /\ port \in [Programs -> 0..(LastPort + 1)]
  /\ taken \subseteq Ports
  /\ free \in [Programs -> SUBSET Ports]

\* A socket lets the answers to the call it is used for pass, and nothing
\* between two calls.
FilterOK(p) ==
  /\ IF pc[p] \in InCall
     THEN p \in open /\ call[p].op \in Opcodes /\ filter[p] = call[p].op /\ call[p].old = Nothing
     ELSE call[p].op = Nothing /\ filter[p] = Nothing
  /\ p \notin open => heard[p] = <<>> /\ p \notin shared

\* A call that reads knows the value its register has now.
HadOK(p) ==
  pc[p] \in InCall /\ call[p].op.op = "read" => value[call[p].op.reg] \in had[p]

\* Commands of a program on their way to the adapter.
NoneSent(p) == \A i \in DOMAIN sent : sent[i].by # p
OneSent(p)  == \A i, j \in DOMAIN sent : sent[i].by = p /\ sent[j].by = p => i = j

\* An event that a call may take for its answer.
Answers(e, p) ==
  e.op = call[p].op /\ (e.op.op = "read" /\ ~e.short => e.val \in had[p])

\* A program that heard no other has sent one command or has its answer, and
\* this only where it waits for it.
QueueOK(p) ==
  p \notin shared =>
    IF pc[p] = "recv"
    THEN /\ OneSent(p)
         /\ heard[p] # <<>> => Len(heard[p]) = 1 /\ NoneSent(p) /\ Answers(heard[p][1], p)
    ELSE heard[p] = <<>> /\ NoneSent(p)

AnswerOK(p) == pc[p] = "restore" /\ p \notin shared => found[p] \subseteq had[p]

\* A search has passed only ports that were taken at some time of it.
PortOK(p) ==
  /\ free[p] \cap taken = {}
  /\ pc[p] = "bind" => port[p] >= 1 /\ \A n \in free[p] : n >= port[p]
  /\ pc[p] = "in use" => free[p] = {}

CallOK(p) == FilterOK(p) /\ HadOK(p) /\ QueueOK(p) /\ AnswerOK(p)
CallsInv  == \A p \in Programs : CallOK(p)
PortsInv  == \A p \in Programs : PortOK(p)
Inv == CallsTypeOK /\ CallsInv /\ PortsInv

-----------------------------------------------------------------------------
(***************************************************************************)
(* Opcodes and sequences.                                                  *)
(***************************************************************************)
LEMMA OpcodesAre ==
  /\ \A o \in Opcodes : o.op \in {"read", "write"} /\ o.reg \in Registers
  /\ \A o \in Opcodes : o.op = "read" => o = Read(o.reg)
  /\ \A r \in Registers : /\ Read(r) \in Opcodes
                          /\ Read(r).op = "read" /\ Read(r).reg = r
                          /\ Write(r).op = "write" /\ Write(r).reg = r
  /\ \A r \in Registers \ {"bdaddr"} : Write(r) \in Opcodes
  /\ Nothing \notin Opcodes /\ Nothing.op = "nothing"
<1>1. \A r : Read(r).op = "read" /\ Read(r).reg = r /\ Write(r).op = "write" /\ Write(r).reg = r
  BY DEF Read, Write
<1>2. \A o \in Opcodes : \/ \E r \in Registers : o = Read(r)
                         \/ \E r \in Registers : o = Write(r)
  BY DEF Opcodes
<1>3. Nothing.op = "nothing"
  BY DEF Nothing
<1>4. \A r \in Registers : Read(r) \in Opcodes
  BY DEF Opcodes
<1>5. \A r \in Registers \ {"bdaddr"} : Write(r) \in Opcodes
  BY DEF Opcodes
<1>6. \A o \in Opcodes : o.op \in {"read", "write"} /\ o.reg \in Registers
  BY <1>1, <1>2
<1>7. \A o \in Opcodes : o.op = "read" => o = Read(o.reg)
  BY <1>1, <1>2
<1>8. Nothing \notin Opcodes
  BY <1>3, <1>6
<1>9. QED
  BY <1>1, <1>3, <1>4, <1>5, <1>6, <1>7, <1>8

LEMMA HeadIsFirst ==
  ASSUME NEW S, NEW s \in Seq(S), s # <<>>
  PROVE  /\ Head(s) = s[1] /\ s[1] \in S
         /\ Tail(s) \in Seq(S) /\ Len(Tail(s)) = Len(s) - 1
         /\ \A i \in DOMAIN Tail(s) : i + 1 \in DOMAIN s /\ Tail(s)[i] = s[i + 1]
         /\ Len(s) \in Nat \ {0} /\ DOMAIN s = 1..Len(s)
         /\ Len(s) = 1 => Tail(s) = <<>>
<1>1. Len(s) \in Nat \ {0} /\ DOMAIN s = 1..Len(s) /\ s \in [1..Len(s) -> S]
  BY LenProperties, EmptySeq
<1>2. Tail(s) \in Seq(S) /\ Len(Tail(s)) = Len(s) - 1
  BY HeadTailProperties
<1>3. DOMAIN Tail(s) = 1..(Len(s) - 1)
  BY <1>2, LenProperties
<1>4. \A i \in 1..(Len(s) - 1) : Tail(s)[i] = s[i + 1]
  BY <1>2, HeadTailProperties
<1>5. ASSUME Len(s) = 1 PROVE Tail(s) = <<>>
  <2>1. Len(Tail(s)) = 0
    BY <1>2, <1>5
  <2>2. 0 \notin Nat \ {0}
    OBVIOUS
  <2>3. QED
    BY <1>2, <2>1, <2>2, EmptySeq, Zenon
<1>6. Head(s) = s[1] /\ s[1] \in S
  BY <1>1
<1>7. QED
  BY <1>1, <1>2, <1>3, <1>4, <1>5, <1>6

LEMMA AppendIsLast ==
  ASSUME NEW S, NEW s \in Seq(S), NEW e \in S
  PROVE  /\ Append(s, e) \in Seq(S) /\ Append(s, e) # <<>>
         /\ Len(Append(s, e)) = Len(s) + 1
         /\ DOMAIN s = 1..Len(s) /\ DOMAIN Append(s, e) = 1..(Len(s) + 1)
         /\ \A i \in 1..Len(s) : Append(s, e)[i] = s[i]
         /\ Append(s, e)[Len(s) + 1] = e
         /\ s = <<>> => Append(s, e)[1] = e /\ Len(Append(s, e)) = 1
  BY AppendProperties, EmptySeq, LenProperties

-----------------------------------------------------------------------------
(***************************************************************************)
(* What a step leaves alone.                                               *)
(***************************************************************************)
\* A program of which nothing has changed, but for a search for a port.
LEMMA CallFrame ==
  ASSUME NEW q \in Programs, CallOK(q),
         \/ pc'[q] = pc[q]
         \/ pc[q] \notin InCall /\ pc'[q] \notin InCall,
         call'[q] = call[q], had'[q] = had[q], found'[q] = found[q],
         filter'[q] = filter[q], heard'[q] = heard[q], value' = value,
         q \in open' <=> q \in open, q \in shared' <=> q \in shared,
         NoneSent(q) => NoneSent(q)', OneSent(q) => OneSent(q)'
  PROVE  CallOK(q)'
<1>1. pc'[q] = "recv" <=> pc[q] = "recv"
  BY DEF InCall
<1>2. pc'[q] = "restore" <=> pc[q] = "restore"
  BY DEF InCall
<1>3. FilterOK(q)' /\ HadOK(q)'
  BY DEF CallOK, FilterOK, HadOK
<1>4. QueueOK(q)'
  BY <1>1 DEF CallOK, QueueOK, Answers
<1>5. AnswerOK(q)'
  BY <1>2 DEF CallOK, AnswerOK
<1>6. QED
  BY <1>3, <1>4, <1>5 DEF CallOK

\* The steps of a search leave all calls alone.
LEMMA CallsFrame ==
  ASSUME Inv, UNCHANGED <<adapter, socket, call, found, had>>,
         \A q \in Programs : \/ pc'[q] = pc[q]
                             \/ pc[q] \notin InCall /\ pc'[q] \notin InCall
  PROVE  CallsInv'
<1> SUFFICES ASSUME NEW q \in Programs PROVE CallOK(q)'
  BY DEF CallsInv
<1>1. NoneSent(q)' = NoneSent(q) /\ OneSent(q)' = OneSent(q)
  BY DEF NoneSent, OneSent, adapter
<1>2. QED
  BY <1>1, CallFrame DEF Inv, CallsInv, adapter, socket

\* The steps of a call leave all searches alone.
LEMMA PortsFrame ==
  ASSUME Inv, UNCHANGED ports,
         \A q \in Programs : pc'[q] = pc[q] \/ pc'[q] \in InCall \cup {"idle"}
  PROVE  PortsInv'
  BY DEF Inv, PortsInv, PortOK, ports, InCall

-----------------------------------------------------------------------------
(***************************************************************************)
(* Commands on their way.                                                  *)
(***************************************************************************)
\* The adapter takes one.
LEMMA TakenCommand ==
  ASSUME CallsTypeOK, sent # <<>>, sent' = Tail(sent)
  PROVE  /\ sent' \in Seq(Commands) /\ Head(sent) \in Commands
         /\ \A q \in Programs :
              /\ NoneSent(q) => NoneSent(q)' /\ Head(sent).by # q
              /\ OneSent(q) => OneSent(q)'
              /\ OneSent(q) /\ Head(sent).by = q => NoneSent(q)'
<1>1. sent \in Seq(Commands)
  BY DEF CallsTypeOK
<1>2. /\ Head(sent) = sent[1] /\ sent[1] \in Commands
      /\ Tail(sent) \in Seq(Commands)
      /\ \A i \in DOMAIN Tail(sent) : i + 1 \in DOMAIN sent /\ Tail(sent)[i] = sent[i + 1]
      /\ Len(sent) \in Nat \ {0} /\ DOMAIN sent = 1..Len(sent)
  BY <1>1, HeadIsFirst
<1>3. 1 \in DOMAIN sent
  BY <1>2
<1>4. \A i \in DOMAIN Tail(sent) : i \in Nat \ {0}
  BY <1>2, LenProperties
<1>5. \A q : NoneSent(q) => NoneSent(q)' /\ Head(sent).by # q
  BY <1>2, <1>3 DEF NoneSent
<1>6. ASSUME NEW q, OneSent(q) PROVE OneSent(q)'
  BY <1>2, <1>4, <1>6 DEF OneSent
<1>7. ASSUME NEW q, OneSent(q), Head(sent).by = q PROVE NoneSent(q)'
  BY <1>2, <1>3, <1>4, <1>7 DEF OneSent, NoneSent
<1>8. QED
  BY <1>2, <1>5, <1>6, <1>7

\* A program sends one.
LEMMA SentCommand ==
  ASSUME CallsTypeOK, NEW p \in Programs, NEW o \in Opcodes,
         sent' = Append(sent, [op |-> o, by |-> p])
  PROVE  /\ sent' \in Seq(Commands)
         /\ \A q \in Programs \ {p} : /\ NoneSent(q) => NoneSent(q)'
                                      /\ OneSent(q) => OneSent(q)'
         /\ NoneSent(p) => OneSent(p)'
<1> DEFINE c == [op |-> o, by |-> p]
<1>1. c \in Commands /\ c.by = p
  BY DEF Commands
<1>2. sent \in Seq(Commands)
  BY DEF CallsTypeOK
<1>3. /\ Append(sent, c) \in Seq(Commands)
      /\ DOMAIN sent = 1..Len(sent) /\ DOMAIN Append(sent, c) = 1..(Len(sent) + 1)
      /\ \A i \in 1..Len(sent) : Append(sent, c)[i] = sent[i]
      /\ Append(sent, c)[Len(sent) + 1] = c
      /\ Len(sent) \in Nat
  BY <1>1, <1>2, AppendIsLast, LenProperties
<1>0. sent' = Append(sent, c)
  OBVIOUS
<1> HIDE DEF c
<1>4. \A i \in DOMAIN sent' : \/ i \in DOMAIN sent /\ sent'[i] = sent[i]
                              \/ i = Len(sent) + 1 /\ sent'[i].by = p
  <2>1. /\ DOMAIN sent = 1..Len(sent) /\ DOMAIN sent' = 1..(Len(sent) + 1)
        /\ \A i \in 1..Len(sent) : sent'[i] = sent[i]
        /\ sent'[Len(sent) + 1].by = p
    BY <1>0, <1>1, <1>3
  <2>2. \A i \in 1..(Len(sent) + 1) : i \in 1..Len(sent) \/ i = Len(sent) + 1
    BY <1>3
  <2>3. QED
    BY <2>1, <2>2, Zenon
<1>5. \A q \in Programs \ {p} : /\ NoneSent(q) => NoneSent(q)'
                                /\ OneSent(q) => OneSent(q)'
  BY <1>4 DEF NoneSent, OneSent
<1>6. NoneSent(p) => OneSent(p)'
  BY <1>4 DEF NoneSent, OneSent
<1>7. QED
  BY <1>3, <1>5, <1>6 DEF c

\* Those of a program that has ended are nobody's.
LEMMA LeftCommands ==
  ASSUME CallsTypeOK, NEW p \in Programs,
         sent' = [i \in DOMAIN sent |-> IF sent[i].by = p THEN [sent[i] EXCEPT !.by = Gone]
                                                         ELSE sent[i]]
  PROVE  /\ sent' \in Seq(Commands)
         /\ NoneSent(p)'
         /\ \A q \in Programs \ {p} : /\ NoneSent(q) => NoneSent(q)'
                                      /\ OneSent(q) => OneSent(q)'
<1>1. sent \in Seq(Commands)
  BY DEF CallsTypeOK
<1>2. Len(sent) \in Nat /\ DOMAIN sent = 1..Len(sent) /\ \A i \in DOMAIN sent : sent[i] \in Commands
  BY <1>1, LenProperties
<1>3. DOMAIN sent' = DOMAIN sent
  OBVIOUS
<1>4. \A i \in DOMAIN sent : sent'[i] \in Commands
  BY <1>2 DEF Commands
<1>5. sent' \in Seq(Commands)
  BY <1>2, <1>3, <1>4
<1>6. \A i \in DOMAIN sent : IF sent[i].by = p THEN sent'[i].by = Gone ELSE sent'[i] = sent[i]
  BY <1>2 DEF Commands
<1>7. Gone \notin Programs
  BY CallsAssumption
<1>8. QED
  BY <1>3, <1>5, <1>6, <1>7 DEF NoneSent, OneSent

-----------------------------------------------------------------------------
(***************************************************************************)
(* The adapter.                                                            *)
(***************************************************************************)
\* Every answer to a command keeps the calls in order: what it says of a
\* register is so when it is heard.
LEMMA AdapterStep ==
  ASSUME Inv, NEW o \in Opcodes, NEW short \in BOOLEAN, NEW v \in {0, 1},
         o.op = "read" /\ ~short => v = value[o.reg],
         TakesFirst(o), Hears(EventFor(o, short, v), Head(sent).by),
         UNCHANGED <<pc, call, found>>,
         \A q \in Programs : had[q] \subseteq had'[q] /\ HadOK(q)'
  PROVE  /\ sent' \in Seq(Commands) /\ heard' \in [Programs -> Seq(Events)]
         /\ shared' \subseteq Programs
         /\ CallsInv'
<1> DEFINE e == EventFor(o, short, v)
           w == Head(sent).by
<1>1. e \in Events /\ e.op = o /\ e.short = short /\ e.val = v
  BY DEF EventFor, Events
<1> HIDE DEF e
<1>2. /\ \A q \in Programs : heard'[q] = IF q \in open /\ filter[q] = o
                                       THEN Append(heard[q], e) ELSE heard[q]
      /\ \A q \in Programs : q \in shared' <=>
           q \in shared \/ (q \in open /\ filter[q] = o /\ q # w /\ pc[q] # "idle")
      /\ UNCHANGED <<open, filter>>
      /\ shared' \subseteq Programs
  BY <1>1 DEF Hears, e, Inv, CallsTypeOK
<1>3. heard' \in [Programs -> Seq(Events)]
  <2>1. \A q \in Programs : heard[q] \in Seq(Events) /\ Append(heard[q], e) \in Seq(Events)
    BY <1>1, AppendIsLast DEF Inv, CallsTypeOK
  <2>2. \E f : heard' = [q \in Programs |-> f[q]]
    BY DEF Hears
  <2>3. QED
    BY <1>2, <2>1, <2>2
<1>4. CallsTypeOK /\ sent # <<>> /\ sent' = Tail(sent)
  BY DEF TakesFirst, Inv
<1>5. sent' \in Seq(Commands)
  BY <1>4, TakenCommand
<1>6. ASSUME NEW q \in Programs PROVE CallOK(q)'
  <2>1. /\ NoneSent(q) => NoneSent(q)' /\ w # q
        /\ OneSent(q) => OneSent(q)'
        /\ OneSent(q) /\ w = q => NoneSent(q)'
    BY <1>4, TakenCommand
  <2>2. FilterOK(q) /\ HadOK(q) /\ QueueOK(q) /\ AnswerOK(q)
    BY DEF Inv, CallsInv, CallOK
  <2>3. HadOK(q)' /\ had[q] \subseteq had'[q]
    OBVIOUS
  <2>4. AnswerOK(q)'
    BY <1>2, <2>2, <2>3 DEF AnswerOK
  <2>5. FilterOK(q)'
    BY <1>2, <2>2 DEF FilterOK
  <2>6. QueueOK(q)'
    <3>1. CASE q \in open /\ filter[q] = o
      <4>1. pc[q] \in InCall /\ call[q].op = o
        BY <2>2, <3>1, OpcodesAre DEF FilterOK
      <4>2. SUFFICES ASSUME q \notin shared' PROVE QueueOK(q)'
        BY DEF QueueOK
      <4>3. q \notin shared /\ w = q
        BY <1>2, <3>1, <4>1, <4>2 DEF InCall
      <4>4. pc[q] = "recv" /\ OneSent(q) /\ heard[q] = <<>>
        BY <2>1, <2>2, <4>3 DEF QueueOK
      <4>5. heard[q] \in Seq(Events)
        BY DEF Inv, CallsTypeOK
      <4>6. heard'[q][1] = e /\ Len(heard'[q]) = 1
        <5>1. Append(heard[q], e)[1] = e /\ Len(Append(heard[q], e)) = 1
          BY <1>1, <4>4, <4>5, AppendIsLast
        <5>2. QED
          BY <1>2, <3>1, <5>1
      <4>7. Answers(e, q)'
        <5>1. o.op = "read" => value[o.reg] \in had[q]
          BY <2>2, <4>1 DEF HadOK
        <5>2. e' = e
          BY DEF e, EventFor
        <5>3. QED
          BY <1>1, <2>3, <4>1, <5>1, <5>2 DEF Answers
      <4>8. QED
        BY <2>1, <4>3, <4>4, <4>6, <4>7 DEF QueueOK, Answers
    <3>2. CASE ~(q \in open /\ filter[q] = o)
      <4>1. heard'[q] = heard[q] /\ (q \in shared' <=> q \in shared)
        BY <1>2, <3>2
      <4>2. Answers(heard[q][1], q) => Answers(heard[q][1], q)'
        BY <2>3, <4>1 DEF Answers
      <4>3. QED
        BY <2>1, <2>2, <4>1, <4>2 DEF QueueOK, Answers
    <3>3. QED
      BY <3>1, <3>2
  <2>7. QED
    BY <2>3, <2>4, <2>5, <2>6 DEF CallOK
<1>7. QED
  BY <1>2, <1>3, <1>5, <1>6 DEF CallsInv

LEMMA ValueIsBit ==
  ASSUME CallsTypeOK, NEW r \in Registers
  PROVE  value[r] \in {0, 1}
  BY DEF CallsTypeOK

LEMMA AdapterReadsInv ==
  ASSUME Inv, NEW r \in Registers, AdapterReads(r)
  PROVE  Inv'
<1>1. /\ TakesFirst(Read(r)) /\ Hears(EventFor(Read(r), FALSE, value[r]), Head(sent).by)
      /\ UNCHANGED <<value, local, ports>>
  BY DEF AdapterReads
<1>2. Read(r) \in Opcodes /\ Read(r).reg = r /\ value[r] \in {0, 1}
  BY OpcodesAre, ValueIsBit DEF Inv
<1>3. \A q \in Programs : had[q] \subseteq had'[q] /\ HadOK(q)'
  BY <1>1 DEF local, Inv, CallsInv, CallOK, HadOK
<1>4. UNCHANGED <<pc, call, found>>
  BY <1>1 DEF local
<1>5. /\ sent' \in Seq(Commands) /\ heard' \in [Programs -> Seq(Events)]
      /\ shared' \subseteq Programs /\ CallsInv'
  BY <1>1, <1>2, <1>3, <1>4, AdapterStep
<1>6. CallsTypeOK'
  BY <1>1, <1>5 DEF Inv, CallsTypeOK, Hears, local, ports
<1>7. PortsInv'
  BY <1>1, PortsFrame DEF local
<1>8. QED
  BY <1>5, <1>6, <1>7 DEF Inv

LEMMA AdapterWritesInv ==
  ASSUME Inv, NEW r \in Registers \ {"bdaddr"}, AdapterWrites(r)
  PROVE  Inv'
<1>1. /\ TakesFirst(Write(r)) /\ Hears(EventFor(Write(r), TRUE, 0), Head(sent).by)
      /\ value' = [value EXCEPT ![r] = 1] /\ Notes(Read(r), 1)
      /\ UNCHANGED <<pc, call, found, calls, ports>>
  BY DEF AdapterWrites
<1>2. Write(r) \in Opcodes /\ Write(r).op = "write"
  BY OpcodesAre
<1>3. /\ had' \in [Programs -> SUBSET {0, 1}]
      /\ value' \in [Registers -> {0, 1}]
  BY <1>1 DEF Notes, Inv, CallsTypeOK
<1>4. ASSUME NEW q \in Programs PROVE had[q] \subseteq had'[q] /\ HadOK(q)'
  <2>1. had'[q] = IF pc[q] # "idle" /\ call[q].op = Read(r) THEN had[q] \cup {1} ELSE had[q]
    BY <1>1 DEF Notes
  <2>2. SUFFICES ASSUME pc[q] \in InCall, call[q].op.op = "read"
                 PROVE  value'[call[q].op.reg] \in had'[q]
    BY <1>1, <2>1 DEF HadOK
  <2>3. call[q].op \in Opcodes /\ value[call[q].op.reg] \in had[q]
    BY <2>2 DEF Inv, CallsInv, CallOK, FilterOK, HadOK
  <2>4. call[q].op = Read(call[q].op.reg) /\ call[q].op.reg \in Registers
    BY <2>2, <2>3, OpcodesAre
  <2>5. CASE call[q].op.reg = r
    <3>1. value'[r] = 1
      BY <1>1 DEF Inv, CallsTypeOK
    <3>2. pc[q] # "idle"
      BY <2>2 DEF InCall
    <3>3. QED
      BY <2>1, <2>4, <2>5, <3>1, <3>2
  <2>6. CASE call[q].op.reg # r
    <3>1. value'[call[q].op.reg] = value[call[q].op.reg]
      BY <1>1, <2>4, <2>6 DEF Inv, CallsTypeOK
    <3>2. QED
      BY <2>1, <2>3, <3>1
  <2>7. QED
    BY <2>5, <2>6
<1>5. /\ sent' \in Seq(Commands) /\ heard' \in [Programs -> Seq(Events)]
      /\ shared' \subseteq Programs /\ CallsInv'
  <2>1. 0 \in {0, 1} /\ UNCHANGED <<pc, call, found>>
    BY <1>1
  <2>2. QED
    BY <1>1, <1>2, <1>4, <2>1, AdapterStep
<1>6. CallsTypeOK'
  BY <1>1, <1>3, <1>5 DEF Inv, CallsTypeOK, Hears, ports
<1>7. PortsInv'
  BY <1>1, PortsFrame
<1>8. QED
  BY <1>5, <1>6, <1>7 DEF Inv

LEMMA AdapterRefusesInv ==
  ASSUME Inv, NEW o \in Opcodes, AdapterRefuses(o)
  PROVE  Inv'
<1>1. /\ TakesFirst(o) /\ Hears(EventFor(o, TRUE, 0), Head(sent).by)
      /\ UNCHANGED <<value, local, ports>>
  BY DEF AdapterRefuses
<1>2. \A q \in Programs : had[q] \subseteq had'[q] /\ HadOK(q)'
  BY <1>1 DEF local, Inv, CallsInv, CallOK, HadOK
<1>3. 0 \in {0, 1} /\ UNCHANGED <<pc, call, found>>
  BY <1>1 DEF local
<1>4. /\ sent' \in Seq(Commands) /\ heard' \in [Programs -> Seq(Events)]
      /\ shared' \subseteq Programs /\ CallsInv'
  BY <1>1, <1>2, <1>3, AdapterStep
<1>5. CallsTypeOK'
  BY <1>1, <1>4 DEF Inv, CallsTypeOK, Hears, local, ports
<1>6. PortsInv'
  BY <1>1, PortsFrame DEF local
<1>7. QED
  BY <1>4, <1>5, <1>6 DEF Inv

-----------------------------------------------------------------------------
(***************************************************************************)
(* Sockets and calls.                                                      *)
(***************************************************************************)
LEMMA InitInv == CallsInit => Inv
<1> SUFFICES ASSUME CallsInit PROVE Inv
  OBVIOUS
<1>1. CallsTypeOK
  BY CallsAssumption DEF CallsInit, CallsTypeOK, Filters
<1>2. DOMAIN sent = {}
  BY DEF CallsInit
<1>3. CallsInv
  BY <1>2 DEF CallsInit, CallsInv, CallOK, FilterOK, HadOK, QueueOK, AnswerOK, NoneSent, InCall
<1>4. PortsInv
  BY DEF CallsInit, PortsInv, PortOK
<1>5. QED
  BY <1>1, <1>3, <1>4 DEF Inv

LEMMA OpenInv ==
  ASSUME Inv, NEW p \in Programs, Open(p)
  PROVE  Inv'
<1>1. CallsTypeOK'
  BY DEF Inv, CallsTypeOK, Open, Opens, adapter, local, ports
<1>2. ASSUME NEW q \in Programs PROVE CallOK(q)'
  <2>1. NoneSent(q)' = NoneSent(q) /\ OneSent(q)' = OneSent(q)
    BY DEF NoneSent, OneSent, adapter, Open
  <2>2. CallOK(q)
    BY DEF Inv, CallsInv
  <2>3. CASE q # p
    BY <2>1, <2>2, <2>3, CallFrame DEF Open, Opens, adapter, local
  <2>4. CASE q = p
    BY <2>1, <2>2, <2>4
       DEF Open, Opens, adapter, local, CallOK, FilterOK, HadOK, QueueOK, AnswerOK, InCall
  <2>5. QED
    BY <2>3, <2>4
<1>3. PortsInv'
  BY PortsFrame DEF Open, local
<1>4. QED
  BY <1>1, <1>2, <1>3 DEF Inv, CallsInv

LEMMA BeginInv ==
  ASSUME Inv, NEW p \in Programs, NEW o \in Opcodes, Begin(p, o)
  PROVE  Inv'
<1>1. o \in Filters /\ filter[p] \in Filters /\ (o.op = "read" => value[o.reg] \in {0, 1})
  BY OpcodesAre, ValueIsBit DEF Inv, CallsTypeOK, Filters
<1>2. /\ open' \subseteq Programs /\ p \in open'
      /\ \A q \in Programs \ {p} : q \in open' <=> q \in open
  BY DEF Begin, Opens, Inv, CallsTypeOK
<1>3. CallsTypeOK'
  BY <1>1, <1>2 DEF Inv, CallsTypeOK, Begin, SetFilter, InCall, adapter, ports
<1>4. ASSUME NEW q \in Programs PROVE CallOK(q)'
  <2>1. NoneSent(q)' = NoneSent(q) /\ OneSent(q)' = OneSent(q)
    BY DEF NoneSent, OneSent, adapter, Begin
  <2>2. CallOK(q)
    BY DEF Inv, CallsInv
  <2>3. CASE q # p
    BY <1>2, <2>1, <2>2, <2>3, CallFrame DEF Begin, SetFilter, adapter, Inv, CallsTypeOK
  <2>4. CASE q = p
    <3>1. /\ pc[p] = "idle" /\ pc'[p] = "send" /\ filter'[p] = o
          /\ call'[p] = [op |-> o, old |-> filter[p]]
          /\ had'[p] = IF o.op = "read" THEN {value[o.reg]} ELSE {}
          /\ UNCHANGED <<value, heard, shared>>
      BY DEF Begin, SetFilter, adapter, Inv, CallsTypeOK
    <3>2. filter[p] = Nothing
      BY <2>2, <2>4, <3>1 DEF CallOK, FilterOK, InCall
    <3>3. FilterOK(p)' /\ HadOK(p)'
      BY <1>2, <3>1, <3>2 DEF FilterOK, HadOK, InCall
    <3>4. QueueOK(p)' /\ AnswerOK(p)'
      BY <2>1, <2>2, <2>4, <3>1 DEF CallOK, QueueOK, AnswerOK
    <3>5. QED
      BY <2>4, <3>3, <3>4 DEF CallOK
  <2>5. QED
    BY <2>3, <2>4
<1>5. PortsInv'
  BY PortsFrame DEF Begin, InCall, Inv, CallsTypeOK
<1>6. QED
  BY <1>3, <1>4, <1>5 DEF Inv, CallsInv

LEMMA NoConnectionInv ==
  ASSUME Inv, NEW p \in Programs, NoConnection(p)
  PROVE  Inv'
<1>1. CallsTypeOK'
  BY DEF Inv, CallsTypeOK, NoConnection, adapter, socket, ports
<1>2. CallsInv'
  BY CallsFrame DEF NoConnection
<1>3. PortsInv'
  BY PortsFrame DEF NoConnection
<1>4. QED
  BY <1>1, <1>2, <1>3 DEF Inv

LEMMA SendCmdInv ==
  ASSUME Inv, NEW p \in Programs, SendCmd(p)
  PROVE  Inv'
<1>1. call[p].op \in Opcodes /\ pc[p] = "send" /\ pc' = [pc EXCEPT ![p] = "recv"]
  BY DEF SendCmd, Inv, CallsInv, CallOK, FilterOK, InCall
<1>2. sent' = Append(sent, [op |-> call[p].op, by |-> p])
  BY DEF SendCmd
<1>3. /\ sent' \in Seq(Commands)
      /\ \A q \in Programs \ {p} : /\ NoneSent(q) => NoneSent(q)'
                                   /\ OneSent(q) => OneSent(q)'
      /\ NoneSent(p) => OneSent(p)'
  BY <1>1, <1>2, SentCommand DEF Inv
<1>4. CallsTypeOK'
  BY <1>1, <1>3 DEF Inv, CallsTypeOK, SendCmd, InCall, socket, ports
<1>5. ASSUME NEW q \in Programs PROVE CallOK(q)'
  <2>1. CallOK(q)
    BY DEF Inv, CallsInv
  <2>2. CASE q # p
    BY <1>1, <1>3, <2>1, <2>2, CallFrame DEF SendCmd, socket, Inv, CallsTypeOK
  <2>3. CASE q = p
    <3>1. /\ pc'[p] = "recv"
          /\ UNCHANGED <<value, socket, call, found, had>>
      BY <1>1 DEF SendCmd, Inv, CallsTypeOK
    <3>2. FilterOK(p)' /\ HadOK(p)' /\ AnswerOK(p)'
      BY <1>1, <2>1, <2>3, <3>1 DEF CallOK, FilterOK, HadOK, AnswerOK, InCall, socket
    <3>3. QueueOK(p)'
      BY <1>1, <1>3, <2>1, <2>3, <3>1 DEF CallOK, QueueOK, socket
    <3>4. QED
      BY <2>3, <3>2, <3>3 DEF CallOK
  <2>4. QED
    BY <2>2, <2>3
<1>6. PortsInv'
  BY <1>1, PortsFrame DEF SendCmd, InCall, Inv, CallsTypeOK
<1>7. QED
  BY <1>4, <1>5, <1>6 DEF Inv, CallsInv

LEMMA RecvAnswerInv ==
  ASSUME Inv, NEW p \in Programs, RecvAnswer(p)
  PROVE  Inv'
<1> DEFINE e == First(p)
<1>1. /\ pc[p] = "recv" /\ heard[p] # <<>> /\ Understood(call[p].op, e)
      /\ heard' = [heard EXCEPT ![p] = Tail(heard[p])]
      /\ found' = [found EXCEPT ![p] = IF call[p].op.op = "read" THEN {e.val} ELSE {}]
      /\ pc' = [pc EXCEPT ![p] = "restore"]
      /\ UNCHANGED <<adapter, open, filter, shared, call, had, calls, ports>>
  BY DEF RecvAnswer, Receives, Received
<1>2. /\ heard[p] \in Seq(Events) /\ e = heard[p][1] /\ e \in Events
      /\ Tail(heard[p]) \in Seq(Events)
      /\ Len(heard[p]) = 1 => Tail(heard[p]) = <<>>
  <2>1. heard[p] \in Seq(Events)
    BY DEF Inv, CallsTypeOK
  <2>2. QED
    BY <1>1, <2>1, HeadIsFirst DEF First
<1>3. e.val \in {0, 1}
  BY <1>2 DEF Events
<1> HIDE DEF e
<1>4. CallsTypeOK'
  BY <1>1, <1>2, <1>3 DEF Inv, CallsTypeOK, InCall, adapter, ports
<1>5. ASSUME NEW q \in Programs PROVE CallOK(q)'
  <2>1. NoneSent(q)' = NoneSent(q) /\ OneSent(q)' = OneSent(q)
    BY <1>1 DEF NoneSent, OneSent, adapter
  <2>2. CallOK(q)
    BY DEF Inv, CallsInv
  <2>3. CASE q # p
    BY <1>1, <2>1, <2>2, <2>3, CallFrame DEF adapter, Inv, CallsTypeOK
  <2>4. CASE q = p
    <3>1. /\ pc'[p] = "restore" /\ heard'[p] = Tail(heard[p])
          /\ found'[p] = IF call[p].op.op = "read" THEN {e.val} ELSE {}
      BY <1>1 DEF Inv, CallsTypeOK
    <3>2. FilterOK(p)' /\ HadOK(p)'
      BY <1>1, <2>2, <2>4, <3>1 DEF CallOK, FilterOK, HadOK, InCall, adapter
    <3>3. p \notin shared => /\ Len(heard[p]) = 1 /\ NoneSent(p)
                             /\ Answers(e, p)
      BY <1>1, <1>2, <2>2, <2>4 DEF CallOK, QueueOK
    <3>4. QueueOK(p)'
      BY <1>1, <1>2, <2>1, <2>4, <3>1, <3>3 DEF QueueOK
    <3>5. ASSUME p \notin shared, call[p].op.op = "read" PROVE e.val \in had[p]
      BY <1>1, <3>3, <3>5 DEF Answers, Understood, Unpacks
    <3>6. AnswerOK(p)'
      BY <1>1, <3>1, <3>5 DEF AnswerOK
    <3>7. QED
      BY <2>4, <3>2, <3>4, <3>6 DEF CallOK
  <2>5. QED
    BY <2>3, <2>4
<1>6. PortsInv'
  BY <1>1, PortsFrame DEF InCall, Inv, CallsTypeOK
<1>7. QED
  BY <1>4, <1>5, <1>6 DEF Inv, CallsInv

\* A program that closes its socket is left with nothing.
LEMMA ClosesInv ==
  ASSUME Inv, NEW p \in Programs, pc[p] \in InCall, Closes(p), Ended(p), UNCHANGED ports
  PROVE  Inv'
<1> DEFINE none == [op |-> Nothing, old |-> Nothing]
<1>1. /\ open' = open \ {p} /\ filter' = [filter EXCEPT ![p] = Nothing]
      /\ heard' = [heard EXCEPT ![p] = <<>>] /\ shared' = shared \ {p}
      /\ UNCHANGED value
      /\ pc' = [pc EXCEPT ![p] = "idle"] /\ found' = [found EXCEPT ![p] = {}]
      /\ had' = [had EXCEPT ![p] = {}]
      /\ call' = [call EXCEPT ![p] = none]
  BY DEF Closes, Ended
<1>2. none \in [op : Filters, old : Filters] /\ none.op = Nothing
  BY DEF Filters
<1> HIDE DEF none
<1>3. /\ sent' \in Seq(Commands) /\ NoneSent(p)'
      /\ \A q \in Programs \ {p} : /\ NoneSent(q) => NoneSent(q)'
                                   /\ OneSent(q) => OneSent(q)'
  BY LeftCommands DEF Closes, Inv
<1>4. CallsTypeOK'
  <2>1. heard' \in [Programs -> Seq(Events)]
    <3>1. heard \in [Programs -> Seq(Events)] /\ <<>> \in Seq(Events)
      BY EmptySeq DEF Inv, CallsTypeOK
    <3>2. QED
      BY <1>1, <3>1, Zenon
  <2>2. QED
    BY <1>1, <1>2, <1>3, <2>1 DEF Inv, CallsTypeOK, Filters, ports
<1>5. ASSUME NEW q \in Programs PROVE CallOK(q)'
  <2>1. CallOK(q)
    BY DEF Inv, CallsInv
  <2>2. CASE q # p
    BY <1>1, <1>3, <2>1, <2>2, CallFrame DEF Inv, CallsTypeOK
  <2>3. CASE q = p
    <3>1. /\ pc'[p] = "idle" /\ heard'[p] = <<>> /\ filter'[p] = Nothing
          /\ call'[p].op = Nothing
      BY <1>1, <1>2 DEF Inv, CallsTypeOK
    <3>2. CallOK(p)'
      BY <1>1, <1>3, <3>1 DEF CallOK, FilterOK, HadOK, QueueOK, AnswerOK, InCall
    <3>3. QED
      BY <2>3, <3>2
  <2>4. QED
    BY <2>2, <2>3
<1>6. PortsInv'
  BY <1>1, PortsFrame DEF Inv, CallsTypeOK
<1>7. QED
  BY <1>4, <1>5, <1>6 DEF Inv, CallsInv

LEMMA RecvRaisesInv ==
  ASSUME Inv, NEW p \in Programs, RecvRaises(p)
  PROVE  Inv'
  BY ClosesInv DEF RecvRaises, Receives, InCall

LEMMA RestoreInv ==
  ASSUME Inv, NEW p \in Programs, Restore(p)
  PROVE  Inv'
<1>1. pc[p] = "restore" /\ Ended(p) /\ UNCHANGED ports
  BY DEF Restore
<1>2. CASE OneShot(call[p].op)
  BY <1>1, <1>2, ClosesInv DEF Restore, InCall
<1>3. CASE ~OneShot(call[p].op)
  <2> DEFINE none == [op |-> Nothing, old |-> Nothing]
  <2>1. /\ filter' = [filter EXCEPT ![p] = call[p].old]
        /\ UNCHANGED <<adapter, open, heard, shared>>
        /\ pc' = [pc EXCEPT ![p] = "idle"] /\ found' = [found EXCEPT ![p] = {}]
        /\ had' = [had EXCEPT ![p] = {}]
        /\ call' = [call EXCEPT ![p] = none]
    BY <1>1, <1>3 DEF Restore, PutBack, Ended
  <2>2. none \in [op : Filters, old : Filters] /\ none.op = Nothing /\ Nothing \in Filters
    BY DEF Filters
  <2> HIDE DEF none
  <2>3. call[p].old = Nothing
    BY <1>1 DEF Inv, CallsInv, CallOK, FilterOK, InCall
  <2>4. CallsTypeOK'
    BY <1>1, <2>1, <2>2, <2>3 DEF Inv, CallsTypeOK, adapter, ports
  <2>5. ASSUME NEW q \in Programs PROVE CallOK(q)'
    <3>1. NoneSent(q)' = NoneSent(q) /\ OneSent(q)' = OneSent(q)
      BY <2>1 DEF NoneSent, OneSent, adapter
    <3>2. CallOK(q)
      BY DEF Inv, CallsInv
    <3>3. CASE q # p
      BY <2>1, <3>1, <3>2, <3>3, CallFrame DEF adapter, Inv, CallsTypeOK
    <3>4. CASE q = p
      <4>1. /\ pc'[p] = "idle" /\ filter'[p] = Nothing /\ call'[p].op = Nothing
        BY <2>1, <2>2, <2>3 DEF Inv, CallsTypeOK
      <4>2. p \in open
        BY <1>1, <3>2, <3>4 DEF CallOK, FilterOK, InCall
      <4>3. p \notin shared => heard[p] = <<>> /\ NoneSent(p)
        BY <1>1, <3>2, <3>4 DEF CallOK, QueueOK
      <4>4. CallOK(p)'
        BY <2>1, <3>1, <3>4, <4>1, <4>2, <4>3
           DEF CallOK, FilterOK, HadOK, QueueOK, AnswerOK, InCall
      <4>5. QED
        BY <3>4, <4>4
    <3>5. QED
      BY <3>3, <3>4
  <2>6. PortsInv'
    BY <1>1, <2>1, PortsFrame DEF Inv, CallsTypeOK
  <2>7. QED
    BY <2>4, <2>5, <2>6 DEF Inv, CallsInv
<1>4. QED
  BY <1>2, <1>3

-----------------------------------------------------------------------------
(***************************************************************************)
(* Searches for a port.                                                    *)
(***************************************************************************)
LEMMA PortsAre ==
  /\ LastPort \in Nat /\ 0 \in 0..(LastPort + 1) /\ 1 \in 0..(LastPort + 1)
  /\ \A n \in Ports : n >= 1 /\ n \in Nat /\ n + 1 \in 0..(LastPort + 1)
<1>1. LastPort \in Nat /\ LastPort # 0
  BY CallsAssumption
<1>2. QED
  BY <1>1 DEF Ports

LEMMA BindInv ==
  ASSUME Inv, NEW p \in Programs, Bind(p)
  PROVE  Inv'
<1>1. CallsTypeOK'
  <2>1. Ports \ taken \subseteq Ports
    OBVIOUS
  <2>2. QED
    BY <2>1, PortsAre DEF Inv, CallsTypeOK, Bind, adapter, socket
<1>2. CallsInv'
  BY CallsFrame DEF Bind, InCall, Inv, CallsTypeOK
<1>3. ASSUME NEW q \in Programs PROVE PortOK(q)'
  <2>1. PortOK(q)
    BY DEF Inv, PortsInv
  <2>2. CASE q # p
    BY <2>1, <2>2 DEF Inv, CallsTypeOK, PortOK, Bind
  <2>3. CASE q = p
    <3>1. pc'[p] = "bind" /\ port'[p] = 1 /\ free'[p] = Ports \ taken /\ taken' = taken
      BY DEF Inv, CallsTypeOK, Bind
    <3>2. QED
      BY <2>3, <3>1, PortsAre DEF PortOK
  <2>4. QED
    BY <2>2, <2>3
<1>4. QED
  BY <1>1, <1>2, <1>3 DEF Inv, PortsInv

LEMMA PortIsFreeInv ==
  ASSUME Inv, NEW p \in Programs, PortIsFree(p)
  PROVE  Inv'
<1>1. port[p] \in Ports
  BY DEF PortIsFree, AvailablePorts, Ports
<1>2. CallsTypeOK'
  BY <1>1, PortsAre DEF Inv, CallsTypeOK, PortIsFree, BindEnds, adapter, socket
<1>3. CallsInv'
  BY CallsFrame DEF PortIsFree, BindEnds, InCall, Inv, CallsTypeOK
<1>4. PortsInv'
  BY DEF Inv, CallsTypeOK, PortsInv, PortOK, PortIsFree, BindEnds
<1>5. QED
  BY <1>2, <1>3, <1>4 DEF Inv

LEMMA PortInUseInv ==
  ASSUME Inv, NEW p \in Programs, PortInUse(p)
  PROVE  Inv'
<1>1. /\ port[p] \in taken /\ pc[p] = "bind"
      /\ port' = [port EXCEPT ![p] = port[p] + 1]
      /\ UNCHANGED <<adapter, socket, local, taken, free, takes>>
  BY DEF PortInUse
<1>2. port[p] \in Nat /\ port[p] >= 1 /\ port[p] + 1 \in 0..(LastPort + 1)
  BY PortsAre DEF PortInUse, AvailablePorts, Ports
<1>3. CallsTypeOK'
  BY <1>1, <1>2 DEF Inv, CallsTypeOK, adapter, socket, local
<1>4. CallsInv'
  BY <1>1, CallsFrame DEF local
<1>5. ASSUME NEW q \in Programs PROVE PortOK(q)'
  <2>1. PortOK(q) /\ free[q] \subseteq Ports /\ port[q] \in 0..(LastPort + 1)
    BY DEF Inv, PortsInv, CallsTypeOK
  <2>2. CASE q # p
    BY <1>1, <2>1, <2>2 DEF PortOK, local, Inv, CallsTypeOK
  <2>3. CASE q = p
    <3>1. \A n \in free[p] : n \in Nat /\ n >= port[p] /\ n # port[p]
      <4>1. \A n \in free[p] : n \in Nat /\ n \notin taken
        BY <2>1, <2>3, PortsAre DEF PortOK
      <4>2. QED
        BY <1>1, <2>1, <2>3, <4>1 DEF PortOK
    <3>2. port'[p] = port[p] + 1
      BY <1>1 DEF Inv, CallsTypeOK
    <3>3. \A n \in free[p] : n >= port[p] + 1
      BY <1>1, <1>2, <3>1
    <3>4. port[p] + 1 >= 1
      BY <1>2
    <3>5. QED
      BY <1>1, <2>1, <2>3, <3>2, <3>3, <3>4 DEF PortOK, local
  <2>4. QED
    BY <2>2, <2>3
<1>6. QED
  BY <1>3, <1>4, <1>5 DEF Inv, PortsInv

\* After the last port no free one is left.
LEMMA NoneLeftInv ==
  ASSUME Inv, NEW p \in Programs, NoneLeft(p)
  PROVE  Inv'
<1>1. CallsTypeOK'
  BY DEF Inv, CallsTypeOK, NoneLeft, adapter, socket, ports
<1>2. CallsInv'
  BY CallsFrame DEF NoneLeft, InCall, Inv, CallsTypeOK
<1>3. LastPort \in Nat
  BY CallsAssumption
<1>4. free[p] = {}
  <2>1. /\ port[p] >= 1 /\ port[p] \notin 1..LastPort /\ port[p] \in 0..(LastPort + 1)
        /\ \A n \in free[p] : n >= port[p] /\ n \in 1..LastPort
    BY DEF Inv, CallsTypeOK, PortsInv, PortOK, NoneLeft, AvailablePorts, Ports
  <2>2. QED
    BY <1>3, <2>1
<1>5. PortsInv'
  BY <1>4 DEF Inv, CallsTypeOK, PortsInv, PortOK, NoneLeft, ports
<1>6. QED
  BY <1>1, <1>2, <1>5 DEF Inv

LEMMA BindRaisesInv ==
  ASSUME Inv, NEW p \in Programs, BindRaises(p)
  PROVE  Inv'
<1>1. CallsTypeOK'
  BY PortsAre DEF Inv, CallsTypeOK, BindRaises, BindEnds, Forgotten, adapter, socket
<1>2. CallsInv'
  BY CallsFrame DEF BindRaises, BindEnds, InCall, Inv, CallsTypeOK
<1>3. PortsInv'
  BY DEF Inv, CallsTypeOK, PortsInv, PortOK, BindRaises, BindEnds, Forgotten
<1>4. QED
  BY <1>1, <1>2, <1>3 DEF Inv

LEMMA OthersTakeInv ==
  ASSUME Inv, NEW n \in Ports, OthersTake(n)
  PROVE  Inv'
<1>1. CallsTypeOK'
  BY DEF Inv, CallsTypeOK, OthersTake, Taken, adapter, socket, local
<1>2. CallsInv'
  BY CallsFrame DEF OthersTake, local
<1>3. PortsInv'
  BY DEF Inv, CallsTypeOK, PortsInv, PortOK, OthersTake, Taken, local
<1>4. QED
  BY <1>1, <1>2, <1>3 DEF Inv

LEMMA OthersFreeInv ==
  ASSUME Inv, NEW n \in Ports, OthersFree(n)
  PROVE  Inv'
<1>1. CallsTypeOK'
  BY DEF Inv, CallsTypeOK, OthersFree, adapter, socket, local
<1>2. CallsInv'
  BY CallsFrame DEF OthersFree, local
<1>3. PortsInv'
  BY DEF Inv, CallsTypeOK, PortsInv, PortOK, OthersFree, local
<1>4. QED
  BY <1>1, <1>2, <1>3 DEF Inv

-----------------------------------------------------------------------------
(***************************************************************************)
(* The theorems.                                                           *)
(***************************************************************************)
LEMMA CallsBegin ==
  ASSUME Inv, NEW p \in Programs,
         \/ ReadInquiryMode(p) \/ WriteInquiryMode(p) \/ ReadScanActivity(p)
         \/ WriteScanActivity(p) \/ ReadLocalBdaddr(p) \/ ReadFlushTimeout(p)
         \/ WriteFlushTimeout(p)
  PROVE  Inv'
<1>1. /\ {Read("mode"), Read("scan"), Read("bdaddr"), Read("flush")} \subseteq Opcodes
      /\ {Write("mode"), Write("scan"), Write("flush")} \subseteq Opcodes
  BY OpcodesAre DEF Registers
<1>2. \E o \in Opcodes : Begin(p, o)
  BY <1>1 DEF ReadInquiryMode, WriteInquiryMode, ReadScanActivity, WriteScanActivity,
              ReadLocalBdaddr, ReadFlushTimeout, WriteFlushTimeout
<1>3. QED
  BY <1>2, BeginInv

LEMMA StepInv ==
  ASSUME Inv, [CallsNext]_callsVars
  PROVE  Inv'
<1>1. ASSUME NEW p \in Programs, Open(p) \/ NoConnection(p) \/ Bind(p) \/ Steps(p)
      PROVE  Inv'
  BY <1>1, OpenInv, NoConnectionInv, BindInv, SendCmdInv, RecvAnswerInv, RecvRaisesInv,
     RestoreInv, PortIsFreeInv, PortInUseInv, NoneLeftInv, BindRaisesInv
     DEF Steps
<1>2. ASSUME AdapterTakes PROVE Inv'
  BY <1>2, AdapterReadsInv, AdapterWritesInv, AdapterRefusesInv DEF AdapterTakes
<1>3. ASSUME NEW n \in Ports, OthersTake(n) \/ OthersFree(n) PROVE Inv'
  BY <1>3, OthersTakeInv, OthersFreeInv
<1>4. CASE UNCHANGED callsVars
  <2>1. UNCHANGED <<adapter, socket, local, ports>>
    BY <1>4 DEF callsVars
  <2>2. CallsTypeOK'
    BY <2>1 DEF Inv, CallsTypeOK, adapter, socket, local, ports
  <2>3. CallsInv'
    BY <2>1, CallsFrame DEF local
  <2>4. PortsInv'
    BY <2>1, PortsFrame DEF local
  <2>5. QED
    BY <2>2, <2>3, <2>4 DEF Inv
<1>5. QED
  BY <1>1, <1>2, <1>3, <1>4, CallsBegin DEF CallsNext

THEOREM Invariance == CallsSpec => []Inv
<1>1. CallsInit => Inv
  BY InitInv
<1>2. Inv /\ [CallsNext]_callsVars => Inv'
  BY StepInv
<1>3. QED
  BY <1>1, <1>2, PTL DEF CallsSpec

\* Every variable of the blocking calls has its type: nothing but commands is
\* sent, and a search never passes the port after the last.
THEOREM CallsTypeCorrect == CallsSpec => []CallsTypeOK
<1>1. Inv => CallsTypeOK
  BY DEF Inv
<1>2. QED
  BY <1>1, Invariance, PTL

\* What a read of bluez.py or of the inquiry examples returns, the register
\* had since the call began: no event of an earlier call, nor one heard before
\* the filter was set, is taken for the answer.
THEOREM AnswersAreCurrent == CallsSpec => []AnswerIsCurrent
<1>1. Inv => AnswerIsCurrent
  BY DEF Inv, CallsInv, CallOK, AnswerOK, AnswerIsCurrent
<1>2. QED
  BY <1>1, Invariance, PTL

\* bind with port 0 gives up only if no port was free during all of its
\* search, whatever others take and free meanwhile.
THEOREM BindsFindPorts == CallsSpec => []BindFindsPort
<1>1. Inv => BindFindsPort
  BY DEF Inv, PortsInv, PortOK, BindFindsPort
<1>2. QED
  BY <1>1, Invariance, PTL

=============================================================================

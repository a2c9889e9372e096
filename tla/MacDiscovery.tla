---------------------------- MODULE MacDiscovery ----------------------------
(***************************************************************************)
(* Discovery of devices and services on macOS.                             *)
(*                                                                         *)
(* A lookup starts an inquiry or, device by device, an SDP query, and runs *)
(* the event loop until it is over, which waituntil sees when it takes an  *)
(* event of interruptwait.  What one lookup has started and not waited for *)
(* goes on, and completes in the event loop of another.                    *)
(***************************************************************************)
EXTENDS Naturals, FiniteSets

CONSTANTS
  Devices,
  Services,    \* a service: its name and the protocols in its record
  Types,       \* of services: "RFCOMM", "OBEX" or "any"
  MaxLookups,  \* bound: lookups
  MaxChanges   \* bound: changes to the services of devices

ASSUME DiscoveryAssumption == /\ Services \subseteq [name : STRING, protos : SUBSET STRING]
                              /\ Types \subseteq {"RFCOMM", "OBEX", "any"}
                              /\ {MaxLookups, MaxChanges} \subseteq Nat

VARIABLES
  offered,   \* the services of each device
  cache,     \* getServices: those the last query found
  recent,    \* getLastServicesUpdate is not more than two seconds ago
  inquiry,   \* the lookup an inquiry is under way for, 0 for none
  queries,   \* SDP queries under way: the device and the lookup
  seen,      \* foundDevices of the inquiry
  notes,     \* events of interruptwait
  op,        \* where the lookup is: idle, inquiry, next, query
  kind,      \* devices for finddevices, the type of services for findservices
  lookup,    \* lookups so far
  answer,    \* the status that a completion has brought
  named,     \* the lookup is of one device, whose address was given
  todo,      \* devices to look at, among them the one that is queried
  on,
  found,     \* what is found of each device so far
  warned,    \* devices a warning was given for
  fresh,     \* history: devices of which a query has succeeded in the lookup
  changes

world  == <<offered, changes>>
local  == <<op, kind, lookup, answer, named, todo, on, found, warned>>
lookupVars == <<world, cache, recent, inquiry, queries, seen, notes, local, fresh>>

None == "none"

LookupInit ==
  /\ offered = [d \in Devices |-> Services]
  /\ cache = [d \in Devices |-> {}]
  /\ recent = {}
  /\ inquiry = 0
  /\ queries = {}
  /\ seen = {}
  /\ notes = 0
  /\ op = "idle" /\ kind = "devices" /\ lookup = 0 /\ answer = None
  /\ named = FALSE /\ todo = {} /\ on = None
  /\ found = [d \in {} |-> {}]
  /\ warned = {}
  /\ fresh = {}
  /\ changes = 0

-----------------------------------------------------------------------------
\* The world: services come and go, time passes.
Changes(d) ==
  /\ changes < MaxChanges /\ changes' = changes + 1
  /\ \E s \in Services : offered' = [offered EXCEPT ![d] = IF s \in @ THEN @ \ {s} ELSE @ \cup {s}]
  /\ UNCHANGED <<cache, recent, inquiry, queries, seen, notes, local, fresh>>

Ages(d) ==
  /\ d \in recent /\ recent' = recent \ {d}
  /\ UNCHANGED <<world, cache, inquiry, queries, seen, notes, local, fresh>>

InquirySees(d) ==
  /\ inquiry # 0 /\ d \notin seen
  /\ seen' = seen \cup {d}
  /\ UNCHANGED <<world, cache, recent, inquiry, queries, notes, local, fresh>>

-----------------------------------------------------------------------------
\* Completions, called back in the event loop.
InLoop == op \in {"inquiry", "query"}

\* Mutation of InquiryStatus: no devices is no completion.
InquiryStatusLost(status) == IF status = "empty" THEN None ELSE status

\* Error 188 says that there are no devices.
InquiryStatus(status) == IF status = "empty" THEN "ok" ELSE status

\* _inquirycomplete, by deviceInquiryComplete.  Of a lookup that was
\* interrupted the object may be gone.
InquiryCompletes(status) ==
  /\ InLoop /\ inquiry # 0
  /\ status = "empty" => seen = {}
  /\ inquiry' = 0
  /\ IF inquiry = lookup
     THEN /\ answer' = InquiryStatus(status)
          /\ notes' = notes + 1
     ELSE /\ UNCHANGED answer
          /\ \E n \in 0..1 : notes' = notes + n
  /\ UNCHANGED <<world, cache, recent, queries, seen, op, kind, lookup, named, todo,
                 on, found, warned, fresh>>

\* A query has a runner of its own: of one that was given up no wait sees the
\* status.
Answered(d, n) == op = "query" /\ on = d /\ n = lookup

\* sdpQueryComplete.
QueryCompletes(d, n, status) ==
  /\ InLoop /\ <<d, n>> \in queries
  /\ queries' = queries \ {<<d, n>>}
  /\ IF status = "ok"
     THEN /\ cache' = [cache EXCEPT ![d] = offered[d]]
          /\ recent' = recent \cup {d}
     ELSE UNCHANGED <<cache, recent>>
  /\ IF Answered(d, n)
     THEN /\ answer' = status
          /\ fresh' = IF status = "ok" THEN fresh \cup {d} ELSE fresh
     ELSE UNCHANGED <<answer, fresh>>
  /\ notes' = notes + 1
  /\ UNCHANGED <<world, inquiry, seen, op, kind, lookup, named, todo, on, found, warned>>

-----------------------------------------------------------------------------
Ends == /\ op' = "idle" /\ kind' = "devices" /\ answer' = None
        /\ named' = FALSE /\ todo' = {} /\ on' = None
        /\ UNCHANGED <<lookup, found, warned>>

Starts(k) ==
  /\ op = "idle" /\ lookup < MaxLookups
  /\ lookup' = lookup + 1 /\ kind' = k
  /\ found' = [d \in {} |-> {}]
  /\ warned' = {} /\ fresh' = {}
  /\ UNCHANGED <<world, cache, recent, queries, notes, answer, on>>

\* run of a new inquiry: it does not start while there is another.
Inquire(k) ==
  /\ Starts(k)
  /\ inquiry = 0 /\ inquiry' = lookup'
  /\ seen' = {}
  /\ op' = "inquiry"
  /\ UNCHANGED <<named, todo>>

\* finddevices, and discover_devices of bluetooth.
FindDevices == Inquire("devices")

\* findservices, of any device or one, and find_service of bluetooth, which
\* looks at one device after the other itself.
FindServices(k, d) ==
  \/ Inquire(k)
  \/ /\ Starts(k)
     /\ op' = "next" /\ named' = TRUE /\ todo' = {d}
     /\ UNCHANGED <<inquiry, seen>>

\* The wait for the inquiry is over.
InquiryEnds ==
  /\ IF answer = "ok" /\ kind # "devices"
     THEN /\ op' = "next" /\ todo' = seen /\ answer' = None
          /\ UNCHANGED <<kind, lookup, named, on, found, warned>>
     ELSE Ends
  /\ UNCHANGED <<world, cache, recent, inquiry, queries, seen, fresh>>

\* _searchservices: an OBEX service has RFCOMM in its record too.
Matching(services) ==
  {s \in services : CASE kind = "RFCOMM" -> "RFCOMM" \in s.protos /\ "OBEX" \notin s.protos
                      [] kind = "OBEX" -> "OBEX" \in s.protos
                      [] OTHER -> TRUE}

\* _getservicetuple: the RFCOMM channel, or the PSM, or None.
Tuple(s) == <<s.name, CASE "RFCOMM" \in s.protos -> "channel"
                        [] "L2CAP" \in s.protos /\ "RFCOMM" \notin s.protos -> "PSM"
                        [] OTHER -> None>>

\* What is known of a device is read, with a warning where the query failed.
Read(d, warning) ==
  /\ found' = [e \in DOMAIN found \cup {d} |->
                 IF e = d THEN {Tuple(s) : s \in Matching(cache[d])} ELSE found[e]]
  /\ warned' = IF warning THEN warned \cup {d} ELSE warned
  /\ op' = "next" /\ answer' = None /\ on' = None
  /\ todo' = todo \ {d}
  /\ UNCHANGED <<kind, lookup, named>>

\* The next device: it is queried unless it was a moment ago.
Look(d) ==
  /\ op = "next" /\ d \in todo
  /\ \/ d \in recent /\ Read(d, FALSE) /\ UNCHANGED queries
     \/ d \notin recent /\ Read(d, TRUE) /\ UNCHANGED queries
     \/ /\ d \notin recent /\ op' = "query" /\ on' = d
        /\ queries' = queries \cup {<<d, lookup>>}
        /\ UNCHANGED <<kind, lookup, answer, named, todo, found, warned>>
  /\ UNCHANGED <<world, cache, recent, inquiry, seen, notes, fresh>>

\* IOBluetooth gives no device for the address: findservices raises where it was
\* given, else goes on with the next.  The addresses an inquiry has found are
\* octets under Python 3 (formatdevaddr), with which withAddressString may give
\* the device, nil, or raise.
NoDevice(d) ==
  /\ op = "next" /\ d \in todo
  /\ \/ Ends
     \/ /\ ~named /\ todo' = todo \ {d}
        /\ UNCHANGED <<op, kind, lookup, answer, named, on, found, warned>>
  /\ UNCHANGED <<world, cache, recent, inquiry, queries, seen, notes, fresh>>

NothingLeft ==
  /\ op = "next" /\ todo = {}
  /\ Ends
  /\ UNCHANGED <<world, cache, recent, inquiry, queries, seen, notes, fresh>>

QueryEnds ==
  /\ Read(on, answer # "ok")
  /\ UNCHANGED <<world, cache, recent, inquiry, queries, seen, fresh>>

\* waituntil takes an event of interruptwait.
Notified ==
  /\ InLoop /\ notes > 0
  /\ notes' = notes - 1
  /\ IF answer = None
     THEN UNCHANGED <<world, cache, recent, inquiry, queries, seen, local, fresh>>
     ELSE IF op = "inquiry" THEN InquiryEnds ELSE QueryEnds

\* Mutation of QueryTimesOut: query returns.
QueryReturns ==
  /\ op = "query"
  /\ Read(on, FALSE)
  /\ UNCHANGED <<world, cache, recent, inquiry, queries, seen, notes, fresh>>

\* Ten seconds are over: query raises.
QueryTimesOut ==
  /\ op = "query"
  /\ Read(on, TRUE)
  /\ UNCHANGED <<world, cache, recent, inquiry, queries, seen, notes, fresh>>

\* KeyboardInterrupt in waituntil.
Interrupted ==
  /\ InLoop
  /\ Ends
  /\ UNCHANGED <<world, cache, recent, inquiry, queries, seen, notes, fresh>>

-----------------------------------------------------------------------------
Completes ==
  \/ \E status \in {"ok", "empty", "error"} : InquiryCompletes(status)
  \/ \E q \in queries, status \in {"ok", "error"} : QueryCompletes(q[1], q[2], status)

Proceeds == NothingLeft \/ \E d \in Devices : Look(d) \/ NoDevice(d)

LookupNext ==
  \/ \E d \in Devices : Changes(d) \/ Ages(d) \/ InquirySees(d)
  \/ Completes \/ Proceeds \/ Notified \/ QueryTimesOut \/ Interrupted
  \/ FindDevices
  \/ \E k \in Types, d \in Devices : FindServices(k, d)

\* An inquiry completes, since its length is limited; events are taken, and
\* time passes.  That an SDP query completes is not assumed.
Fairness ==
  /\ WF_lookupVars(\E status \in {"ok", "empty", "error"} : InquiryCompletes(status))
  /\ WF_lookupVars(Proceeds) /\ WF_lookupVars(Notified) /\ WF_lookupVars(QueryTimesOut)

LookupSpec == LookupInit /\ [][LookupNext]_lookupVars /\ Fairness

-----------------------------------------------------------------------------
\* What is found of a device without a warning is of a query that succeeded in
\* this lookup, not one that was given up before, or of one not older than two
\* seconds when it was read (findservices, around query).
Reads(d) == d \in DOMAIN found' /\ d \notin DOMAIN found
FoundIsCurrent ==
  [][\A d \in Devices : Reads(d) => d \in warned' \cup fresh \cup recent]_lookupVars

\* Each lookup ends, whatever is lost of the queries (the waits of run and
\* query, of which the first has no timeout).
LookupsEnd == op # "idle" ~> op = "idle"
=============================================================================

--------------------------- MODULE MacAdvertising ---------------------------
(***************************************************************************)
(* Ports and advertised services of the macOS back end.                    *)
(*                                                                         *)
(* lightblue keeps the handle of a record it publishes under id(sock), the *)
(* address of the object it was given, and keeps it for good; Python gives *)
(* the address of an object that is collected to another.  The object is   *)
(* the wrapper of a socket, and duplicates are wrappers of one socket.  In *)
(* the bluetooth package it is an object that holds a wrapper.             *)
(*                                                                         *)
(* Which of the two a program uses, and whether the framework was built    *)
(* where records can be removed, is fixed from the start.  A call that     *)
(* raises and leaves all as it was is no step.                             *)
(***************************************************************************)
EXTENDS Naturals

CONSTANTS
  Ids,         \* addresses of objects
  Ports,       \* channels of the operating system
  Sockets,     \* sockets there can be at a time
  MaxRecords   \* bound: records ever published

Handles == 1..MaxRecords

ASSUME AdvertisingAssumption == /\ 0 \notin Ids \cup Ports \cup Sockets
                                /\ MaxRecords \in Nat

VARIABLES
  api,         \* "lightblue" or "bluetooth"
  removable,   \* removeService does remove
  wrapper,     \* of each object in use: itself, or the wrapper it holds
  sock,        \* _sock of each wrapper, 0 for _closedsocket
  asked,       \* _addrport of each object: the port bind was called with
  port,        \* __port of each socket
  closed,      \* history: those of them that close was called of
  bound,       \* _boundports
  records,     \* published records, by handle: the port, and, for the properties
               \* only, the object and the socket it was published for
  issued,      \* handles issued
  advertised,  \* __advertised, 0 where there is none
  strays,      \* history: records nobody keeps track of any more
  freed        \* history: ports that closing a closed socket gave back

objects == <<wrapper, sock, asked>>
table   == <<records, issued, advertised, strays>>
vars == <<api, removable, objects, port, closed, bound, table, freed>>

InUse   == {i \in Ids : wrapper[i] # 0}
Free    == Ids \ (InUse \cup {wrapper[i] : i \in InUse})
SockOf(i) == sock[wrapper[i]]
Open    == {sock[i] : i \in Ids} \ ({0} \cup closed)
Vacant  == Ports \ {records[h].port : h \in DOMAIN records}

Init ==
  /\ api \in {"lightblue", "bluetooth"}
  /\ removable \in BOOLEAN
  /\ wrapper = [i \in Ids |-> 0]
  /\ sock = [i \in Ids |-> 0]
  /\ asked = [i \in Ids |-> {}]
  /\ port = [n \in Sockets |-> 0]
  /\ closed = {}
  /\ bound = {}
  /\ records = [h \in {} |-> 0]
  /\ issued = 0
  /\ advertised = [i \in Ids |-> 0]
  /\ strays = {}
  /\ freed = {}

Without(h) == [g \in DOMAIN records \ {h} |-> records[g]]
With(h, p, i, n) ==
  [g \in DOMAIN records \cup {h} |->
     IF g = h THEN [port |-> p, by |-> i, for |-> n] ELSE records[g]]

-----------------------------------------------------------------------------
\* socket.  The last reference to one is that of a wrapper.
Socket(i, w, n) ==
  /\ {i, w} \subseteq Free /\ n \in Sockets \ {sock[j] : j \in Ids}
  /\ (i = w) = (api = "lightblue")
  /\ port' = [port EXCEPT ![n] = 0]
  /\ closed' = closed \ {n}
  /\ sock' = [sock EXCEPT ![w] = n]
  /\ wrapper' = [wrapper EXCEPT ![i] = w]
  /\ UNCHANGED <<api, removable, asked, bound, table, freed>>

\* Of a BluetoothSocket, dup raises: RFCOMM of lightblue is not its own.
Dup(i, j) ==
  /\ api = "lightblue" /\ i \in InUse /\ sock[i] # 0 /\ j \in Free
  /\ wrapper' = [wrapper EXCEPT ![j] = j]
  /\ sock' = [sock EXCEPT ![j] = sock[i]]
  /\ UNCHANGED <<api, removable, asked, port, closed, bound, table, freed>>

\* The object is collected: nothing is closed.
Collect(i) ==
  /\ i \in InUse
  /\ wrapper' = [wrapper EXCEPT ![i] = 0]
  /\ asked' = [asked EXCEPT ![i] = {}]
  /\ sock' = [sock EXCEPT ![wrapper[i]] = 0]
  /\ strays' = strays \cup {h \in DOMAIN records : h = advertised[i]}
  /\ UNCHANGED <<api, removable, port, closed, bound, records, issued,
                 advertised, freed>>

\* _getavailableport publishes a record and removes it.  Where that fails the
\* record stays and bind raises.
Probe(p) ==
  /\ p \in Vacant
  /\ IF removable
     THEN UNCHANGED <<records, issued, strays>>
     ELSE /\ issued < MaxRecords /\ issued' = issued + 1
          /\ records' = With(issued', p, 0, 0)
          /\ strays' = strays \cup {issued'}
  /\ UNCHANGED advertised

\* Mutation of Bind: the port may be another socket's.
BindAnyway(i, p) ==
  /\ i \in InUse /\ SockOf(i) # 0 /\ port[SockOf(i)] = 0
  /\ IF api = "lightblue" THEN UNCHANGED asked ELSE asked' = [asked EXCEPT ![i] = {0}]
  /\ Probe(p)
  /\ IF removable
     THEN /\ bound' = bound \cup {p}
          /\ port' = [port EXCEPT ![SockOf(i)] = p]
     ELSE UNCHANGED <<bound, port>>
  /\ UNCHANGED <<api, removable, wrapper, sock, closed, freed>>

Bind(i, p) ==
  /\ i \in InUse /\ SockOf(i) # 0 /\ port[SockOf(i)] = 0
  /\ IF api = "lightblue" THEN UNCHANGED asked ELSE asked' = [asked EXCEPT ![i] = {0}]
  /\ Probe(p)
  /\ IF removable /\ p \notin bound
     THEN /\ bound' = bound \cup {p}
          /\ port' = [port EXCEPT ![SockOf(i)] = p]
     ELSE UNCHANGED <<bound, port>>
  /\ UNCHANGED <<api, removable, wrapper, sock, closed, freed>>

\* Where bind raises, for a port other than 0, a socket that is bound or closed,
\* or because nothing could be published, the object has remembered the port.
BindRaises(i, p) ==
  /\ api = "bluetooth" /\ i \in InUse
  /\ asked' = [asked EXCEPT ![i] = {p}]
  /\ UNCHANGED <<api, removable, wrapper, sock, port, closed, bound, table, freed>>

\* _getport: none where it raises.
PortFor(i) ==
  IF api = "bluetooth" THEN asked[i]
  ELSE IF sock[i] = 0 THEN {} ELSE {port[sock[i]]} \ {0}

\* Mutation of Remember: the handle is kept for the socket.
RememberSocket(i, h, fits) ==
  advertised' = [j \in Ids |-> IF fits /\ j \in InUse /\ SockOf(j) = SockOf(i)
                               THEN h ELSE advertised[j]]

\* The handle is kept unless the channel is not the one asked for.
Remember(i, h, fits) ==
  advertised' = IF fits THEN [advertised EXCEPT ![i] = h] ELSE advertised

\* advertise.  A handle the object had before is forgotten, and one that is
\* not kept is lost, in either case with the record published.
Advertise(i, p) ==
  /\ i \in InUse /\ p \in Vacant /\ issued < MaxRecords
  /\ issued' = issued + 1
  /\ records' = With(issued', p, i, SockOf(i))
  /\ \E b \in PortFor(i) :
       LET fits == b \in {0, p} IN
       /\ Remember(i, issued', fits)
       /\ strays' = strays \cup IF fits THEN DOMAIN records \cap {advertised[i]}
                                ELSE {issued'}
  /\ UNCHANGED <<api, removable, objects, port, closed, bound, freed>>

\* LightAquaBlue says success also where publishing gave nil: then there is no
\* record, the channel and the handle it tells are none, and only an object
\* that asked for any port takes them.
AdvertiseNothing(i) ==
  /\ i \in InUse /\ 0 \in PortFor(i)
  /\ advertised' = [advertised EXCEPT ![i] = 0]
  /\ strays' = strays \cup (DOMAIN records \cap {advertised[i]})
  /\ UNCHANGED <<api, removable, objects, port, closed, bound, records, issued, freed>>

\* removeService of what is kept for an address.
Remove(i) == records' = IF removable THEN Without(advertised[i]) ELSE records

\* stopadvertise.  bluetooth.stop_advertising raises: lightblue has no
\* function of that name.
StopAdvertise(i) ==
  /\ api = "lightblue" /\ i \in InUse
  /\ advertised[i] \in DOMAIN records
  /\ Remove(i)
  /\ strays' = strays \cap DOMAIN records'
  /\ UNCHANGED <<api, removable, objects, port, closed, bound, issued,
                 advertised, freed>>

\* Mutation of Close: the service is left to stopadvertise.
CloseOnly(i) ==
  LET w == wrapper[i]
      n == sock[w] IN
  /\ i \in InUse /\ n # 0
  /\ bound' = bound \ {port[n]}
  /\ closed' = closed \cup {n}
  /\ freed' = IF n \in closed THEN freed \cup {port[n]} ELSE freed
  /\ sock' = [sock EXCEPT ![w] = 0]
  /\ UNCHANGED <<api, removable, wrapper, asked, port, table>>

\* The socket is closed, with it the port is given back but __port stays, and
\* the wrapper stops what was advertised with it: of a BluetoothSocket
\* nothing was.
Close(i) ==
  LET w == wrapper[i]
      n == sock[w] IN
  /\ i \in InUse /\ n # 0
  /\ bound' = bound \ {port[n]}
  /\ closed' = closed \cup {n}
  /\ freed' = IF n \in closed THEN freed \cup {port[n]} ELSE freed
  /\ sock' = [sock EXCEPT ![w] = 0]
  /\ Remove(w)
  /\ strays' = strays \cap DOMAIN records'
  /\ UNCHANGED <<api, removable, wrapper, asked, port, issued, advertised>>

Next ==
  \/ \E i, j \in Ids : Dup(i, j) \/ \E n \in Sockets : Socket(i, j, n)
  \/ \E i \in Ids : Collect(i) \/ StopAdvertise(i) \/ Close(i) \/ AdvertiseNothing(i)
  \/ \E i \in Ids, p \in Ports : Bind(i, p) \/ Advertise(i, p)
  \/ \E i \in Ids, p \in Ports \cup {0} : BindRaises(i, p)

Spec == Init /\ [][Next]_vars

-----------------------------------------------------------------------------
\* No port is bound by two sockets that are open, whatever ports the probes
\* find, unless a duplicate of a closed socket was closed, which gives back a
\* port that is no longer its own (the use of _boundports in bind and close).
PortsAreUnique ==
  \A m, n \in Open :
    m # n /\ port[m] # 0 /\ port[m] = port[n] => port[m] \in freed

\* A record is kept by the object it was advertised with, which is in use, and
\* in lightblue it ends with that object's close: until then the object is of
\* the socket the record was published for, and the record tells the port that
\* one has bound.  Excepted are the records astray: those of an object that was
\* collected or has advertised again, of another channel than the one bound,
\* and of a probe that could not remove its own.  Of the bluetooth package this
\* does not say that services end, see BluetoothServicesEnd.
ServicesEndWithSockets ==
  \A h \in DOMAIN records \ strays :
    LET i == records[h].by IN
    /\ i \in InUse /\ advertised[i] = h
    /\ api = "lightblue" => /\ SockOf(i) # 0 /\ SockOf(i) = records[h].for
                            /\ records[h].port = port[SockOf(i)]

\* A record that is not astray is removed by the object it was advertised
\* with and no other, though handles stay under addresses used again, and
\* duplicates are closed apart (stopadvertise, called by close too).
StopsItsOwn ==
  [][\A h \in DOMAIN records \ (DOMAIN records' \cup strays) :
       LET i == records[h].by IN StopAdvertise(i) \/ Close(i)]_vars

-----------------------------------------------------------------------------
(***************************************************************************)
(* What the documentation says.                                            *)
(***************************************************************************)
\* "The socket must be a bound, listening socket" (advertise_service of the
\* bluetooth package), and stop_advertising is to be called "right before you
\* close socket": a service that was advertised for a socket does not outlive
\* the closing of it.
BluetoothServicesEnd ==
  api = "bluetooth" => \A h \in DOMAIN records \ strays :
                         records[h].for # 0 => SockOf(records[h].by) # 0
=============================================================================

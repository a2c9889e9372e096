---------------------------- MODULE MsbtServices ----------------------------
(***************************************************************************)
(* Services of the Windows back end: sockets that advertise them, and the  *)
(* search for them, here and at peers.                                     *)
(*                                                                         *)
(* A BluetoothSocket keeps a descriptor, for good, and the record and the  *)
(* handle of the service it advertises; of an object that was collected    *)
(* they are what it had at the end.  A step is a call; one that raises and *)
(* leaves all as it was is none.                                           *)
(***************************************************************************)
EXTENDS SdpData

CONSTANTS
  Objects,    \* bound: the BluetoothSocket objects that are ever made
  Ports,      \* RFCOMM channels
  Services,   \* arguments of advertise_service
  Peers,      \* what peers offer: of each, the attributes and their elements
  Names,      \* names to look for
  MaxFd,      \* bound: descriptors
  MaxHandle   \* bound: records ever registered

Fds   == 1..MaxFd
Files == 1..MaxFd

Id == {o \in Seq(Octet) : Len(o) = 2}
Args == [name : Seq(Char), provider : Seq(Char), description : Seq(Char),
         id : {ids \in Seq(AnyUuid) : Len(ids) < 2}, classes : Seq(AnyUuid),
         protocols : Seq(AnyUuid), profiles : Seq(AnyUuid \X Id)]
Attrs == {s \in Seq(Id \X Nested3(Char)) :
            \A i, j \in DOMAIN s : s[i][1] = s[j][1] => i = j}

ASSUME ServicesAssumption == /\ {MaxFd, MaxHandle} \subseteq Nat
                             /\ Ports \subseteq 1..30
                             /\ Services \subseteq Args
                             /\ Peers \subseteq Attrs

VARIABLES
  fd,       \* _sockfd of each object, 0 before there is one
  raw,      \* _raw_sdp_record, {} for None
  handle,   \* _sdp_handle, 0 for None
  fds,      \* the descriptors of the process: the file of each
  port,     \* the port of each file
  records,  \* registered records, by handle
  issued,   \* handles issued
  told,     \* history: the arguments of each of them
  failed,   \* history: objects for which registering failed
  gone,     \* objects that Python has collected
  found     \* what the last call returned, if it was find_service

system == <<fds, port, issued>>
vars   == <<fd, raw, handle, system, records, told, failed, gone, found>>

Nothing == [name |-> {}, raws |-> {}, result |-> {}]
Free(d) == d \in Fds /\ fds[d] = 0 /\ \A e \in Fds : e < d => fds[e] # 0
FileOf(o) == IF fd[o] = 0 THEN 0 ELSE fds[fd[o]]

Init ==
  /\ fd = [o \in Objects |-> 0]
  /\ raw = [o \in Objects |-> {}]
  /\ handle = [o \in Objects |-> 0]
  /\ fds = [d \in Fds |-> 0]
  /\ port = [f \in Files |-> 0]
  /\ records = [h \in {} |-> <<>>]
  /\ issued = 0
  /\ told = [h \in {} |-> <<>>]
  /\ failed = {}
  /\ gone = {}
  /\ found = Nothing

-----------------------------------------------------------------------------
\* An object for a descriptor: a socket, or dup, that leaves the service to
\* the object it was advertised with.
Open(o, d) ==
  /\ fd[o] = 0 /\ Free(d)
  /\ fd' = [fd EXCEPT ![o] = d]
  /\ \/ \E f \in Files \ Range(fds) :
          /\ \A g \in Files : g < f => g \in Range(fds)
          /\ fds' = [fds EXCEPT ![d] = f]
          /\ port' = [port EXCEPT ![f] = 0]
     \/ \E p \in Objects \ gone :
          /\ FileOf(p) # 0
          /\ fds' = [fds EXCEPT ![d] = FileOf(p)]
          /\ UNCHANGED port
  /\ found' = Nothing
  /\ UNCHANGED <<raw, handle, issued, records, told, failed, gone>>

Bind(o, p) ==
  /\ FileOf(o) # 0 /\ port[FileOf(o)] = 0
  /\ p \notin {port[f] : f \in Range(fds) \ {0}}
  /\ port' = [port EXCEPT ![FileOf(o)] = p]
  /\ found' = Nothing
  /\ UNCHANGED <<fd, raw, handle, fds, issued, records, told, failed, gone>>

\* The descriptor is closed, whoever may have it by now.
Close(o) ==
  /\ FileOf(o) # 0
  /\ fds' = [fds EXCEPT ![fd[o]] = 0]
  /\ found' = Nothing
  /\ UNCHANGED <<fd, raw, handle, port, issued, records, told, failed, gone>>

\* Python collects an object that nothing refers to any more.  The class has no
\* __del__: the descriptor stays open and the service registered.
Collect(o) ==
  /\ fd[o] # 0
  /\ gone' = gone \cup {o}
  /\ found' = Nothing
  /\ UNCHANGED <<fd, raw, handle, system, records, told, failed>>

-----------------------------------------------------------------------------
\* is_valid_uuid.
IsValid(uuid) == uuid[1] \in {"hex", "sloppy"} /\ Len(uuid[2]) \in {2, 4, 16}

Valid(args) ==
  /\ \A u \in Range(args.id) \cup Range(args.classes) \cup Range(args.protocols) : IsValid(u)
  /\ \A p \in Range(args.profiles) : IsValid(p[1])

Short(octet1, octet2) == <<"hex", <<octet1, octet2>>>>
Attr(id, type, value) == <<<<id, <<type, value>>>>>>
Given(value, attr) == IF value = <<>> THEN <<>> ELSE attr
Uuids(uuids) == [i \in DOMAIN uuids |-> <<"UUID", uuids[i]>>]
Each(elements) == [i \in DOMAIN elements |-> <<"ElemSeq", <<elements[i]>>>>]

\* The attributes of a service with its port.
Pairs(args, p) ==
  Given(args.id, Attr(<<0, 3>>, "UUID", args.id[1]))
  \o Given(args.classes, Attr(<<0, 1>>, "ElemSeq", Uuids(args.classes)))
  \o Attr(<<0, 4>>, "ElemSeq",
       <<<<"ElemSeq", <<<<"UUID", Short(1, 0)>>>>>>,
         <<"ElemSeq", <<<<"UUID", Short(0, 3)>>, <<"UInt", <<p>>>>>>>>>>
       \o Each(Uuids(args.protocols)))
  \o Attr(<<0, 5>>, "ElemSeq", Each(Uuids(<<Short(16, 2)>>)))
  \o Given(args.profiles, Attr(<<0, 9>>, "ElemSeq",
       [i \in DOMAIN args.profiles |->
          <<"ElemSeq", <<<<"UUID", args.profiles[i][1]>>,
                         <<"UInt", args.profiles[i][2]>>>>>>]))
  \o Attr(<<1, 0>>, "String", args.name)
  \o Given(args.description, Attr(<<1, 1>>, "String", args.description))
  \o Given(args.provider, Attr(<<1, 2>>, "String", args.provider))

\* Mutation of MayAdvertise: the record may be another by now.
MayAlways(o) == FileOf(o) # 0 /\ port[FileOf(o)] # 0

MayAdvertise(o) == raw[o] = {} /\ FileOf(o) # 0 /\ port[FileOf(o)] # 0

\* advertise_service.  The record is kept before it is registered.
Advertise(o, args) ==
  /\ MayAdvertise(o) /\ Valid(args)
  /\ \E data \in MakeRecord(Pairs(args, port[FileOf(o)])) :
       /\ raw' = [raw EXCEPT ![o] = {data}]
       /\ \/ /\ issued < MaxHandle /\ issued' = issued + 1
             /\ handle' = [handle EXCEPT ![o] = issued']
             /\ records' = [h \in DOMAIN records \cup {issued'} |->
                              IF h = issued' THEN data ELSE records[h]]
             /\ told' = [h \in DOMAIN records' |->
                           IF h = issued' THEN args ELSE told[h]]
             /\ UNCHANGED failed
          \/ /\ failed' = failed \cup {o}
             /\ UNCHANGED <<handle, records, issued, told>>
  /\ found' = Nothing
  /\ UNCHANGED <<fd, fds, port, gone>>

\* stop_advertising.  It raises without a handle: set_service_raw takes a
\* number.
Stop(o) ==
  /\ raw[o] # {} /\ handle[o] # 0
  /\ records' = [h \in DOMAIN records \ {handle[o]} |-> records[h]]
  /\ told' = [h \in DOMAIN records' |-> told[h]]
  /\ raw' = [raw EXCEPT ![o] = {}]
  /\ handle' = [handle EXCEPT ![o] = 0]
  /\ found' = Nothing
  /\ UNCHANGED <<fd, system, failed, gone>>

-----------------------------------------------------------------------------
\* What the stack of a peer makes of the attributes of a record.
EncodeAtom(e) ==
  CASE e[1] = "Nil" -> {<<0>>}
    [] e[1] \in {"UInt", "SInt", "Bool"} -> {Tsd(e[1], Len(e[2])) \o e[2]}
    [] e[1] = "UUID" -> {Tsd(e[1], Len(e[2][2])) \o e[2][2]}
    [] e[1] \in {"String", "URL"} -> Sized(e[1], Len(Encoded(e[2])), Encoded(e[2]))

Offered(peer) ==
  LET e == RecordOf(peer)
  IN MakeSeq(e, [j \in DOMAIN e[2] |-> Of3(e[2][j], EncodeAtom, MakeSeq)])

\* record.get, None where it is the empty set.
Get(record, id) == IF id \in DOMAIN record THEN {record[id]} ELSE {}

\* What find_service makes of a record.  The second of the pairs of a list are
\* its values.  Where there are no service classes the dictionary has another
\* key.  Bound: classes and profiles are lists, of pairs and of lists of them.
Seconds(pairs) == [i \in DOMAIN pairs |-> pairs[i][2]]
Dictionary(data, r) ==
  [raw      |-> data,
   classes  |-> {Seconds(c) : c \in Get(r, <<0, 1>>)},
   profiles |-> {[i \in DOMAIN p |-> Seconds(p[i][2])] : p \in Get(r, <<0, 9>>)},
   provider |-> Get(r, <<1, 2>>),
   id       |-> Get(r, <<0, 3>>),
   name     |-> Get(r, <<1, 0>>)]
Describe(data) == {Dictionary(data, r) : r \in ParseRecord(data)}

\* find_service, of this host or a peer.  One record that does not parse makes
\* it raise.  A name is str and matches no bytes.
Search(name, raws) ==
  LET described == UNION {Describe(data) : data \in raws}
  IN IF \E data \in raws : Describe(data) = {} THEN {}
     ELSE {{d \in described : name = {} \/ d.name = {<<"str", n>> : n \in name}}}

FindService(name, raws) ==
  /\ found = Nothing
  /\ found' = [name |-> name, raws |-> raws, result |-> Search(name, raws)]
  /\ UNCHANGED <<fd, raw, handle, system, records, told, failed, gone>>

Next ==
  \/ \E o \in Objects \ gone :
       \/ \E d \in Fds : Open(o, d)
       \/ \E p \in Ports : Bind(o, p)
       \/ Close(o)
       \/ Collect(o)
       \/ \E args \in Services : Advertise(o, args)
       \/ Stop(o)
  \/ \E name \in {{}} \cup {{n} : n \in Names} :
       \/ FindService(name, Range(records))
       \/ \E peer \in Peers : \E data \in Offered(peer) : FindService(name, {data})

Spec == Init /\ [][Next]_vars

-----------------------------------------------------------------------------
\* What is advertised is registered, until it is stopped, and what is
\* registered is of some object, to be stopped unless the object was collected:
\* but for an object for which registering failed, that is left with a record and
\* no handle (advertise_service and stop_advertising, around set_service_raw).
AdvertisedIsRegistered ==
  /\ \A o \in Objects : raw[o] # {} =>
       IF handle[o] = 0 THEN o \in failed
       ELSE handle[o] \in DOMAIN records /\ raw[o] = {records[handle[o]]}
  /\ \A h \in DOMAIN records : \E o \in Objects : handle[o] = h

Ascii(args) == \A c \in Range(args.name \o args.description \o args.provider) : c < 128
Text(chars) == IF chars = <<>> THEN {} ELSE {<<"bytes", Encoded(chars)>>}
UuidText(uuid) == <<IF Len(uuid[2]) = 16 THEN "str" ELSE "bytes", uuid[2]>>
Tells(d, args) ==
  /\ d.name = {<<"bytes", Encoded(args.name)>>}
  /\ d.provider = Text(args.provider)
  /\ d.id = {UuidText(u) : u \in Range(args.id)}
  /\ d.classes = IF args.classes = <<>> THEN {}
                 ELSE {[i \in DOMAIN args.classes |-> UuidText(args.classes[i])]}
  /\ d.profiles = IF args.profiles = <<>> THEN {}
                  ELSE {[i \in DOMAIN args.profiles |->
                           <<UuidText(args.profiles[i][1]), args.profiles[i][2]>>]}

\* A search finds of each service registered here what it was advertised
\* with, and raises only where there is one with a string that is not ASCII, of
\* which sdp_make_data_element tells too small a size: what is left of the
\* string is read as further attributes, if it can be.
FoundAsAdvertised ==
  found.raws \subseteq Range(records) =>
    /\ found.result = {} /\ found # Nothing =>
         \E h \in DOMAIN records : records[h] \in found.raws /\ ~Ascii(told[h])
    /\ \A ds \in found.result : \A d \in ds : \A h \in DOMAIN records :
         records[h] = d.raw /\ Ascii(told[h]) => Tells(d, told[h])

\* The value of an element, as the parser is to give it: but for signed integers
\* of 128 bits, of which it gives none that is positive, nor the least.
MeantAtom(e) ==
  CASE e[1] = "UUID" -> UuidText(e[2])
    [] e[1] \in {"String", "URL"} -> <<"bytes", Encoded(e[2])>>
    [] e[1] = "SInt" -> IF Len(e[2]) = 16 THEN Wide(e[2]) ELSE e[2]
    [] OTHER -> e[2]
MeantList(e, values) == [i \in DOMAIN values |-> <<e[2][i][1], values[i]>>]
Meant(e) == Of3(e, MeantAtom, MeantList)

Least == <<128>> \o Zeros(15)
Exact(octets) == \/ octets = Zeros(16)
                 \/ octets[1] > 127 /\ octets # Least

\* The parser gives of every attribute of a peer's record, whatever its type,
\* the value the peer means, and of a signed integer of 128 bits exactly where it
\* is negative and not the least, or 0 (sdp_parse_raw_record, with
\* sdp_parse_int).
FoundAsOffered ==
  \A peer \in Peers : \A data \in Offered(peer) : found.raws = {data} =>
    \E record \in ParseRecord(data) :
      /\ DOMAIN record = {peer[i][1] : i \in DOMAIN peer}
      /\ \A i \in DOMAIN peer :
           LET e == peer[i][2]
               value == record[peer[i][1]]
           IN /\ value = Meant(e)
              /\ e[1] = "SInt" /\ Len(e[2]) = 16 =>
                   (value = e[2] <=> Exact(e[2]))

\* A search by name finds the services of that name, where it raises nothing
\* (the documentation of find_service).
NamedServicesAreFound ==
  \A ds \in found.result, n \in found.name : \A h \in DOMAIN records :
    records[h] \in found.raws /\ told[h].name = n => \E d \in ds : d.raw = records[h]
=============================================================================

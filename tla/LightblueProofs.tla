-------------------------- MODULE LightblueProofs ---------------------------
(***************************************************************************)
(* Proofs about the two modules of macos/_lightblue.py: MacAdvertising,    *)
(* for any addresses, ports and sockets and any number of records, and, at *)
(* the end, MacDiscovery.                                                  *)
(***************************************************************************)
EXTENDS MacAdvertising, MacDiscovery, TLAPS

-----------------------------------------------------------------------------
(***************************************************************************)
(* The inductive invariant.                                                *)
(***************************************************************************)
\* Each variable has its type.
TypeOK ==
  /\ api \in {"lightblue", "bluetooth"} /\ removable \in BOOLEAN
  /\ wrapper \in [Ids -> Ids \cup {0}]
  /\ sock \in [Ids -> Sockets \cup {0}]
  /\ asked \in [Ids -> SUBSET (Ports \cup {0})]
  /\ port \in [Sockets -> Ports \cup {0}]
  /\ closed \subseteq Sockets
  /\ bound \subseteq Ports
  /\ issued \in 0..MaxRecords
  /\ advertised \in [Ids -> 0..issued]
  /\ DOMAIN records \subseteq 1..issued
  /\ \A h \in DOMAIN records : records[h].port \in Ports
  /\ strays \subseteq DOMAIN records
  /\ freed \subseteq Ports \cup {0}

\* In lightblue an object is its own wrapper; in the bluetooth package it
\* holds one, which no program uses.
WrappersOK ==
  \A i \in InUse : IF api = "lightblue" THEN wrapper[i] = i ELSE wrapper[i] \notin InUse

\* The port of an open socket is in _boundports, unless it was given back for
\* another.
BoundOK == \A n \in Open : port[n] # 0 => port[n] \in bound \cup freed

\* A handle is kept for one object.
KeptOnce == \A i, j \in Ids : advertised[i] = advertised[j] /\ advertised[i] # 0 => i = j

Inv == TypeOK /\ WrappersOK /\ BoundOK /\ KeptOnce /\ PortsAreUnique /\ ServicesEndWithSockets

\* Where records cannot be removed no socket is bound, and none advertised.
BoundIsRemovable == \A n \in Sockets : port[n] # 0 => removable

-----------------------------------------------------------------------------
(***************************************************************************)
(* Objects, records, and what a step leaves alone.                         *)
(***************************************************************************)
LEMMA NoneIsZero ==
  0 \notin Ids /\ 0 \notin Ports /\ 0 \notin Sockets /\ MaxRecords \in Nat
  BY AdvertisingAssumption

LEMMA ObjectsAre ==
  ASSUME Inv, NEW i \in InUse
  PROVE  /\ i \in Ids /\ wrapper[i] \in Ids /\ SockOf(i) \in Sockets \cup {0}
         /\ api = "lightblue" => wrapper[i] = i
         /\ api # "lightblue" => wrapper[i] \notin InUse
         /\ SockOf(i) \notin closed /\ SockOf(i) # 0 => SockOf(i) \in Open
  BY DEF Inv, TypeOK, WrappersOK, InUse, SockOf, Open

LEMMA FreeAre ==
  ASSUME Inv, NEW j \in Free
  PROVE  /\ j \in Ids /\ wrapper[j] = 0
         /\ \A i \in InUse : i # j /\ wrapper[i] # j
  BY DEF Inv, TypeOK, InUse, Free

\* A record that is not astray, by its handle.
ServiceOK(h) ==
  LET i == records[h].by IN
  /\ i \in InUse /\ advertised[i] = h
  /\ api = "lightblue" => /\ sock[i] # 0 /\ sock[i] = records[h].for
                          /\ records[h].port = port[sock[i]]

LEMMA ServicesAre ==
  ASSUME WrappersOK
  PROVE  ServicesEndWithSockets <=> \A h \in DOMAIN records \ strays : ServiceOK(h)
<1>1. ASSUME NEW i \in InUse, api = "lightblue" PROVE SockOf(i) = sock[i]
  BY <1>1 DEF WrappersOK, SockOf
<1>2. QED
  BY <1>1 DEF ServicesEndWithSockets, ServiceOK

\* Published records are told apart by their handles.
LEMMA PublishedIs ==
  ASSUME Inv, NEW p \in Ports, NEW i, NEW n, issued < MaxRecords,
         issued' = issued + 1, records' = With(issued', p, i, n)
  PROVE  /\ DOMAIN records' = DOMAIN records \cup {issued'}
         /\ issued' \notin DOMAIN records /\ issued' \in 1..MaxRecords
         /\ \A h \in DOMAIN records : records'[h] = records[h]
         /\ records'[issued'].port = p /\ records'[issued'].by = i
         /\ records'[issued'].for = n
         /\ DOMAIN records' \subseteq 1..issued'
         /\ \A h \in DOMAIN records' : records'[h].port \in Ports
         /\ \A j \in Ids : advertised[j] \in 0..issued' /\ advertised[j] # issued'
<1>1. issued \in Nat /\ MaxRecords \in Nat /\ DOMAIN records \subseteq 1..issued
  BY NoneIsZero DEF Inv, TypeOK
<1>2. /\ issued' \notin DOMAIN records /\ issued' \in 1..MaxRecords
      /\ DOMAIN records \cup {issued'} \subseteq 1..issued'
  BY <1>1
<1>3. /\ DOMAIN records' = DOMAIN records \cup {issued'}
      /\ records'[issued'] = [port |-> p, by |-> i, for |-> n]
      /\ \A h \in DOMAIN records : records'[h] = records[h]
  BY <1>2 DEF With
<1>4. \A h \in DOMAIN records : records[h].port \in Ports
  BY DEF Inv, TypeOK
<1>5. \A j \in Ids : advertised[j] \in 0..issued' /\ advertised[j] # issued'
  BY <1>1 DEF Inv, TypeOK
<1>6. QED
  BY <1>2, <1>3, <1>4, <1>5

\* The ports are in order while no socket is opened or bound, and none that is
\* bound is closed.
LEMMA PortsFrame ==
  ASSUME Inv, UNCHANGED <<port, bound, freed>>, Open' \subseteq Open
  PROVE  BoundOK' /\ PortsAreUnique'
  BY DEF Inv, BoundOK, PortsAreUnique

\* The services are in order while the objects they were advertised with stay
\* as they are.
LEMMA ServicesFrame ==
  ASSUME Inv, WrappersOK', api' = api,
         DOMAIN records' \ strays' \subseteq DOMAIN records \ strays,
         \A h \in DOMAIN records' \ strays' :
           records'[h] = records[h],
         \A h \in DOMAIN records' \ strays' :
           LET i == records[h].by IN
           /\ wrapper'[i] = wrapper[i] /\ advertised'[i] = advertised[i]
           /\ api = "lightblue" => sock'[i] = sock[i] /\ port'[sock[i]] = port[sock[i]]
  PROVE  ServicesEndWithSockets'
<1> SUFFICES ASSUME NEW h \in DOMAIN records' \ strays' PROVE ServiceOK(h)'
  <2>1. WrappersOK' => (ServicesEndWithSockets <=>
           \A h \in DOMAIN records \ strays : ServiceOK(h))'
    BY ServicesAre, PTL
  <2>2. QED
    BY <2>1
<1>1. ServiceOK(h)
  BY ServicesAre DEF Inv
<1>2. QED
  BY <1>1 DEF ServiceOK, InUse

-----------------------------------------------------------------------------
(***************************************************************************)
(* The steps.                                                              *)
(***************************************************************************)
LEMMA InitInv == Init => Inv
<1> SUFFICES ASSUME Init PROVE Inv
  OBVIOUS
<1>1. DOMAIN records = {} /\ InUse = {} /\ Open = {}
  BY DEF Init, InUse, Open
<1>2. TypeOK
  BY <1>1, NoneIsZero DEF Init, TypeOK
<1>3. QED
  BY <1>1, <1>2
     DEF Init, Inv, WrappersOK, BoundOK, KeptOnce, PortsAreUnique, ServicesEndWithSockets

LEMMA SocketInv ==
  ASSUME Inv, NEW i \in Ids, NEW w \in Ids, NEW n \in Sockets, Socket(i, w, n)
  PROVE  Inv'
<1>1. TypeOK'
  BY DEF Inv, TypeOK, Socket, table
<1>2. /\ wrapper' = [wrapper EXCEPT ![i] = w] /\ sock' = [sock EXCEPT ![w] = n]
      /\ wrapper'[i] = w /\ sock'[w] = n /\ port'[n] = 0
      /\ InUse' = InUse \cup {i}
      /\ UNCHANGED <<api, bound, records, advertised, strays, freed>>
  BY NoneIsZero DEF Socket, InUse, Inv, TypeOK, table
<1>3. WrappersOK'
  BY <1>2, FreeAre DEF Socket, Inv, TypeOK, WrappersOK, InUse
<1>4. \A m \in Open' : m = n \/ (m \in Open /\ port'[m] = port[m])
  BY DEF Socket, Open, Inv, TypeOK
<1>5. BoundOK' /\ PortsAreUnique'
  BY <1>2, <1>4 DEF Inv, BoundOK, PortsAreUnique
<1>6. ServicesEndWithSockets'
  <2>1. ASSUME NEW h \in DOMAIN records \ strays
        PROVE  LET j == records[h].by IN
               /\ wrapper'[j] = wrapper[j]
               /\ api = "lightblue" => sock'[j] = sock[j] /\ port'[sock[j]] = port[sock[j]]
    <3>1. records[h].by \in InUse
      BY DEF Inv, ServicesEndWithSockets
    <3>2. QED
      BY <1>2, <3>1, FreeAre, ObjectsAre DEF Socket, Inv, TypeOK
  <2>2. QED
    BY <1>2, <1>3, <2>1, ServicesFrame
<1>7. KeptOnce'
  BY <1>2 DEF Inv, KeptOnce
<1>8. QED
  BY <1>1, <1>3, <1>5, <1>6, <1>7 DEF Inv

LEMMA DupInv ==
  ASSUME Inv, NEW i \in Ids, NEW j \in Ids, Dup(i, j)
  PROVE  Inv'
<1>1. TypeOK'
  BY DEF Inv, TypeOK, Dup, table
<1>2. /\ wrapper' = [wrapper EXCEPT ![j] = j] /\ sock' = [sock EXCEPT ![j] = sock[i]]
      /\ api = "lightblue" /\ j \in Free
      /\ UNCHANGED <<api, port, closed, bound, records, advertised, strays, freed>>
  BY DEF Dup, table
<1>3. WrappersOK'
  BY <1>2, NoneIsZero DEF Inv, TypeOK, WrappersOK, InUse
<1>4. Open' \subseteq Open
  BY <1>2 DEF Open, Inv, TypeOK
<1>5. BoundOK' /\ PortsAreUnique'
  BY <1>2, <1>4, PortsFrame
<1>6. ServicesEndWithSockets'
  <2>1. \A h \in DOMAIN records \ strays :
          LET k == records[h].by IN wrapper'[k] = wrapper[k] /\ sock'[k] = sock[k]
    BY <1>2, FreeAre DEF Inv, TypeOK, ServicesEndWithSockets
  <2>2. QED
    BY <1>2, <1>3, <2>1, ServicesFrame
<1>7. KeptOnce'
  BY <1>2 DEF Inv, KeptOnce
<1>8. QED
  BY <1>1, <1>3, <1>5, <1>6, <1>7 DEF Inv

LEMMA CollectInv ==
  ASSUME Inv, NEW i \in Ids, Collect(i)
  PROVE  Inv'
<1>1. TypeOK'
  BY DEF Inv, TypeOK, Collect
<1>2. /\ wrapper' = [wrapper EXCEPT ![i] = 0] /\ sock' = [sock EXCEPT ![wrapper[i]] = 0]
      /\ i \in InUse /\ InUse' = InUse \ {i}
      /\ UNCHANGED <<api, port, closed, bound, records, advertised, freed>>
  BY DEF Collect, InUse, Inv, TypeOK
<1>3. WrappersOK'
  BY <1>2 DEF Inv, TypeOK, WrappersOK, InUse
<1>4. Open' \subseteq Open
  BY <1>2 DEF Open, Inv, TypeOK
<1>5. BoundOK' /\ PortsAreUnique'
  BY <1>2, <1>4, PortsFrame
<1>6. ServicesEndWithSockets'
  <2>1. strays' = strays \cup {h \in DOMAIN records : h = advertised[i]}
    BY DEF Collect
  <2>2. ASSUME NEW h \in DOMAIN records \ strays'
        PROVE  LET k == records[h].by IN
               /\ wrapper'[k] = wrapper[k]
               /\ api = "lightblue" => sock'[k] = sock[k]
    <3>1. records[h].by \in InUse /\ records[h].by # i
      BY <2>1 DEF Inv, ServicesEndWithSockets
    <3>2. QED
      BY <1>2, <3>1, ObjectsAre DEF Inv, TypeOK
  <2>3. QED
    BY <1>2, <1>3, <2>1, <2>2, ServicesFrame
<1>7. KeptOnce'
  BY <1>2 DEF Inv, KeptOnce
<1>8. QED
  BY <1>1, <1>3, <1>5, <1>6, <1>7 DEF Inv

\* A probe leaves no record but one that is astray.
LEMMA ProbeIs ==
  ASSUME Inv, NEW p \in Ports, Probe(p)
  PROVE  /\ issued' \in 0..MaxRecords /\ DOMAIN records' \subseteq 1..issued'
         /\ advertised' = advertised /\ advertised' \in [Ids -> 0..issued']
         /\ \A h \in DOMAIN records' : records'[h].port \in Ports
         /\ strays' \subseteq DOMAIN records'
         /\ DOMAIN records' \ strays' \subseteq DOMAIN records \ strays
         /\ \A h \in DOMAIN records : records'[h] = records[h]
         /\ DOMAIN records \subseteq DOMAIN records'
<1>1. CASE removable
  BY <1>1 DEF Probe, Inv, TypeOK
<1>2. CASE ~removable
  <2>1. /\ DOMAIN records' = DOMAIN records \cup {issued'}
        /\ issued' \in 1..MaxRecords
        /\ \A h \in DOMAIN records : records'[h] = records[h]
        /\ DOMAIN records' \subseteq 1..issued'
        /\ \A h \in DOMAIN records' : records'[h].port \in Ports
        /\ \A j \in Ids : advertised[j] \in 0..issued'
    BY <1>2, PublishedIs DEF Probe
  <2>2. /\ strays' = strays \cup {issued'} /\ advertised' = advertised
    BY <1>2 DEF Probe
  <2>3. issued' \in 0..MaxRecords
    BY <2>1
  <2>4. QED
    BY <2>1, <2>2, <2>3 DEF Inv, TypeOK
<1>3. QED
  BY <1>1, <1>2

LEMMA BindInv ==
  ASSUME Inv, NEW i \in Ids, NEW p \in Ports, Bind(i, p)
  PROVE  Inv'
<1> DEFINE n == SockOf(i)
<1>1. /\ i \in InUse /\ n # 0 /\ port[n] = 0 /\ Probe(p)
      /\ IF removable /\ p \notin bound
         THEN bound' = bound \cup {p} /\ port' = [port EXCEPT ![n] = p]
         ELSE UNCHANGED <<bound, port>>
      /\ asked' = asked \/ asked' = [asked EXCEPT ![i] = {0}]
      /\ UNCHANGED <<api, removable, wrapper, sock, closed, freed>>
  BY DEF Bind
<1>2. n \in Sockets
  BY <1>1, ObjectsAre
<1> HIDE DEF n
<1>3. TypeOK'
  BY <1>1, <1>2, ProbeIs DEF Inv, TypeOK
<1>4. WrappersOK' /\ KeptOnce'
  BY <1>1, ProbeIs DEF Inv, WrappersOK, KeptOnce, InUse
<1>5. Open' = Open
  BY <1>1 DEF Open
<1>6. BoundOK' /\ PortsAreUnique'
  <2>1. CASE removable /\ p \notin bound
    <3>1. /\ bound' = bound \cup {p} /\ port'[n] = p
          /\ \A m \in Open : m # n => port'[m] = port[m]
      BY <1>1, <1>2, <2>1 DEF Inv, TypeOK, Open
    <3>2. \A m \in Open : port[m] = p => p \in freed
      BY <2>1, NoneIsZero DEF Inv, BoundOK
    <3>3. QED
      BY <1>1, <1>5, <3>1, <3>2 DEF Inv, BoundOK, PortsAreUnique
  <2>2. CASE ~(removable /\ p \notin bound)
    BY <1>1, <1>5, <2>2, PortsFrame
  <2>3. QED
    BY <2>1, <2>2
<1>7. ServicesEndWithSockets'
  <2>1. \A h \in DOMAIN records' \ strays' : h \in DOMAIN records \ strays
    BY <1>1, ProbeIs
  <2>2. ASSUME NEW h \in DOMAIN records \ strays, api = "lightblue"
        PROVE  port'[sock[records[h].by]] = port[sock[records[h].by]]
    <3>1. ServiceOK(h)
      BY ServicesAre DEF Inv
    <3>2. sock[records[h].by] # n
      <4>1. records[h].port \in Ports
        BY DEF Inv, TypeOK
      <4>2. QED
        BY <1>1, <2>2, <3>1, <4>1, NoneIsZero DEF ServiceOK
    <3>3. sock[records[h].by] \in Sockets
      BY <2>2, <3>1 DEF ServiceOK, InUse, Inv, TypeOK
    <3>4. QED
      BY <1>1, <3>2, <3>3 DEF Inv, TypeOK
  <2>3. \A h \in DOMAIN records' \ strays' : records'[h] = records[h]
    BY <1>1, <2>1, ProbeIs
  <2>4. QED
    BY <1>1, <1>4, <2>1, <2>2, <2>3, ProbeIs, ServicesFrame
<1>8. QED
  BY <1>3, <1>4, <1>6, <1>7 DEF Inv

LEMMA BindRaisesInv ==
  ASSUME Inv, NEW i \in Ids, NEW p \in Ports \cup {0}, BindRaises(i, p)
  PROVE  Inv'
<1>1. /\ asked' = [asked EXCEPT ![i] = {p}]
      /\ UNCHANGED <<api, removable, wrapper, sock, port, closed, bound, table, freed>>
  BY DEF BindRaises
<1>2. TypeOK'
  BY <1>1 DEF Inv, TypeOK, table
<1>3. WrappersOK' /\ KeptOnce' /\ Open' = Open
  BY <1>1 DEF Inv, WrappersOK, KeptOnce, InUse, Open, table
<1>4. BoundOK' /\ PortsAreUnique'
  BY <1>1, <1>3, PortsFrame
<1>5. ServicesEndWithSockets'
  BY <1>1, <1>3, ServicesFrame DEF table
<1>6. QED
  BY <1>2, <1>3, <1>4, <1>5 DEF Inv

LEMMA AdvertiseInv ==
  ASSUME Inv, NEW i \in Ids, NEW p \in Ports, Advertise(i, p)
  PROVE  Inv'
<1>1. /\ i \in InUse /\ issued < MaxRecords
      /\ issued' = issued + 1 /\ records' = With(issued', p, i, SockOf(i))
      /\ UNCHANGED <<api, removable, objects, port, closed, bound, freed>>
  BY DEF Advertise
<1>2. PICK b \in PortFor(i) :
        LET fits == b \in {0, p} IN
        /\ Remember(i, issued', fits)
        /\ strays' = strays \cup IF fits THEN DOMAIN records \cap {advertised[i]}
                                 ELSE {issued'}
  BY DEF Advertise
<1>3. /\ DOMAIN records' = DOMAIN records \cup {issued'}
      /\ issued' \notin DOMAIN records /\ issued' \in 1..MaxRecords
      /\ \A h \in DOMAIN records : records'[h] = records[h]
      /\ records'[issued'].port = p /\ records'[issued'].by = i
      /\ records'[issued'].for = SockOf(i)
      /\ DOMAIN records' \subseteq 1..issued'
      /\ \A h \in DOMAIN records' : records'[h].port \in Ports
      /\ \A j \in Ids : advertised[j] \in 0..issued' /\ advertised[j] # issued'
  BY <1>1, PublishedIs
<1>4. issued' \in 0..MaxRecords /\ issued' \in 0..issued' /\ issued' # 0
  BY <1>3, NoneIsZero
<1>5. TypeOK'
  <2>1. advertised' \in [Ids -> 0..issued']
    BY <1>2, <1>3, <1>4 DEF Remember, Inv, TypeOK
  <2>2. strays' \subseteq DOMAIN records'
    BY <1>2, <1>3 DEF Inv, TypeOK
  <2>3. QED
    BY <1>1, <1>3, <1>4, <2>1, <2>2 DEF Inv, TypeOK, objects
<1>6. WrappersOK' /\ Open' = Open /\ InUse' = InUse
  BY <1>1 DEF Inv, WrappersOK, InUse, Open, objects
<1>7. BoundOK' /\ PortsAreUnique'
  BY <1>1, <1>6, PortsFrame
<1>8. KeptOnce'
  BY <1>2, <1>3 DEF Remember, Inv, TypeOK, KeptOnce
<1>9. ServicesEndWithSockets'
  <2> SUFFICES ASSUME NEW h \in DOMAIN records' \ strays' PROVE ServiceOK(h)'
    <3>1. WrappersOK' => (ServicesEndWithSockets <=>
            \A h \in DOMAIN records \ strays : ServiceOK(h))'
      BY ServicesAre, PTL
    <3>2. QED
      BY <1>6, <3>1
  <2>1. CASE h = issued'
    <3>1. b \in {0, p} /\ advertised'[i] = issued'
      BY <1>2, <2>1 DEF Remember, Inv, TypeOK
    <3>2. ASSUME api = "lightblue"
          PROVE  sock[i] # 0 /\ port[sock[i]] = p /\ SockOf(i) = sock[i]
      BY <1>1, <1>2, <3>1, <3>2, ObjectsAre DEF PortFor, SockOf
    <3>3. QED
      BY <1>1, <1>3, <1>6, <2>1, <3>1, <3>2 DEF ServiceOK, objects
  <2>2. CASE h # issued'
    <3>1. h \in DOMAIN records \ strays /\ records'[h] = records[h]
      BY <1>2, <1>3, <2>2
    <3>2. ServiceOK(h)
      BY <3>1, ServicesAre DEF Inv
    <3>3. advertised'[records[h].by] = h
      <4>1. CASE b \in {0, p}
        BY <1>2, <3>1, <3>2, <4>1 DEF ServiceOK, Remember, Inv, TypeOK, InUse
      <4>2. CASE b \notin {0, p}
        BY <1>2, <3>2, <4>2 DEF ServiceOK, Remember
      <4>3. QED
        BY <4>1, <4>2
    <3>4. QED
      BY <1>1, <1>6, <3>1, <3>2, <3>3 DEF ServiceOK, objects
  <2>3. QED
    BY <2>1, <2>2
<1>10. QED
  BY <1>5, <1>6, <1>7, <1>8, <1>9 DEF Inv

LEMMA AdvertiseNothingInv ==
  ASSUME Inv, NEW i \in Ids, AdvertiseNothing(i)
  PROVE  Inv'
<1>1. /\ advertised' = [advertised EXCEPT ![i] = 0]
      /\ strays' = strays \cup (DOMAIN records \cap {advertised[i]})
      /\ UNCHANGED <<api, removable, wrapper, sock, asked, port, closed, bound, records,
                     issued, freed>>
  BY DEF AdvertiseNothing, objects
<1>2. TypeOK'
  <2>1. issued \in Nat
    BY NoneIsZero DEF Inv, TypeOK
  <2>2. advertised' \in [Ids -> 0..issued]
    BY <1>1, <2>1 DEF Inv, TypeOK
  <2>3. QED
    BY <1>1, <2>2 DEF Inv, TypeOK
<1>3. WrappersOK' /\ Open' = Open
  BY <1>1 DEF Inv, WrappersOK, InUse, Open
<1>4. BoundOK' /\ PortsAreUnique'
  BY <1>1, <1>3, PortsFrame
<1>5. KeptOnce'
  BY <1>1 DEF Inv, TypeOK, KeptOnce
<1>6. ServicesEndWithSockets'
  <2>1. ASSUME NEW h \in DOMAIN records' \ strays'
        PROVE  h \in DOMAIN records \ strays /\ records[h].by # i /\ records[h].by \in Ids
    BY <1>1 DEF Inv, ServicesEndWithSockets, InUse
  <2>2. QED
    BY <1>1, <1>3, <2>1, ServicesFrame DEF Inv, TypeOK
<1>7. QED
  BY <1>2, <1>3, <1>4, <1>5, <1>6 DEF Inv

\* A record that is removed is the one kept for the address.
LEMMA RemovedIs ==
  ASSUME Inv, NEW i, Remove(i)
  PROVE  /\ DOMAIN records' \subseteq DOMAIN records
         /\ DOMAIN records \subseteq DOMAIN records' \cup {advertised[i]}
         /\ \A h \in DOMAIN records' : records'[h] = records[h]
  BY DEF Remove, Without

LEMMA StopAdvertiseInv ==
  ASSUME Inv, NEW i \in Ids, StopAdvertise(i)
  PROVE  Inv'
<1>1. /\ Remove(i) /\ strays' = strays \cap DOMAIN records'
      /\ UNCHANGED <<api, removable, wrapper, sock, asked, port, closed, bound, issued,
                     advertised, freed>>
  BY DEF StopAdvertise, objects
<1>2. /\ DOMAIN records' \subseteq DOMAIN records
      /\ \A h \in DOMAIN records' : records'[h] = records[h]
  BY <1>1, RemovedIs
<1>3. TypeOK'
  BY <1>1, <1>2 DEF Inv, TypeOK
<1>4. WrappersOK' /\ KeptOnce' /\ Open' = Open
  BY <1>1 DEF Inv, WrappersOK, KeptOnce, InUse, Open
<1>5. BoundOK' /\ PortsAreUnique'
  BY <1>1, <1>4, PortsFrame
<1>6. ServicesEndWithSockets'
  BY <1>1, <1>2, <1>4, ServicesFrame
<1>7. QED
  BY <1>3, <1>4, <1>5, <1>6 DEF Inv

LEMMA CloseInv ==
  ASSUME Inv, BoundIsRemovable, NEW i \in Ids, Close(i)
  PROVE  Inv'
<1> DEFINE w == wrapper[i]
           n == sock[w]
<1>1. /\ i \in InUse /\ n # 0 /\ Remove(w)
      /\ bound' = bound \ {port[n]} /\ closed' = closed \cup {n}
      /\ freed' = IF n \in closed THEN freed \cup {port[n]} ELSE freed
      /\ sock' = [sock EXCEPT ![w] = 0]
      /\ strays' = strays \cap DOMAIN records'
      /\ UNCHANGED <<api, removable, wrapper, asked, port, issued, advertised>>
  BY DEF Close
<1>2. w \in Ids /\ n \in Sockets /\ port[n] \in Ports \cup {0}
  BY <1>1 DEF Inv, TypeOK, InUse
<1>3. /\ DOMAIN records' \subseteq DOMAIN records
      /\ \A h \in DOMAIN records' : records'[h] = records[h]
  BY <1>1, RemovedIs
<1>4. n \notin closed => n \in Open
  BY <1>1, <1>2 DEF Open
<1>5. \A m \in Open' : m \in Open /\ m # n
  BY <1>1, <1>2 DEF Open, Inv, TypeOK
<1>6. api = "lightblue" => w = i
  BY <1>1, ObjectsAre
<1> HIDE DEF w, n
<1>7. TypeOK'
  BY <1>1, <1>2, <1>3 DEF Inv, TypeOK
<1>8. WrappersOK' /\ KeptOnce'
  BY <1>1 DEF Inv, WrappersOK, KeptOnce, InUse
<1>9. BoundOK' /\ PortsAreUnique'
  <2>1. CASE n \in closed
    BY <1>1, <1>5, <2>1 DEF Inv, BoundOK, PortsAreUnique
  <2>2. CASE n \notin closed
    <3>1. \A m \in Open' : port[m] # 0 /\ port[m] = port[n] => port[m] \in freed
      BY <1>4, <1>5, <2>2 DEF Inv, PortsAreUnique
    <3>2. QED
      BY <1>1, <1>5, <2>2, <3>1 DEF Inv, BoundOK, PortsAreUnique
  <2>3. QED
    BY <2>1, <2>2
<1>10. ServicesEndWithSockets'
  <2>1. ASSUME NEW h \in DOMAIN records' \ strays'
        PROVE  h \in DOMAIN records \ strays /\ records[h].by \in Ids
    BY <1>1, <1>3 DEF Inv, ServicesEndWithSockets, InUse
  <2>2. ASSUME NEW h \in DOMAIN records' \ strays', api = "lightblue"
        PROVE  sock'[records[h].by] = sock[records[h].by]
    <3>1. ServiceOK(h) /\ records[h].port \in Ports
      BY <2>1, ServicesAre DEF Inv, TypeOK
    <3>2. port[sock[records[h].by]] # 0 /\ sock[records[h].by] \in Sockets
      BY <2>1, <2>2, <3>1, NoneIsZero DEF ServiceOK, Inv, TypeOK
    <3>3. removable
      BY <3>2 DEF BoundIsRemovable
    <3>4. records[h].by # i
      \* What the object kept is gone.
      <4>1. h # advertised[i]
        BY <1>1, <1>6, <2>2, <3>3 DEF Remove, Without
      <4>2. QED
        BY <3>1, <4>1 DEF ServiceOK
    <3>5. QED
      BY <1>1, <1>6, <2>1, <2>2, <3>4 DEF Inv, TypeOK
  <2>3. QED
    BY <1>1, <1>3, <1>8, <2>1, <2>2, ServicesFrame
<1>11. QED
  BY <1>7, <1>8, <1>9, <1>10 DEF Inv

-----------------------------------------------------------------------------
(***************************************************************************)
(* The theorems.                                                           *)
(***************************************************************************)
\* Only bind sets a port, where its probe could be removed.
LEMMA RemovableStep ==
  ASSUME Inv, BoundIsRemovable, [Next]_vars
  PROVE  BoundIsRemovable'
<1>1. port \in [Sockets -> Ports \cup {0}] /\ 0 \notin Ports
  BY NoneIsZero DEF Inv, TypeOK
<1>2. ASSUME NEW i \in Ids, NEW w \in Ids, NEW n \in Sockets, Socket(i, w, n)
      PROVE  BoundIsRemovable'
  BY <1>1, <1>2 DEF Socket, BoundIsRemovable
<1>3. ASSUME NEW i \in Ids, NEW p \in Ports, Bind(i, p) PROVE BoundIsRemovable'
  <2>1. /\ UNCHANGED removable
        /\ IF removable /\ p \notin bound THEN port' = [port EXCEPT ![SockOf(i)] = p]
                                         ELSE UNCHANGED port
    BY <1>3 DEF Bind
  <2>2. QED
    BY <1>1, <2>1 DEF BoundIsRemovable
<1>4. ASSUME UNCHANGED <<removable, port>> PROVE BoundIsRemovable'
  BY <1>4 DEF BoundIsRemovable
<1>5. ASSUME NEW i \in Ids, NEW j \in Ids,
             Dup(i, j) \/ Collect(i) \/ StopAdvertise(i) \/ Close(i) \/ AdvertiseNothing(i)
      PROVE  UNCHANGED <<removable, port>>
  BY <1>5 DEF Dup, Collect, StopAdvertise, Close, AdvertiseNothing, objects
<1>6. ASSUME NEW i \in Ids, NEW p \in Ports \cup {0}, BindRaises(i, p) \/ Advertise(i, p)
      PROVE  UNCHANGED <<removable, port>>
  BY <1>6 DEF BindRaises, Advertise, objects
<1>7. UNCHANGED vars => UNCHANGED <<removable, port>>
  BY DEF vars
<1>8. QED
  BY <1>2, <1>3, <1>4, <1>5, <1>6, <1>7 DEF Next

LEMMA StepInv ==
  ASSUME Inv, BoundIsRemovable, [Next]_vars
  PROVE  Inv'
<1>1. CASE UNCHANGED vars
  <2>1. UNCHANGED <<api, removable, wrapper, sock, asked, port, closed, bound, records,
                    issued, advertised, strays, freed>>
    BY <1>1 DEF vars, objects, table
  <2>2. TypeOK'
    BY <2>1 DEF Inv, TypeOK
  <2>3. WrappersOK' /\ KeptOnce' /\ Open' = Open
    BY <2>1 DEF Inv, WrappersOK, KeptOnce, InUse, Open
  <2>4. BoundOK' /\ PortsAreUnique'
    BY <2>1, <2>3, PortsFrame
  <2>5. ServicesEndWithSockets'
    BY <2>1, <2>3, ServicesFrame
  <2>6. QED
    BY <2>2, <2>3, <2>4, <2>5 DEF Inv
<1>2. QED
  BY <1>1, SocketInv, DupInv, CollectInv, BindInv, BindRaisesInv, AdvertiseInv,
     AdvertiseNothingInv, StopAdvertiseInv, CloseInv DEF Next

THEOREM Invariance == Spec => []Inv
<1>1. Init => Inv /\ BoundIsRemovable
  BY InitInv DEF Init, BoundIsRemovable
<1>2. Inv /\ BoundIsRemovable /\ [Next]_vars => Inv' /\ BoundIsRemovable'
  BY StepInv, RemovableStep
<1>3. QED
  BY <1>1, <1>2, PTL DEF Spec

\* Every variable of the macOS back end has its type: handles are those of
\* records published, _boundports holds channels.
THEOREM TypeCorrect == Spec => []TypeOK
<1>1. Inv => TypeOK
  BY DEF Inv
<1>2. QED
  BY <1>1, Invariance, PTL

\* bind gives no open socket the port of another, whatever ports the probes
\* find, unless a duplicate of a closed socket was closed.
THEOREM UniquePorts == Spec => []PortsAreUnique
<1>1. Inv => PortsAreUnique
  BY DEF Inv
<1>2. QED
  BY <1>1, Invariance, PTL

\* In lightblue a record lasts no longer than the object it was advertised with
\* is open, unless that object was collected or advertised again, or the record
\* is of another channel than the one bound.  In the bluetooth package an object
\* in use keeps the handle of a record, but nothing removes it.
THEOREM ServicesEnd == Spec => []ServicesEndWithSockets
<1>1. Inv => ServicesEndWithSockets
  BY DEF Inv
<1>2. QED
  BY <1>1, Invariance, PTL

LEMMA StepStopsItsOwn ==
  ASSUME Inv, [Next]_vars, NEW h \in DOMAIN records \ (DOMAIN records' \cup strays)
  PROVE  StopAdvertise(records[h].by) \/ Close(records[h].by)
<1>1. /\ records[h].by \in InUse /\ advertised[records[h].by] = h /\ h # 0
  <2>1. h \in 1..issued
    BY DEF Inv, TypeOK
  <2>2. 0 \notin 1..issued
    OBVIOUS
  <2>3. QED
    BY <2>1, <2>2 DEF Inv, ServicesEndWithSockets
<1>2. ASSUME NEW i \in Ids, StopAdvertise(i) PROVE i = records[h].by
  <2>1. advertised[i] = h
    BY <1>2, RemovedIs DEF StopAdvertise
  <2>2. QED
    BY <1>1, <2>1 DEF Inv, KeptOnce, InUse
<1>3. ASSUME NEW i \in Ids, Close(i) PROVE i = records[h].by
  <2>1. advertised[wrapper[i]] = h /\ i \in InUse
    BY <1>3, RemovedIs DEF Close
  <2>2. wrapper[i] = records[h].by
    BY <1>1, <2>1, ObjectsAre DEF Inv, KeptOnce, InUse
  <2>3. QED
    BY <1>1, <2>1, <2>2, ObjectsAre
<1>4. ASSUME NEW i \in Ids, NEW j \in Ids,
             \/ Dup(i, j) \/ Collect(i) \/ AdvertiseNothing(i)
             \/ \E n \in Sockets : Socket(i, j, n)
      PROVE  FALSE
  BY <1>4 DEF Dup, Collect, AdvertiseNothing, Socket, table
<1>5. ASSUME NEW i \in Ids, NEW p \in Ports \cup {0},
             BindRaises(i, p) \/ (p \in Ports /\ (Bind(i, p) \/ Advertise(i, p)))
      PROVE  FALSE
  <2>1. CASE BindRaises(i, p)
    BY <2>1 DEF BindRaises, table
  <2>2. CASE p \in Ports /\ Bind(i, p)
    BY <2>2, ProbeIs DEF Bind
  <2>3. CASE p \in Ports /\ Advertise(i, p)
    BY <2>3, PublishedIs DEF Advertise
  <2>4. QED
    BY <1>5, <2>1, <2>2, <2>3
<1>6. ASSUME UNCHANGED vars PROVE FALSE
  BY <1>6 DEF vars, table
<1>7. QED
  BY <1>2, <1>3, <1>4, <1>5, <1>6 DEF Next

\* stopadvertise and close remove what was advertised with their own object and
\* no other's, though addresses are used again and duplicates closed apart.
THEOREM StopsOnlyItsOwn == Spec => StopsItsOwn
<1>1. Inv /\ [Next]_vars =>
        [\A h \in DOMAIN records \ (DOMAIN records' \cup strays) :
           LET i == records[h].by IN StopAdvertise(i) \/ Close(i)]_vars
  BY StepStopsItsOwn
<1>2. QED
  BY <1>1, Invariance, PTL DEF Spec, StopsItsOwn

-----------------------------------------------------------------------------
(***************************************************************************)
(* MacDiscovery: the lookups of devices and services, for any devices,     *)
(* services and bounds.                                                    *)
(***************************************************************************)
Statuses == {"none", "ok", "empty", "error"}

\* Each variable has its type.
LookupTypeOK ==
  /\ offered \in [Devices -> SUBSET Services]
  /\ cache \in [Devices -> SUBSET Services]
  /\ recent \subseteq Devices
  /\ inquiry \in 0..lookup
  /\ queries \subseteq Devices \X Nat
  /\ seen \subseteq Devices
  /\ notes \in Nat
  /\ op \in {"idle", "inquiry", "next", "query"}
  /\ kind \in Types \cup {"devices"}
  /\ lookup \in Nat
  /\ answer \in Statuses
  /\ named \in BOOLEAN
  /\ todo \subseteq Devices
  /\ on \in Devices \cup {"none"} /\ (op = "query" => on \in Devices)
  /\ warned \subseteq Devices
  /\ fresh \subseteq Devices
  /\ changes \in Nat

\* An inquiry of the present lookup is under way only while it is waited for (or
\* was given up); so what a wait for a query takes for an answer is that of its
\* own query, and says ok only of a device whose services were just read.
LookupOK ==
  /\ op \in {"next", "query"} => inquiry = 0 \/ inquiry # lookup
  /\ op = "inquiry" /\ answer # "none" => inquiry = 0 \/ inquiry # lookup
  /\ op \in {"idle", "next"} => answer = "none"
  /\ op = "query" /\ answer = "ok" => on \in fresh

LookupInv == LookupTypeOK /\ LookupOK

LEMMA LookupInitInv == LookupInit => LookupInv
<1> SUFFICES ASSUME LookupInit PROVE LookupInv
  OBVIOUS
<1>1. /\ op = "idle" /\ kind = "devices" /\ answer = "none" /\ on = "none"
      /\ inquiry = 0 /\ lookup = 0 /\ notes = 0 /\ changes = 0
      /\ named \in BOOLEAN
  BY DEF LookupInit, None
<1>2. /\ todo = {} /\ warned = {} /\ fresh = {} /\ recent = {} /\ queries = {} /\ seen = {}
      /\ offered \in [Devices -> SUBSET Services] /\ cache \in [Devices -> SUBSET Services]
  BY DEF LookupInit
<1>3. QED
  BY <1>1, <1>2 DEF LookupInv, LookupTypeOK, LookupOK, Statuses

\* Read and Ends leave no lookup in the event loop.
LEMMA ReadKeeps ==
  ASSUME LookupInv, op \in {"next", "query"},
         NEW d \in Devices, NEW warning \in BOOLEAN, Read(d, warning),
         UNCHANGED <<offered, changes, cache, recent, inquiry, queries, seen, fresh>>,
         notes' \in Nat
  PROVE  LookupInv'
<1>1. /\ op' = "next" /\ answer' = "none" /\ on' = "none"
      /\ todo' \subseteq Devices /\ warned' \subseteq Devices
      /\ UNCHANGED <<kind, lookup, named>>
  BY DEF Read, None, LookupInv, LookupTypeOK
<1>2. LookupTypeOK'
  BY <1>1 DEF LookupInv, LookupTypeOK, Statuses
<1>3. LookupOK'
  BY <1>1 DEF LookupInv, LookupOK
<1>4. QED
  BY <1>2, <1>3 DEF LookupInv

LEMMA EndsKeeps ==
  ASSUME LookupInv, Ends,
         UNCHANGED <<offered, changes, cache, recent, inquiry, queries, seen, fresh>>,
         notes' \in Nat
  PROVE  LookupInv'
<1>1. /\ op' = "idle" /\ answer' = "none" /\ on' = "none" /\ kind' = "devices"
      /\ named' = FALSE /\ todo' = {} /\ UNCHANGED <<lookup, warned>>
  BY DEF Ends, None
<1>2. LookupTypeOK'
  BY <1>1 DEF LookupInv, LookupTypeOK, Statuses
<1>3. LookupOK'
  BY <1>1 DEF LookupInv, LookupOK
<1>4. QED
  BY <1>2, <1>3 DEF LookupInv

LEMMA WorldKeeps ==
  ASSUME LookupInv, NEW d \in Devices,
         Changes(d) \/ Ages(d) \/ InquirySees(d)
  PROVE  LookupInv'
<1>1. CASE Changes(d)
  <2>1. offered' \in [Devices -> SUBSET Services] /\ changes' \in Nat
    BY <1>1 DEF Changes, LookupInv, LookupTypeOK
  <2>2. QED
    BY <1>1, <2>1 DEF Changes, local, LookupInv, LookupTypeOK, LookupOK
<1>2. CASE Ages(d)
  BY <1>2 DEF Ages, world, local, LookupInv, LookupTypeOK, LookupOK
<1>3. CASE InquirySees(d)
  BY <1>3 DEF InquirySees, world, local, LookupInv, LookupTypeOK, LookupOK
<1>4. QED
  BY <1>1, <1>2, <1>3

LEMMA InquiryCompletesKeeps ==
  ASSUME LookupInv, NEW status \in {"ok", "empty", "error"}, InquiryCompletes(status)
  PROVE  LookupInv'
<1>1. /\ inquiry # 0 /\ inquiry' = 0 /\ notes' \in Nat /\ answer' \in Statuses
      /\ op \in {"inquiry", "query"}
      /\ inquiry # lookup => answer' = answer
      /\ UNCHANGED <<offered, changes, cache, recent, queries, seen, op, kind, lookup, named,
                     todo, on, warned, fresh>>
  BY DEF InquiryCompletes, InLoop, InquiryStatus, world, LookupInv, LookupTypeOK, Statuses
<1>2. LookupTypeOK'
  BY <1>1 DEF LookupInv, LookupTypeOK
<1>3. LookupOK'
  BY <1>1 DEF LookupInv, LookupOK
<1>4. QED
  BY <1>2, <1>3 DEF LookupInv

LEMMA QueryCompletesKeeps ==
  ASSUME LookupInv, NEW q \in queries, NEW status \in {"ok", "error"},
         QueryCompletes(q[1], q[2], status)
  PROVE  LookupInv'
<1>1. q[1] \in Devices
  BY DEF LookupInv, LookupTypeOK
<1>2. /\ cache' \in [Devices -> SUBSET Services] /\ recent' \subseteq Devices
      /\ queries' \subseteq queries /\ notes' \in Nat
      /\ op \in {"inquiry", "query"}
      /\ UNCHANGED <<offered, changes, inquiry, seen, op, kind, lookup, named, todo, on,
                     warned>>
  BY <1>1 DEF QueryCompletes, InLoop, world, LookupInv, LookupTypeOK
<1>3. \/ UNCHANGED <<answer, fresh>>
      \/ /\ op = "query" /\ on = q[1] /\ answer' = status
         /\ fresh' = IF status = "ok" THEN fresh \cup {q[1]} ELSE fresh
  BY DEF QueryCompletes, Answered
<1>4. LookupTypeOK'
  BY <1>1, <1>2, <1>3 DEF LookupInv, LookupTypeOK, Statuses
<1>5. LookupOK'
  BY <1>2, <1>3 DEF LookupInv, LookupOK
<1>6. QED
  BY <1>4, <1>5 DEF LookupInv

LEMMA StartsKeeps ==
  ASSUME LookupInv, NEW k \in Types \cup {"devices"},
         Inquire(k) \/ \E d \in Devices : FindServices(k, d)
  PROVE  LookupInv'
<1>1. /\ op = "idle" /\ answer' = "none" /\ kind' = k
      /\ lookup' = lookup + 1 /\ lookup \in Nat /\ inquiry \in 0..lookup
      /\ warned' = {} /\ fresh' = {}
      /\ UNCHANGED <<offered, changes, cache, recent, queries, notes, on>>
  BY DEF Inquire, FindServices, Starts, world, LookupInv, LookupTypeOK, LookupOK
<1>2. \/ op' = "inquiry" /\ inquiry' = lookup' /\ seen' = {} /\ UNCHANGED <<named, todo>>
      \/ op' = "next" /\ named' = TRUE /\ todo' \subseteq Devices /\ UNCHANGED <<inquiry, seen>>
  BY DEF Inquire, FindServices
<1>3. inquiry' \in 0..lookup' /\ lookup' \in Nat /\ (op' = "next" => inquiry' # lookup')
  BY <1>1, <1>2
<1>4. LookupTypeOK'
  BY <1>1, <1>2, <1>3 DEF LookupInv, LookupTypeOK, Statuses
<1>5. LookupOK'
  BY <1>1, <1>2, <1>3 DEF LookupInv, LookupOK
<1>6. QED
  BY <1>4, <1>5 DEF LookupInv

LEMMA LookKeeps ==
  ASSUME LookupInv, NEW d \in Devices, Look(d)
  PROVE  LookupInv'
<1>1. op = "next" /\ UNCHANGED <<offered, changes, cache, recent, inquiry, seen, notes, fresh>>
  BY DEF Look, world
<1>2. CASE (Read(d, FALSE) \/ Read(d, TRUE)) /\ UNCHANGED queries
  BY <1>1, <1>2, ReadKeeps DEF LookupInv, LookupTypeOK
<1>3. CASE /\ op' = "query" /\ on' = d
           /\ queries' = queries \cup {<<d, lookup>>}
           /\ UNCHANGED <<kind, lookup, answer, named, todo, found, warned>>
  <2>1. queries' \subseteq Devices \X Nat
    BY <1>3 DEF LookupInv, LookupTypeOK
  <2>2. LookupTypeOK'
    BY <1>1, <1>3, <2>1 DEF LookupInv, LookupTypeOK
  <2>3. LookupOK'
    BY <1>1, <1>3 DEF LookupInv, LookupOK
  <2>4. QED
    BY <2>2, <2>3 DEF LookupInv
<1>4. QED
  BY <1>2, <1>3 DEF Look

LEMMA NoDeviceKeeps ==
  ASSUME LookupInv, NEW d \in Devices, NoDevice(d)
  PROVE  LookupInv'
<1>1. UNCHANGED <<offered, changes, cache, recent, inquiry, queries, seen, notes, fresh>>
  BY DEF NoDevice, world
<1>2. CASE Ends
  BY <1>1, <1>2, EndsKeeps DEF LookupInv, LookupTypeOK
<1>3. CASE /\ todo' = todo \ {d}
           /\ UNCHANGED <<op, kind, lookup, answer, named, on, found, warned>>
  BY <1>1, <1>3 DEF LookupInv, LookupTypeOK, LookupOK
<1>4. QED
  BY <1>2, <1>3 DEF NoDevice

LEMMA NotifiedKeeps ==
  ASSUME LookupInv, Notified
  PROVE  LookupInv'
<1>1. notes' \in Nat /\ op \in {"inquiry", "query"}
  BY DEF Notified, InLoop, LookupInv, LookupTypeOK
<1>2. CASE UNCHANGED <<offered, changes, cache, recent, inquiry, queries, seen, op, kind, lookup,
                       answer, named, todo, on, found, warned, fresh>>
  BY <1>1, <1>2 DEF LookupInv, LookupTypeOK, LookupOK
<1>3. CASE answer # "none" /\ op = "inquiry" /\ InquiryEnds
  <2>1. UNCHANGED <<offered, changes, cache, recent, inquiry, queries, seen, fresh>>
    BY <1>3 DEF InquiryEnds, world
  <2>2. CASE Ends
    BY <1>1, <2>1, <2>2, EndsKeeps
  <2>3. CASE /\ op' = "next" /\ todo' = seen /\ answer' = "none"
             /\ UNCHANGED <<kind, lookup, named, on, found, warned>>
    <3>1. LookupTypeOK'
      BY <1>1, <2>1, <2>3 DEF LookupInv, LookupTypeOK, Statuses
    <3>2. LookupOK'
      BY <1>3, <2>1, <2>3 DEF LookupInv, LookupOK
    <3>3. QED
      BY <3>1, <3>2 DEF LookupInv
  <2>4. QED
    BY <1>3, <2>2, <2>3 DEF InquiryEnds, None
<1>4. CASE op = "query" /\ QueryEnds
  <2>1. on \in Devices /\ (answer # "ok") \in BOOLEAN
    BY <1>4 DEF LookupInv, LookupTypeOK
  <2>2. /\ Read(on, answer # "ok")
        /\ UNCHANGED <<offered, changes, cache, recent, inquiry, queries, seen, fresh>>
    BY <1>4 DEF QueryEnds, world
  <2>3. QED
    BY <1>1, <1>4, <2>1, <2>2, ReadKeeps
<1>5. QED
  BY <1>1, <1>2, <1>3, <1>4 DEF Notified, None, world, local

LEMMA LookupStep ==
  ASSUME LookupInv, [LookupNext]_lookupVars
  PROVE  LookupInv'
<1>1. CASE NothingLeft \/ Interrupted
  <2>1. Ends /\ UNCHANGED <<offered, changes, cache, recent, inquiry, queries, seen, notes, fresh>>
    BY <1>1 DEF NothingLeft, Interrupted, world
  <2>2. QED
    BY <2>1, EndsKeeps DEF LookupInv, LookupTypeOK
<1>2. CASE QueryTimesOut
  <2>1. /\ op = "query" /\ Read(on, TRUE)
        /\ UNCHANGED <<offered, changes, cache, recent, inquiry, queries, seen, notes, fresh>>
    BY <1>2 DEF QueryTimesOut, world
  <2>2. QED
    BY <2>1, ReadKeeps DEF LookupInv, LookupTypeOK
<1>3. CASE FindDevices \/ \E k \in Types, d \in Devices : FindServices(k, d)
  <2>1. PICK k \in Types \cup {"devices"} : Inquire(k) \/ \E d \in Devices : FindServices(k, d)
    BY <1>3 DEF FindDevices
  <2>2. QED
    BY <2>1, StartsKeeps
<1>4. CASE UNCHANGED lookupVars
  BY <1>4 DEF lookupVars, world, local, LookupInv, LookupTypeOK, LookupOK
<1>5. QED
  BY <1>1, <1>2, <1>3, <1>4, WorldKeeps, InquiryCompletesKeeps, QueryCompletesKeeps,
     LookKeeps, NoDeviceKeeps, NotifiedKeeps DEF LookupNext, Completes, Proceeds

LEMMA LookupInvariant == LookupSpec => []LookupInv
  BY LookupInitInv, LookupStep, PTL DEF LookupSpec

\* Every variable of a lookup has its type: an inquiry is of a lookup that was
\* made, a wait for a query has the device it is for.
THEOREM LookupTypeCorrect == LookupSpec => []LookupTypeOK
<1>1. LookupInv => LookupTypeOK
  BY DEF LookupInv
<1>2. QED
  BY <1>1, LookupInvariant, PTL

\* What one step reads of a device was found by this lookup or a moment ago, or
\* comes with a warning.
LEMMA ReadIsCurrent ==
  ASSUME LookupInv, [LookupNext]_lookupVars, NEW d \in Devices, Reads(d)
  PROVE  d \in warned' \cup fresh \cup recent
<1>1. d \in DOMAIN found' /\ d \notin DOMAIN found
  BY DEF Reads
<1>2. \A e \in Devices, warning \in BOOLEAN :
        Read(e, warning) => e = d /\ (warning => d \in warned')
  BY <1>1 DEF Read
<1>3. CASE \E e \in Devices : Look(e)
  BY <1>1, <1>2, <1>3 DEF Look
<1>4. CASE Notified
  <2>1. QueryEnds /\ op = "query" /\ answer # "none"
    BY <1>1, <1>4 DEF Notified, InLoop, InquiryEnds, Ends, local, None
  <2>2. on \in Devices /\ (answer # "ok") \in BOOLEAN /\ Read(on, answer # "ok")
    BY <2>1 DEF QueryEnds, LookupInv, LookupTypeOK
  <2>3. QED
    BY <1>2, <2>1, <2>2 DEF LookupInv, LookupOK
<1>5. CASE QueryTimesOut
  BY <1>2, <1>5 DEF QueryTimesOut, LookupInv, LookupTypeOK
<1>6. CASE FindDevices \/ \E k \in Types, e \in Devices : FindServices(k, e)
  BY <1>1, <1>6 DEF FindDevices, FindServices, Inquire, Starts
<1>7. CASE \/ \E e \in Devices : Changes(e) \/ Ages(e) \/ InquirySees(e) \/ NoDevice(e)
           \/ Completes \/ NothingLeft \/ Interrupted \/ UNCHANGED lookupVars
  BY <1>1, <1>7 DEF Changes, Ages, InquirySees, Completes, InquiryCompletes,
     QueryCompletes, NoDevice, NothingLeft, Interrupted, Ends, lookupVars, local
<1>8. QED
  BY <1>3, <1>4, <1>5, <1>6, <1>7 DEF LookupNext, Proceeds

\* findservices and find_service report of no device what an earlier query
\* found, or one that was given up, unless they warn or it is not older than two
\* seconds (updateservices around _searchservices).
THEOREM LookupsAreCurrent == LookupSpec => FoundIsCurrent
<1>1. LookupInv /\ [LookupNext]_lookupVars =>
        [\A d \in Devices : Reads(d) => d \in warned' \cup fresh \cup recent]_lookupVars
  BY ReadIsCurrent
<1>2. QED
  BY <1>1, LookupInvariant, PTL DEF LookupSpec, FoundIsCurrent

=============================================================================

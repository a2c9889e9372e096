----------------------------- MODULE BluezCalls -----------------------------
(***************************************************************************)
(* The blocking calls of bluetooth/bluez.py, and of the examples built on  *)
(* it, that share an adapter with other programs.                          *)
(*                                                                         *)
(* Commands: a call sets the filter of its HCI socket, sends a command,    *)
(* takes one event and puts the old filter back.  Every HCI socket hears   *)
(* the events of all commands of the adapter, and only its filter tells    *)
(* them apart.  Ports: bind with port 0 tries one port after the other,    *)
(* which others take and free meanwhile.                                   *)
(***************************************************************************)
EXTENDS Naturals, Sequences, FiniteSets

CONSTANTS
  Programs,
  LastPort,    \* the ports of a protocol are 1 to LastPort
  MaxCalls,    \* bound: calls of all programs
  MaxTaken     \* bound: how often others take and free a port

Gone == "a program that has ended"

ASSUME CallsAssumption == /\ Gone \notin Programs
                          /\ LastPort \in Nat \ {0}
                          /\ {MaxCalls, MaxTaken} \subseteq Nat

VARIABLES
  value,     \* the registers of the adapter: 0, or 1 once it was written
  sent,      \* commands sent and not yet taken
  open,      \* programs with an open HCI socket
  filter,    \* of each socket: an opcode or Nothing
  heard,     \* events that passed it
  pc,        \* of each program: idle, send, recv, restore, bind, in use
  call,      \* the opcode of its call and the filter it found
  found,     \* what the call will return
  port,      \* the port bind tries next
  taken,     \* ports somebody holds
  had,       \* history: values of the register since the call began
  shared,    \* history: sockets that heard of another program during a call
  free,      \* history: ports nobody held since bind began
  calls, takes   \* counters of the bounds

adapter == <<value, sent>>
socket  == <<open, filter, heard, shared>>
local   == <<pc, call, found, had, calls>>
ports   == <<port, taken, free, takes>>
callsVars == <<adapter, socket, local, ports>>

Nothing == [op |-> "nothing", reg |-> "none"]
Ports   == 1..LastPort

\* What commands read and write: the inquiry mode, the inquiry scan activity, the
\* address of the adapter and the flush timeout of a connection.
Registers == {"mode", "scan", "bdaddr", "flush"}

Read(r)  == [op |-> "read", reg |-> r]
Write(r) == [op |-> "write", reg |-> r]
Opcodes  == {Read(r) : r \in Registers} \cup {Write(r) : r \in Registers \ {"bdaddr"}}

\* The examples use one socket for all their calls; read_local_bdaddr and the
\* calls for flush timeouts open one of their own.
OneShot(o) == o.reg \in {"bdaddr", "flush"}

CallsInit ==
  /\ value = [r \in Registers |-> 0]
  /\ sent = <<>>
  /\ open = {}
  /\ filter = [p \in Programs |-> Nothing]
  /\ heard = [p \in Programs |-> <<>>]
  /\ pc = [p \in Programs |-> "idle"]
  /\ call = [p \in Programs |-> [op |-> Nothing, old |-> Nothing]]
  /\ found = [p \in Programs |-> {}]
  /\ had = [p \in Programs |-> {}]
  /\ shared = {}
  /\ calls = 0
  /\ port = [p \in Programs |-> 0]
  /\ taken = {}
  /\ free = [p \in Programs |-> {}]
  /\ takes = 0

-----------------------------------------------------------------------------
(***************************************************************************)
(* The adapter.  A short event has a status and no more: it answers a      *)
(* write, or any command that is refused.                                  *)
(***************************************************************************)
EventFor(o, short, v) == [op |-> o, short |-> short, val |-> v]

\* Every socket whose filter the event passes hears it.
Hears(e, by) ==
  LET who == {p \in open : filter[p] = e.op}
  IN  /\ heard' = [p \in Programs |-> IF p \in who THEN Append(heard[p], e) ELSE heard[p]]
      /\ shared' = shared \cup {p \in who : p # by /\ pc[p] # "idle"}
      /\ UNCHANGED <<open, filter>>

Notes(o, v) == had' = [p \in Programs |-> IF pc[p] # "idle" /\ call[p].op = o THEN had[p] \cup {v} ELSE had[p]]

TakesFirst(o) == sent # <<>> /\ Head(sent).op = o /\ sent' = Tail(sent)

AdapterReads(r) ==
  /\ TakesFirst(Read(r)) /\ Hears(EventFor(Read(r), FALSE, value[r]), Head(sent).by)
  /\ UNCHANGED <<value, local, ports>>

AdapterWrites(r) ==
  /\ TakesFirst(Write(r)) /\ Hears(EventFor(Write(r), TRUE, 0), Head(sent).by)
  /\ value' = [value EXCEPT ![r] = 1] /\ Notes(Read(r), 1)
  /\ UNCHANGED <<pc, call, found, calls, ports>>

AdapterRefuses(o) ==
  /\ TakesFirst(o) /\ Hears(EventFor(o, TRUE, 0), Head(sent).by)
  /\ UNCHANGED <<value, local, ports>>

AdapterTakes == \/ \E r \in Registers : AdapterReads(r)
                \/ \E r \in Registers \ {"bdaddr"} : AdapterWrites(r)
                \/ \E o \in Opcodes : AdapterRefuses(o)

-----------------------------------------------------------------------------
(***************************************************************************)
(* Sockets and calls.                                                      *)
(***************************************************************************)
Opens(p)  == open' = open \cup {p}

\* What the program has sent goes on without it.
Closes(p) == /\ open' = open \ {p}
             /\ filter' = [filter EXCEPT ![p] = Nothing]
             /\ heard' = [heard EXCEPT ![p] = <<>>]
             /\ shared' = shared \ {p}
             /\ sent' = [i \in DOMAIN sent |-> IF sent[i].by = p THEN [sent[i] EXCEPT !.by = Gone] ELSE sent[i]]
             /\ UNCHANGED value

Ended(p) ==
  /\ pc' = [pc EXCEPT ![p] = "idle"]
  /\ found' = [found EXCEPT ![p] = {}]
  /\ had' = [had EXCEPT ![p] = {}]
  /\ call' = [call EXCEPT ![p] = [op |-> Nothing, old |-> Nothing]]
  /\ UNCHANGED calls

Counted == calls < MaxCalls /\ calls' = calls + 1

Open(p) ==
  /\ pc[p] = "idle" /\ p \notin open /\ calls < MaxCalls
  /\ Opens(p)
  /\ UNCHANGED <<adapter, filter, heard, shared, local, ports>>

\* Mutation of SetFilter: the filter is left as it was.
NoFilter(p, f) == filter' = filter
SetFilter(p, f) == filter' = [filter EXCEPT ![p] = f]

Begin(p, o) ==
  /\ pc[p] = "idle" /\ Counted
  /\ IF OneShot(o) THEN p \notin open /\ Opens(p) ELSE p \in open /\ UNCHANGED open
  /\ SetFilter(p, o)
  /\ call' = [call EXCEPT ![p] = [op |-> o, old |-> filter[p]]]
  /\ had' = [had EXCEPT ![p] = IF o.op = "read" THEN {value[o.reg]} ELSE {}]
  /\ pc' = [pc EXCEPT ![p] = "send"]
  /\ UNCHANGED <<adapter, heard, shared, found, ports>>

ReadInquiryMode(p)   == Begin(p, Read("mode"))
WriteInquiryMode(p)  == Begin(p, Write("mode"))
ReadScanActivity(p)  == Begin(p, Read("scan"))
WriteScanActivity(p) == Begin(p, Write("scan"))
ReadLocalBdaddr(p)   == Begin(p, Read("bdaddr"))
ReadFlushTimeout(p)  == Begin(p, Read("flush"))
WriteFlushTimeout(p) == Begin(p, Write("flush"))

\* get_acl_conn_handle raises: the device is not connected.
NoConnection(p) ==
  /\ pc[p] = "idle" /\ p \notin open /\ Counted
  /\ UNCHANGED <<adapter, socket, pc, call, found, had, ports>>

SendCmd(p) ==
  /\ pc[p] = "send" /\ pc' = [pc EXCEPT ![p] = "recv"]
  /\ sent' = Append(sent, [op |-> call[p].op, by |-> p])
  /\ UNCHANGED <<value, socket, call, found, had, calls, ports>>

First(p)    == Head(heard[p])
Receives(p) == pc[p] = "recv" /\ heard[p] # <<>>
Received(p) == heard' = [heard EXCEPT ![p] = Tail(@)]

\* struct.unpack takes an event of one length only: a write that of a short
\* event, each read that of its own answer.
Unpacks(o, e) == IF o.op = "write" THEN e.short ELSE ~e.short /\ e.op = o

\* The replies to the calls for flush timeouts come from hci_send_req as a
\* str, of which get_byte makes no number: these calls raise whatever they did.
Understood(o, e) == o.reg # "flush" /\ Unpacks(o, e)

RecvAnswer(p) ==
  /\ Receives(p) /\ Understood(call[p].op, First(p)) /\ Received(p)
  /\ found' = [found EXCEPT ![p] = IF call[p].op.op = "read" THEN {First(p).val} ELSE {}]
  /\ pc' = [pc EXCEPT ![p] = "restore"]
  /\ UNCHANGED <<adapter, open, filter, shared, call, had, calls, ports>>

\* An exception leaves the filter as it is, and ends the program.
RecvRaises(p) ==
  /\ Receives(p) /\ ~Understood(call[p].op, First(p))
  /\ Closes(p) /\ Ended(p)
  /\ UNCHANGED ports

\* Mutation of PutBack: the old filter is not put back.
PutNotBack(p) == filter' = filter
PutBack(p)    == filter' = [filter EXCEPT ![p] = call[p].old]

Restore(p) ==
  /\ pc[p] = "restore" /\ Ended(p)
  /\ IF OneShot(call[p].op) THEN Closes(p)
                            ELSE PutBack(p) /\ UNCHANGED <<adapter, open, heard, shared>>
  /\ UNCHANGED ports

-----------------------------------------------------------------------------
(***************************************************************************)
(* bind with port 0.                                                       *)
(***************************************************************************)
\* Mutation of AvailablePorts: range leaves out its end.
AllButLast     == 1..(LastPort - 1)
AvailablePorts == 1..LastPort

Taken(n) ==
  /\ taken' = taken \cup {n}
  /\ free' = [p \in Programs |-> free[p] \ {n}]

Bind(p) ==
  /\ pc[p] = "idle" /\ Counted
  /\ port' = [port EXCEPT ![p] = 1]
  /\ free' = [free EXCEPT ![p] = Ports \ taken]
  /\ pc' = [pc EXCEPT ![p] = "bind"]
  /\ UNCHANGED <<adapter, socket, call, found, had, taken, takes>>

BindEnds(p) ==
  /\ port' = [port EXCEPT ![p] = 0]
  /\ pc' = [pc EXCEPT ![p] = "idle"]
  /\ UNCHANGED <<adapter, socket, call, found, had, calls, takes>>

Forgotten(p) == free' = [free EXCEPT ![p] = {}]

PortIsFree(p) ==
  /\ pc[p] = "bind" /\ port[p] \in AvailablePorts \ taken
  /\ taken' = taken \cup {port[p]}
  /\ free' = [q \in Programs |-> IF q = p THEN {} ELSE free[q] \ {port[p]}]
  /\ BindEnds(p)

PortInUse(p) ==
  /\ pc[p] = "bind" /\ port[p] \in AvailablePorts \cap taken
  /\ port' = [port EXCEPT ![p] = @ + 1]
  /\ UNCHANGED <<adapter, socket, local, taken, free, takes>>

NoneLeft(p) ==
  /\ pc[p] = "bind" /\ port[p] \notin AvailablePorts
  /\ pc' = [pc EXCEPT ![p] = "in use"]
  /\ UNCHANGED <<adapter, socket, call, found, had, calls, ports>>

\* EADDRINUSE is raised, or at once any other error.
BindRaises(p) ==
  /\ pc[p] \in {"bind", "in use"} /\ Forgotten(p) /\ BindEnds(p) /\ UNCHANGED taken

\* What others do with the ports matters while someone tries them.
OthersTake(n) ==
  /\ (\E p \in Programs : pc[p] = "bind") /\ takes < MaxTaken /\ takes' = takes + 1
  /\ n \notin taken /\ Taken(n)
  /\ UNCHANGED <<adapter, socket, local, port>>

OthersFree(n) ==
  /\ (\E p \in Programs : pc[p] = "bind") /\ n \in taken /\ taken' = taken \ {n}
  /\ UNCHANGED <<adapter, socket, local, port, free, takes>>

-----------------------------------------------------------------------------
Steps(p) == \/ SendCmd(p) \/ RecvAnswer(p) \/ RecvRaises(p) \/ Restore(p)
            \/ PortIsFree(p) \/ PortInUse(p) \/ NoneLeft(p) \/ BindRaises(p)

CallsNext ==
  \/ \E p \in Programs : Open(p) \/ NoConnection(p) \/ Bind(p) \/ Steps(p)
  \/ \E p \in Programs : \/ ReadInquiryMode(p) \/ WriteInquiryMode(p)
                         \/ ReadScanActivity(p) \/ WriteScanActivity(p)
                         \/ ReadLocalBdaddr(p)
                         \/ ReadFlushTimeout(p) \/ WriteFlushTimeout(p)
  \/ AdapterTakes
  \/ \E n \in Ports : OthersTake(n) \/ OthersFree(n)

\* A program goes on once it is in a call; the adapter takes the commands.
Fairness == /\ \A p \in Programs : WF_callsVars(Steps(p))
            /\ WF_callsVars(AdapterTakes)

CallsSpec == CallsInit /\ [][CallsNext]_callsVars /\ Fairness

-----------------------------------------------------------------------------
\* What a read returns, the register had since the call began, whatever the
\* socket was used for before: nothing heard between two calls is taken for an
\* answer.  Only a socket that heard the events of another program during a call
\* is excepted: they are read as its own, and one more than is read is left.
AnswerIsCurrent == \A p \in Programs :
  pc[p] = "restore" /\ p \notin shared => found[p] \subseteq had[p]

\* bind with port 0 says that the address is in use only if no port was free
\* during the whole search.
BindFindsPort == \A p \in Programs : pc[p] = "in use" => free[p] = {}

\* Each call comes to an end, by a return or an exception: no answer is missed
\* between the filter, the command and the wait.
CallsEnd == \A p \in Programs : pc[p] # "idle" ~> pc[p] = "idle"

=============================================================================

----------------------------- MODULE MacSocket -----------------------------
(***************************************************************************)
(* The sockets of the macOS back end over the main event loop.             *)
(*                                                                         *)
(* One thread calls the methods.  IOBluetooth calls back only while that   *)
(* thread is in the event loop: in looponce, or in waituntil, which checks *)
(* what it waits for only when it takes an event of interruptwait off the  *)
(* queue.  A step is a callback, such an event, or what a method does      *)
(* before it enters the loop or returns.  A call that returns or raises at *)
(* once and leaves all as it was is no step, as are all calls of a socket  *)
(* that shutdown has taken away.                                           *)
(*                                                                         *)
(* There is a server socket, and a socket for each channel: that accept    *)
(* makes for an incoming one, and that connect opens the others for.       *)
(***************************************************************************)
EXTENDS Naturals, Sequences, Functions

CONSTANTS
  Channels, Incoming,
  Server,     \* the server socket
  Mtu,        \* what one write takes
  MaxData,    \* bound: data the peers send in all
  MaxSend,    \* bound: data in one send
  Shared      \* bound: the sockets that are duplicated, once

Outgoing == Channels \ Incoming
Sockets == Channels \cup {Server}
Timeouts == {"none", "zero", "some"}  \* as settimeout or setblocking left it

ASSUME MacSocketAssumption == /\ Incoming \subseteq Channels
                              /\ Server \notin Channels
                              /\ Mtu \in Nat \ {0}
                              /\ {MaxData, MaxSend} \subseteq Nat

VARIABLES
  proto,     \* the protocol of each channel
  link,      \* the channel in the operating system
  sent,      \* how much the peer has sent
  pend,      \* events of the channel not yet called back
  listener,  \* who is called back
  sock,      \* the socket exists, and close was called
  refs,      \* wrappers not closed
  buf,       \* __incomingdata
  closed,    \* __closed
  queued,    \* __queuedchannels
  notes,     \* events of interruptwait in the queue of the application
  call,      \* the call under way
  wrote,     \* history: what the send under way has written
  past       \* history: the last datum read, or dropped before accept

channel == <<proto, link, sent, pend>>
object  == <<sock, refs, buf, closed, queued>>
vars    == <<channel, listener, object, notes, call, wrote, past>>

Idle == [op |-> "idle", for |-> "none", on |-> Server, timeout |-> "none",
         size |-> 0, left |-> 0]
Call(op, for, s, t) == [Idle EXCEPT !.op = op, !.for = for, !.on = s, !.timeout = t]

InLoop  == call.op \in {"looponce", "push", "wait", "sleep", "fired"}
Waiting == call.op \in {"wait", "sleep", "fired"}

\* _isclosed.
IsClosed(c) == IF c \in Outgoing /\ proto[c] = "rfcomm"
               THEN link[c] # "open"
               ELSE closed[c]

\* What the condition of the wait under way says.
Wanted == \/ call.op = "fired"
          \/ call.for = "accept" /\ queued # <<>>
          \/ call.for = "recv" /\ (buf[call.on] # <<>> \/ IsClosed(call.on))

Init ==
  /\ proto \in [Channels -> {"rfcomm", "l2cap"}]
  /\ \A c \in Incoming : proto[c] = "rfcomm"
  /\ link = [c \in Channels |-> "none"]
  /\ sent = [c \in Channels |-> 0]
  /\ pend = [c \in Channels |-> <<>>]
  /\ listener = [s \in Sockets |-> "none"]
  /\ sock = [s \in Sockets |-> IF s = Server THEN "open" ELSE "none"]
  /\ refs = [s \in Sockets |-> IF s = Server THEN 1 ELSE 0]
  /\ buf = [c \in Channels |-> <<>>]
  /\ closed = [c \in Channels |-> FALSE]
  /\ queued = <<>>
  /\ notes = 0
  /\ call = Idle
  /\ wrote = 0
  /\ past = [c \in Channels |-> 0]

-----------------------------------------------------------------------------
(***************************************************************************)
(* The peers.                                                              *)
(***************************************************************************)
PeerOpens(c) ==
  /\ c \in Incoming /\ link[c] = "none"
  /\ link' = [link EXCEPT ![c] = "open"]
  /\ pend' = [pend EXCEPT ![c] = Append(@, <<"opened", 0>>)]
  /\ UNCHANGED <<proto, sent, listener, object, notes, call, wrote, past>>

PeerSends(c) ==
  /\ link[c] = "open" /\ SumFunction(sent) < MaxData
  /\ sent' = [sent EXCEPT ![c] = @ + 1]
  /\ pend' = [pend EXCEPT ![c] = Append(@, <<"data", sent'[c]>>)]
  /\ UNCHANGED <<proto, link, listener, object, notes, call, wrote, past>>

PeerCloses(c) ==
  /\ link[c] = "open"
  /\ link' = [link EXCEPT ![c] = "closed"]
  /\ pend' = [pend EXCEPT ![c] = Append(@, <<"closed", 0>>)]
  /\ UNCHANGED <<proto, sent, listener, object, notes, call, wrote, past>>

-----------------------------------------------------------------------------
(***************************************************************************)
(* Callbacks, in the event loop.                                           *)
(***************************************************************************)
CallsBack(c, event) ==
  /\ InLoop /\ pend[c] # <<>> /\ Head(pend[c])[1] = event
  /\ pend' = [pend EXCEPT ![c] = Tail(@)]
  /\ UNCHANGED <<proto, link, sent, sock, refs, call, wrote>>

\* _handle_channelopened.
QueueChannel(c) == queued' = Append(queued, c) /\ notes' = notes + 1

\* The server's listener makes itself the delegate of the channel, and has
\* no method for data or for the end of the channel.
NewChannelOpened(c) ==
  /\ CallsBack(c, "opened")
  /\ IF listener[Server] = "server"
     THEN /\ listener' = [listener EXCEPT ![c] = "server"]
          /\ QueueChannel(c)
     ELSE UNCHANGED <<listener, queued, notes>>
  /\ UNCHANGED <<buf, closed, past>>

\* Mutation of HandleChannelData: without interruptwait.
SilentChannelData(c) ==
  /\ CallsBack(c, "data")
  /\ IF listener[c] = "socket"
     THEN /\ buf' = [buf EXCEPT ![c] = Append(@, Head(pend[c])[2])]
          /\ UNCHANGED past
     ELSE /\ past' = IF sock[c] = "none"
                     THEN [past EXCEPT ![c] = Head(pend[c])[2]] ELSE past
          /\ UNCHANGED buf
  /\ UNCHANGED <<listener, closed, queued, notes>>

HandleChannelData(c) ==
  /\ CallsBack(c, "data")
  /\ IF listener[c] = "socket"
     THEN /\ buf' = [buf EXCEPT ![c] = Append(@, Head(pend[c])[2])]
          /\ notes' = notes + 1
          /\ UNCHANGED past
     ELSE /\ past' = IF sock[c] = "none"
                     THEN [past EXCEPT ![c] = Head(pend[c])[2]] ELSE past
          /\ UNCHANGED <<buf, notes>>
  /\ UNCHANGED <<listener, closed, queued>>

\* Mutation of HandleChannelClosed: __closed is not set.
UnmarkedChannelClosed(c) ==
  /\ CallsBack(c, "closed")
  /\ notes' = notes + 1
  /\ UNCHANGED <<listener, buf, closed, queued, past>>

\* The delegate is called, the close notification, or both.
HandleChannelClosed(c) ==
  /\ CallsBack(c, "closed")
  /\ IF listener[c] = "socket"
     THEN /\ closed' = [closed EXCEPT ![c] = TRUE]
          /\ \E times \in 1..2 : notes' = notes + times
     ELSE UNCHANGED <<closed, notes>>
  /\ UNCHANGED <<listener, buf, queued, past>>

Callback(c) == NewChannelOpened(c) \/ HandleChannelData(c) \/ HandleChannelClosed(c)

\* BBCocoaSleeper.timedOut_.
TimedOut ==
  /\ call.op = "sleep"
  /\ call' = [call EXCEPT !.op = "fired"]
  /\ notes' = notes + 1
  /\ UNCHANGED <<channel, listener, object, wrote, past>>

-----------------------------------------------------------------------------
(***************************************************************************)
(* Methods.                                                                *)
(***************************************************************************)
Calls(s) == call.op = "idle" /\ refs[s] > 0

\* __startevents: a bound socket listens to its port, another to its channel.
StartEvents(s) ==
  listener' = [listener EXCEPT ![s] = IF s = Server THEN "server" ELSE "socket"]

\* __stopevents: what listened is closed, and kept.
StopEvents(s) ==
  listener' = [listener EXCEPT ![s] = IF @ = "none" THEN "none" ELSE "closed"]

\* bind and listen.
Listen ==
  /\ Calls(Server) /\ sock[Server] = "open" /\ listener[Server] = "none"
  /\ StartEvents(Server)
  /\ UNCHANGED <<channel, object, notes, call, wrote, past>>

\* Mutation of TakeChannel: the channel keeps the server's listener as its
\* delegate.
TakeChannelOfServer ==
  LET c == Head(queued) IN
  /\ queued' = Tail(queued)
  /\ sock' = [sock EXCEPT ![c] = "open"]
  /\ refs' = [refs EXCEPT ![c] = 1]
  /\ call' = Idle
  /\ UNCHANGED <<channel, listener, buf, closed, wrote, past>>

\* The channel's socket gets a listener of its own, and the channel that
\* listener as its delegate.
TakeChannel ==
  LET c == Head(queued) IN
  /\ queued' = Tail(queued)
  /\ sock' = [sock EXCEPT ![c] = "open"]
  /\ refs' = [refs EXCEPT ![c] = 1]
  /\ StartEvents(c)
  /\ call' = Idle
  /\ UNCHANGED <<channel, buf, closed, wrote, past>>

\* recv takes some of the data, all of it if it asks for enough.
ReadData(c) ==
  /\ \E n \in {1, Len(buf[c])} :
       /\ past' = [past EXCEPT ![c] = buf[c][n]]
       /\ buf' = [buf EXCEPT ![c] = SubSeq(@, n + 1, Len(@))]
  /\ call' = Idle
  /\ UNCHANGED <<channel, listener, sock, refs, closed, queued, wrote>>

\* The remote end has closed and all data is read: ECONNRESET.
Returns ==
  /\ call' = Idle
  /\ UNCHANGED <<channel, listener, object, wrote, past>>

\* What a wait is over for.
Resume ==
  \/ call.for = "accept" /\ TakeChannel
  \/ call.for = "recv" /\ buf[call.on] # <<>> /\ ReadData(call.on)
  \/ call.for = "recv" /\ buf[call.on] = <<>> /\ Returns
  \/ call.op = "fired" /\ Returns

Enters(op, for, s, t) ==
  /\ call' = Call(op, for, s, t)
  /\ UNCHANGED <<channel, listener, object, wrote, past>>

\* __waituntil, of which the condition does not hold.
WaitUntil(for, s) ==
  \E t \in Timeouts : Enters(IF t = "zero" THEN "push" ELSE "wait", for, s, t)

Accept ==
  /\ Calls(Server) /\ listener[Server] # "none"
  /\ IF queued # <<>> THEN TakeChannel ELSE WaitUntil("accept", Server)
  /\ UNCHANGED notes

Recv(c) ==
  /\ Calls(c)
  /\ Enters("looponce", "recv", c, "none")
  /\ UNCHANGED notes

\* recv after looponce.
RecvLooks ==
  /\ call.op = "looponce"
  /\ IF buf[call.on] = <<>> /\ ~IsClosed(call.on)
     THEN WaitUntil("recv", call.on)
     ELSE Resume
  /\ UNCHANGED notes

\* The second look of a call that does not block: EAGAIN, or what it is for.
Pushed ==
  /\ call.op = "push"
  /\ IF Wanted THEN Resume ELSE Returns
  /\ UNCHANGED notes

\* waituntil takes an event of interruptwait.  Any other event it puts back and
\* goes on waiting, which leaves all as it is.  A wait that a callback begins
\* within another is not in the model: one thread makes one call at a time.
Notified ==
  /\ Waiting /\ notes > 0
  /\ notes' = notes - 1
  /\ IF Wanted THEN Resume ELSE UNCHANGED <<channel, listener, object, call, wrote, past>>

WaitTimesOut ==
  /\ call.op = "wait" /\ call.timeout = "some"
  /\ Returns
  /\ UNCHANGED notes

\* connect of the connection, with the socket's listener.
OpenChannel(c) == link' = [link EXCEPT ![c] = "open"]

\* connect, where the device and the channel can be opened.
Connect(c) ==
  /\ call.op = "idle" /\ c \in Outgoing /\ sock[c] = "none"
  /\ OpenChannel(c)
  /\ sock' = [sock EXCEPT ![c] = "open"]
  /\ refs' = [refs EXCEPT ![c] = 1]
  /\ StartEvents(c)
  /\ call' = Call("sleep", "connect", Server, "none")
  /\ UNCHANGED <<proto, sent, pend, buf, closed, queued, notes, wrote, past>>

Dup(s) ==
  /\ Calls(s) /\ s \in Shared /\ refs[s] = 1
  /\ refs' = [refs EXCEPT ![s] = @ + 1]
  /\ UNCHANGED <<channel, listener, sock, buf, closed, queued, notes, call, wrote, past>>

\* close of one of the wrappers: a server keeps what it has queued.  The event
\* loop runs a little where the socket was connected or bound.
Close(s) ==
  /\ Calls(s)
  /\ sock' = [sock EXCEPT ![s] = "closed"]
  /\ refs' = [refs EXCEPT ![s] = @ - 1]
  /\ StopEvents(s)
  /\ link' = [c \in Channels |-> IF c = s /\ link[c] = "open" THEN "closed" ELSE link[c]]
  /\ call' = IF listener[s] = "none" THEN Idle ELSE Call("sleep", "close", Server, "none")
  /\ UNCHANGED <<proto, sent, pend, buf, closed, queued, notes, wrote, past>>

Least(m, n) == IF m < n THEN m ELSE n

\* send, where the channel does not refuse it at once.
Send(c, size) ==
  /\ Calls(c)
  /\ call' = [Call("send", "send", c, "none") EXCEPT !.size = size, !.left = size]
  /\ UNCHANGED <<channel, listener, object, notes, wrote, past>>

SendChunk ==
  LET c == call.on
      n == Least(Mtu, call.left) IN
  /\ call.op = "send" /\ link[c] = "open"
  /\ IF n = call.left
     THEN /\ call' = Idle
          /\ wrote' = wrote + n - call.size
     ELSE /\ call' = [call EXCEPT !.left = @ - n]
          /\ wrote' = wrote + n
  /\ UNCHANGED <<channel, listener, object, notes, past>>

\* A write fails, or the time is over before the next one.
SendRaises ==
  /\ call.op = "send"
  /\ call' = Idle
  /\ wrote' = 0
  /\ UNCHANGED <<channel, listener, object, notes, past>>

-----------------------------------------------------------------------------
Peer == \E c \in Channels : PeerOpens(c) \/ PeerSends(c) \/ PeerCloses(c)

Continues == RecvLooks \/ Pushed \/ Notified \/ SendChunk

Program ==
  \/ Listen
  \/ Accept
  \/ \E c \in Channels :
       \/ Recv(c)
       \/ \E n \in 1..MaxSend : Send(c, n)
       \/ Connect(c)
  \/ \E s \in Sockets : Dup(s) \/ Close(s)

Next == \/ Peer \/ Program
        \/ \E c \in Channels : Callback(c)
        \/ TimedOut \/ Continues \/ WaitTimesOut \/ SendRaises

\* The event loop calls back what is pending and dequeues its events, the
\* timer of waitfor fires, and a method that is not waiting goes on.
Fairness == /\ \A c \in Channels : WF_vars(Callback(c))
            /\ WF_vars(TimedOut)
            /\ WF_vars(Continues)

Spec == Init /\ [][Next]_vars /\ Fairness

-----------------------------------------------------------------------------
(***************************************************************************)
(* Properties.                                                             *)
(***************************************************************************)
\* The end of an outgoing RFCOMM channel shows before its callback does.
EndIsPending(c) == listener[c] = "socket" /\ <<"closed", 0>> \in Range(pend[c])

\* Nothing a call waits for comes about without an event in the queue that
\* makes waituntil look, or a callback pending that will post one, whatever
\* the waits before it have consumed.
NoLostWakeup ==
  Waiting /\ Wanted => notes > 0 \/ (call.for = "recv" /\ EndIsPending(call.on))

\* The events of c still to come that bring data.
Data(c) == {i \in DOMAIN pend[c] : pend[c][i][1] = "data"}

\* What the peer has sent on an open socket, and recv has not returned, is in
\* order in the buffer and the events still to come, none lost or twice; and
\* what has been written is what sends have returned but for one that raised.
StreamsInOrder ==
  \A c \in Channels : sock[c] = "open" =>
    /\ \A i \in DOMAIN buf[c] : buf[c][i] = past[c] + i
    /\ \A i, j \in Data(c) : i < j => pend[c][i][2] < pend[c][j][2]
    /\ {pend[c][i][2] : i \in Data(c)} = (past[c] + Len(buf[c]) + 1)..sent[c]
    /\ past[c] + Len(buf[c]) <= sent[c]
    /\ wrote = call.size - call.left

\* A wait ends when what it is for has come or will: data for recv or the end
\* of a channel the socket listens to, a channel for accept of a server that
\* listens, the timer of waitfor.
Due == \/ Waiting /\ (Wanted \/ call.op = "sleep")
       \/ /\ call.op = "wait" /\ call.for = "recv"
          /\ listener[call.on] = "socket" /\ pend[call.on] # <<>>
       \/ /\ call.op = "wait" /\ call.for = "accept" /\ listener[Server] = "server"
          /\ \E c \in Incoming : pend[c] # <<>> /\ Head(pend[c])[1] = "opened"
WaitsEnd == Due ~> ~Waiting
=============================================================================

--------------------------- MODULE MacSocketProofs ---------------------------
(***************************************************************************)
(* Proofs about MacSocket, for any channels and sockets and all bounds.    *)
(***************************************************************************)
EXTENDS MacSocket, TLAPS

-----------------------------------------------------------------------------
(***************************************************************************)
(* The inductive invariant.                                                *)
(***************************************************************************)
Events   == {"opened", "data", "closed"} \X Nat
Callings == [op : {"idle", "looponce", "push", "wait", "sleep", "fired", "send"},
             for : {"none", "accept", "recv", "connect", "close", "send"},
             on : Sockets, timeout : Timeouts, size : Nat, left : Nat]

\* Each variable has its type.
TypeOK ==
  /\ proto \in [Channels -> {"rfcomm", "l2cap"}]
  /\ link \in [Channels -> {"none", "open", "closed"}]
  /\ sent \in [Channels -> Nat]
  /\ pend \in [Channels -> Seq(Events)]
  /\ listener \in [Sockets -> {"none", "server", "socket", "closed"}]
  /\ sock \in [Sockets -> {"none", "open", "closed"}]
  /\ refs \in [Sockets -> Nat]
  /\ buf \in [Channels -> Seq(Nat)]
  /\ closed \in [Channels -> BOOLEAN]
  /\ queued \in Seq(Incoming)
  /\ notes \in Nat
  /\ call \in Callings
  /\ wrote \in Nat
  /\ past \in [Channels -> Nat]

\* What a call is for and how far it is.
CallInv ==
  /\ call.op = "send" \/ (call.size = 0 /\ call.left = 0)
  /\ call.left <= call.size /\ wrote = call.size - call.left
  /\ call.op \in {"sleep", "fired"} => call.for \in {"connect", "close"}
  /\ call.op \in {"wait", "push"} => call.for \in {"accept", "recv"}
  /\ call.op = "looponce" => call.for = "recv"
  /\ call.op = "send" => call.for = "send"
  /\ call.op = "idle" => call.for = "none"
  /\ call.for = "recv" => call.on \in Channels /\ sock[call.on] # "none"

\* A channel that is open has its socket open, or an incoming one none yet; the
\* socket that is open is the one called back, and all is new before it is.
SocketOK(c) ==
  /\ sock[c] = "open" <=> listener[c] = "socket"
  /\ link[c] = "open" => sock[c] # "closed"
  /\ link[c] = "none" => sock[c] = "none" /\ sent[c] = 0 /\ pend[c] = <<>>
  /\ sock[c] = "none" => /\ buf[c] = <<>> /\ refs[c] = 0
                         /\ c \in Incoming \/ link[c] = "none"
SocketInv == \A c \in Channels : SocketOK(c)

\* The peer has opened c and that is still to be called back.
Opening(c) == \E i \in 1..Len(pend[c]) : pend[c][i][1] = "opened"
\* A channel is opened once, and queued once, before it has a socket.
OpeningOK(c) ==
  \A i \in 1..Len(pend[c]) :
    pend[c][i][1] = "opened" => i = 1 /\ c \in Incoming /\ sock[c] = "none"
QueueInv ==
  /\ \A c \in Channels : OpeningOK(c)
  /\ \A i \in 1..Len(queued) : /\ sock[queued[i]] = "none" /\ link[queued[i]] # "none"
                               /\ ~Opening(queued[i])
  /\ \A i, j \in 1..Len(queued) : queued[i] = queued[j] => i = j

\* How much was read, and is in the buffer; where the data of the events goes on.
Got(c)   == past[c] + Len(buf[c])
First(c) == IF Opening(c) THEN 2 ELSE 1
\* The events are the opening, the data in order, and the end.
StreamOK(c) ==
  /\ \A i \in 1..Len(buf[c]) : buf[c][i] = past[c] + i
  /\ \A i \in 1..Len(pend[c]) :
       \/ pend[c][i][1] = "opened"
       \/ pend[c][i] = <<"data", Got(c) + i + 1 - First(c)>>
       \/ pend[c][i] = <<"closed", 0>> /\ i = Len(pend[c]) /\ link[c] # "open"
  /\ \/ Got(c) + Len(pend[c]) + 1 = sent[c] + First(c)
        /\ \A i \in 1..Len(pend[c]) : pend[c][i][1] # "closed"
     \/ Got(c) + Len(pend[c]) = sent[c] + First(c)
        /\ Len(pend[c]) > 0 /\ pend[c][Len(pend[c])][1] = "closed"
StreamInv == \A c \in Channels : sock[c] # "closed" => StreamOK(c)

Inv == TypeOK /\ CallInv /\ SocketInv /\ QueueInv /\ StreamInv /\ NoLostWakeup

-----------------------------------------------------------------------------
(***************************************************************************)
(* Sequences, sockets and calls.                                           *)
(***************************************************************************)
LEMMA TailIs ==
  ASSUME NEW S, NEW q \in Seq(S), q # <<>>
  PROVE  /\ Tail(q) \in Seq(S) /\ Len(q) \in Nat /\ Len(q) >= 1
         /\ Len(Tail(q)) = Len(q) - 1
         /\ \A i \in 1..(Len(q) - 1) : Tail(q)[i] = q[i + 1]
         /\ Head(q) = q[1] /\ q[1] \in S
OBVIOUS

LEMMA AppendIs ==
  ASSUME NEW S, NEW q \in Seq(S), NEW e \in S
  PROVE  /\ Append(q, e) \in Seq(S) /\ Len(q) \in Nat
         /\ Len(Append(q, e)) = Len(q) + 1
         /\ \A i \in 1..Len(q) : Append(q, e)[i] = q[i]
         /\ Append(q, e)[Len(q) + 1] = e
OBVIOUS

LEMMA SubSeqIs ==
  \A q \in Seq(Nat) : \A k \in 1..Len(q) : \A r : r = SubSeq(q, k + 1, Len(q)) =>
    /\ r \in Seq(Nat) /\ Len(r) = Len(q) - k
    /\ \A i \in 1..(Len(q) - k) : r[i] = q[k + i]
    /\ q[k] \in Nat
<1> SUFFICES ASSUME NEW q \in Seq(Nat), NEW k \in 1..Len(q), NEW r, r = SubSeq(q, k + 1, Len(q))
             PROVE  /\ r \in Seq(Nat) /\ Len(r) = Len(q) - k
                    /\ \A i \in 1..(Len(q) - k) : r[i] = q[k + i]
                    /\ q[k] \in Nat
  OBVIOUS
<1> QED
  OBVIOUS

LEMMA SocketsAre ==
  /\ Incoming \subseteq Channels /\ Channels \subseteq Sockets /\ Server \in Sockets
  /\ Server \notin Channels
BY MacSocketAssumption DEF Sockets

LEMMA IdleIs ==
  /\ Idle \in Callings /\ Idle.op = "idle" /\ Idle.for = "none"
  /\ Idle.size = 0 /\ Idle.left = 0
BY SocketsAre DEF Idle, Callings, Timeouts

LEMMA CallIs ==
  ASSUME NEW op \in {"push", "wait", "looponce", "sleep", "send"},
         NEW for \in {"accept", "recv", "connect", "close", "send"},
         NEW s \in Sockets, NEW t \in Timeouts
  PROVE  /\ Call(op, for, s, t) \in Callings
         /\ Call(op, for, s, t).op = op /\ Call(op, for, s, t).for = for
         /\ Call(op, for, s, t).on = s /\ Call(op, for, s, t).timeout = t
         /\ Call(op, for, s, t).size = 0 /\ Call(op, for, s, t).left = 0
BY IdleIs DEF Call, Callings

\* A channel that a step leaves alone.
LEMMA ChannelFrame ==
  ASSUME NEW c \in Channels, SocketOK(c), OpeningOK(c), sock[c] # "closed" => StreamOK(c),
         pend'[c] = pend[c], sent'[c] = sent[c], link'[c] = link[c], sock'[c] = sock[c],
         listener'[c] = listener[c], refs'[c] = refs[c], buf'[c] = buf[c], past'[c] = past[c]
  PROVE  /\ SocketOK(c)' /\ OpeningOK(c)' /\ (sock'[c] # "closed" => StreamOK(c)')
         /\ Opening(c)' <=> Opening(c)
BY DEF SocketOK, OpeningOK, StreamOK, Opening, Got, First

\* A step that leaves all sockets and channels alone.
LEMMA QuietStep ==
  ASSUME Inv, UNCHANGED <<channel, listener, object, past>>,
         notes' \in Nat, call' \in Callings, CallInv', NoLostWakeup'
  PROVE  Inv'
<1>1. /\ UNCHANGED <<proto, link, sent, pend, listener, past>>
      /\ UNCHANGED <<sock, refs, buf, closed, queued>>
  BY DEF channel, object
<1>2. wrote' \in Nat
  <2>1. call'.left \in Nat /\ call'.size \in Nat
    BY DEF Callings
  <2>2. QED
    BY <2>1 DEF CallInv
<1>3. TypeOK'
  BY <1>1, <1>2 DEF Inv, TypeOK
<1>4. \A c \in Channels : /\ SocketOK(c)' /\ OpeningOK(c)'
                          /\ sock'[c] # "closed" => StreamOK(c)'
                          /\ Opening(c)' <=> Opening(c)
  BY <1>1, ChannelFrame DEF Inv, SocketInv, QueueInv, StreamInv
<1>5. SocketInv' /\ StreamInv'
  BY <1>4 DEF SocketInv, StreamInv
<1>6. QueueInv'
  <2>1. \A i \in 1..Len(queued) : queued[i] \in Channels
    BY SocketsAre DEF Inv, TypeOK
  <2>2. \A i \in 1..Len(queued) : ~Opening(queued[i])'
    BY <1>1, <2>1 DEF Inv, QueueInv, Opening
  <2>3. QED
    BY <1>1, <1>4, <2>1, <2>2 DEF Inv, QueueInv
<1>7. QED
  BY <1>3, <1>5, <1>6 DEF Inv

-----------------------------------------------------------------------------
(***************************************************************************)
(* Calls that leave the sockets alone.                                     *)
(***************************************************************************)
\* A call that returns.
LEMMA ReturnsInv ==
  ASSUME Inv, Returns, call.op # "send", notes' \in Nat
  PROVE  Inv'
<1>1. call' = Idle /\ UNCHANGED <<channel, listener, object, wrote, past>>
  BY DEF Returns
<1>2. CallInv'
  BY <1>1, IdleIs DEF Inv, CallInv
<1>3. NoLostWakeup'
  BY <1>1, IdleIs DEF NoLostWakeup, Waiting
<1>4. QED
  BY <1>1, <1>2, <1>3, IdleIs, QuietStep

\* A call that begins to wait, for what there is not.
LEMMA EntersInv ==
  ASSUME Inv, NEW op \in {"push", "wait", "looponce"}, NEW for \in {"accept", "recv"},
         NEW s \in Sockets, NEW t \in Timeouts, Enters(op, for, s, t),
         call.op # "send", notes' = notes,
         for = "recv" => s \in Channels /\ sock[s] # "none",
         op = "looponce" => for = "recv",
         op = "wait" => IF for = "accept" THEN queued = <<>>
                                          ELSE buf[s] = <<>> /\ ~IsClosed(s)
  PROVE  Inv'
<1> DEFINE k == Call(op, for, s, t)
<1>1. call' = k /\ UNCHANGED <<channel, listener, object, wrote, past>>
  BY DEF Enters
<1>2. /\ k \in Callings /\ k.op = op /\ k.for = for /\ k.on = s
      /\ k.size = 0 /\ k.left = 0
  BY CallIs
<1> HIDE DEF k
<1>3. CallInv'
  BY <1>1, <1>2 DEF Inv, CallInv, object
<1>4. NoLostWakeup'
  BY <1>1, <1>2 DEF NoLostWakeup, Waiting, Wanted, IsClosed, channel, object
<1>5. QED
  BY <1>1, <1>2, <1>3, <1>4, QuietStep DEF Inv, TypeOK

LEMMA WaitUntilInv ==
  ASSUME Inv, NEW for \in {"accept", "recv"}, NEW s \in Sockets, WaitUntil(for, s),
         call.op # "send", notes' = notes,
         for = "recv" => s \in Channels /\ sock[s] # "none",
         IF for = "accept" THEN queued = <<>> ELSE buf[s] = <<>> /\ ~IsClosed(s)
  PROVE  Inv'
<1>1. PICK t \in Timeouts : Enters(IF t = "zero" THEN "push" ELSE "wait", for, s, t)
  BY DEF WaitUntil
<1>2. CASE t = "zero"
  BY <1>1, <1>2, EntersInv
<1>3. CASE t # "zero"
  BY <1>1, <1>3, EntersInv
<1>4. QED
  BY <1>2, <1>3

LEMMA RecvInv ==
  ASSUME Inv, NEW c \in Channels, Recv(c)
  PROVE  Inv'
<1>1. call.op = "idle" /\ Enters("looponce", "recv", c, "none") /\ notes' = notes
  BY DEF Recv, Calls
<1>2. c \in Sockets /\ sock[c] # "none"
  BY SocketsAre DEF Recv, Calls, Inv, SocketInv, SocketOK, TypeOK
<1>3. QED
  BY <1>1, <1>2, EntersInv DEF Timeouts

LEMMA SendInv ==
  ASSUME Inv, NEW c \in Channels, NEW n \in 1..MaxSend, Send(c, n)
  PROVE  Inv'
<1> DEFINE k == Call("send", "send", c, "none")
<1>1. /\ call.op = "idle" /\ call' = [k EXCEPT !.size = n, !.left = n]
      /\ UNCHANGED <<channel, listener, object, notes, wrote, past>>
  BY DEF Send, Calls
<1>2. k \in Callings /\ k.op = "send" /\ k.for = "send"
  BY CallIs, SocketsAre DEF Timeouts
<1>3. n \in Nat
  BY MacSocketAssumption
<1> HIDE DEF k
<1>4. /\ call' \in Callings /\ call'.op = "send" /\ call'.for = "send"
      /\ call'.size = n /\ call'.left = n
  BY <1>1, <1>2, <1>3 DEF Callings
<1>5. CallInv'
  BY <1>1, <1>3, <1>4 DEF Inv, CallInv
<1>6. NoLostWakeup'
  BY <1>4 DEF NoLostWakeup, Waiting
<1>7. QED
  BY <1>1, <1>4, <1>5, <1>6, QuietStep DEF Inv, TypeOK

LEMMA SendStepInv ==
  ASSUME Inv, SendChunk \/ SendRaises
  PROVE  Inv'
<1>1. /\ call.op = "send" /\ UNCHANGED <<channel, listener, object, notes, past>>
      /\ call.size \in Nat /\ call.left \in Nat /\ call.left <= call.size
      /\ wrote = call.size - call.left /\ call.for = "send"
  BY DEF SendChunk, SendRaises, Inv, TypeOK, Callings, CallInv
<1>2. CASE call' = Idle /\ wrote' = 0
  <2>1. CallInv'
    BY <1>2, IdleIs DEF CallInv
  <2>2. NoLostWakeup'
    BY <1>2, IdleIs DEF NoLostWakeup, Waiting
  <2>3. QED
    BY <1>1, <1>2, <2>1, <2>2, IdleIs, QuietStep DEF Inv, TypeOK
<1>3. CASE SendChunk
  <2> DEFINE n == Least(Mtu, call.left)
  <2>1. n \in Nat /\ n <= call.left
    BY <1>1, MacSocketAssumption DEF Least
  <2>2. CASE n = call.left
    <3>1. call' = Idle /\ wrote' = wrote + n - call.size
      BY <1>3, <2>2 DEF SendChunk
    <3>2. wrote' = 0
      BY <1>1, <2>2, <3>1
    <3>3. QED
      BY <1>2, <3>1, <3>2
  <2>3. CASE n # call.left
    <3>1. call' = [call EXCEPT !.left = @ - n] /\ wrote' = wrote + n
      BY <1>3, <2>3 DEF SendChunk
    <3> HIDE DEF n
    <3>2. /\ call' \in Callings /\ call'.op = "send" /\ call'.for = "send"
          /\ call'.size = call.size /\ call'.left = call.left - n
      <4>1. call.left - n \in Nat /\ call \in Callings
        BY <1>1, <2>1 DEF Inv, TypeOK
      <4>2. QED
        BY <1>1, <3>1, <4>1 DEF Callings
    <3>3. CallInv'
      <4>1. call.left - n <= call.size /\ wrote + n = call.size - (call.left - n)
        BY <1>1, <2>1
      <4>2. QED
        BY <3>1, <3>2, <4>1 DEF CallInv
    <3>4. NoLostWakeup'
      BY <3>2 DEF NoLostWakeup, Waiting
    <3>5. QED
      BY <1>1, <3>2, <3>3, <3>4, QuietStep DEF Inv, TypeOK
  <2>4. QED
    BY <2>2, <2>3
<1>4. QED
  BY <1>2, <1>3 DEF SendRaises

-----------------------------------------------------------------------------
(***************************************************************************)
(* The peers and the callbacks: steps of one channel.                      *)
(***************************************************************************)
\* All that one channel's step leaves alone.
OthersAlone(c) ==
  /\ \A d \in Channels \ {c} :
       /\ pend'[d] = pend[d] /\ sent'[d] = sent[d] /\ link'[d] = link[d]
       /\ sock'[d] = sock[d] /\ listener'[d] = listener[d] /\ refs'[d] = refs[d]
       /\ buf'[d] = buf[d] /\ past'[d] = past[d]

LEMMA ChannelsInv ==
  ASSUME Inv, NEW c \in Channels, OthersAlone(c), SocketOK(c)', OpeningOK(c)',
         sock'[c] # "closed" => StreamOK(c)'
  PROVE  /\ SocketInv' /\ StreamInv' /\ \A d \in Channels : OpeningOK(d)'
         /\ \A d \in Channels \ {c} : Opening(d)' <=> Opening(d)
<1>1. \A d \in Channels \ {c} : /\ SocketOK(d)' /\ OpeningOK(d)'
                                /\ sock'[d] # "closed" => StreamOK(d)'
                                /\ Opening(d)' <=> Opening(d)
  BY ChannelFrame DEF Inv, SocketInv, QueueInv, StreamInv, OthersAlone
<1>2. QED
  BY <1>1 DEF SocketInv, StreamInv

\* The queue, after a step of c that leaves it.
LEMMA QueueFrame ==
  ASSUME Inv, NEW c \in Channels, OthersAlone(c), queued' = queued,
         \A d \in Channels : OpeningOK(d)',
         \A d \in Channels \ {c} : Opening(d)' <=> Opening(d),
         \A i \in 1..Len(queued) : queued[i] = c =>
           /\ sock'[c] = "none" /\ link'[c] # "none" /\ ~Opening(c)'
  PROVE  QueueInv'
<1>1. \A i \in 1..Len(queued) : queued[i] \in Channels
  BY SocketsAre DEF Inv, TypeOK
<1>2. ASSUME NEW i \in 1..Len(queued), NEW d, d = queued[i]
      PROVE  sock'[d] = "none" /\ link'[d] # "none" /\ ~Opening(d)'
  BY <1>1, <1>2 DEF Inv, QueueInv, OthersAlone
<1>3. \A i \in 1..Len(queued') : /\ sock'[queued'[i]] = "none" /\ link'[queued'[i]] # "none"
                                 /\ ~Opening(queued[i])'
  BY <1>2
<1>4. QED
  BY <1>3 DEF Inv, QueueInv, Opening

\* A step of a peer, whose event is the last of the channel.
Posts(c, e) ==
  /\ pend' = [pend EXCEPT ![c] = Append(@, e)]
  /\ UNCHANGED <<proto, listener, object, notes, call, wrote, past>>

LEMMA PostsIs ==
  ASSUME Inv, NEW c \in Channels, NEW e \in Events, Posts(c, e)
  PROVE  /\ pend'[c] \in Seq(Events) /\ pend' \in [Channels -> Seq(Events)]
         /\ Len(pend[c]) \in Nat /\ Len(pend'[c]) = Len(pend[c]) + 1
         /\ \A i \in 1..Len(pend[c]) : pend'[c][i] = pend[c][i]
         /\ pend'[c][Len(pend[c]) + 1] = e
         /\ \A d \in Channels \ {c} : pend'[d] = pend[d]
         /\ CallInv'
<1>1. pend[c] \in Seq(Events) /\ pend'[c] = Append(pend[c], e)
  BY DEF Inv, TypeOK, Posts
<1>2. CallInv'
  BY DEF Posts, Inv, CallInv, object
<1>3. pend'[c] \in Seq(Events)
  BY <1>1, AppendIs
<1>4. QED
  BY <1>1, <1>2, <1>3, AppendIs DEF Inv, TypeOK, Posts

\* What the wait under way is for has not come, unless the channel is gone.
LEMMA PostsWakes ==
  ASSUME Inv, NEW c \in Channels, NEW e \in Events, Posts(c, e),
         \A d \in Channels \ {c} : link'[d] = link[d],
         \/ link'[c] = link[c] \/ link'[c] = "open"
         \/ e = <<"closed", 0>> /\ link[c] = "open"
  PROVE  NoLostWakeup'
<1>1. UNCHANGED <<proto, listener, sock, buf, closed, queued, notes, call>>
  BY DEF Posts, object
<1>2. SUFFICES ASSUME Waiting', Wanted', notes' = 0
               PROVE  call.for = "recv" /\ EndIsPending(call.on)'
  BY <1>1 DEF NoLostWakeup, Inv, TypeOK
<1>3. Waiting /\ call.for = "recv" => call.on \in Channels /\ sock[call.on] # "none"
  BY DEF Inv, CallInv
<1>4. ASSUME NEW d \in Channels, EndIsPending(d)
      PROVE  EndIsPending(d)'
  <2>1. PICK i \in DOMAIN pend[d] : pend[d][i] = <<"closed", 0>>
    BY <1>4 DEF EndIsPending, Range
  <2>2. pend[d] \in Seq(Events) /\ pend'[d] \in Seq(Events)
    BY PostsIs DEF Inv, TypeOK
  <2>3. i \in DOMAIN pend'[d] /\ pend'[d][i] = <<"closed", 0>>
    <3>1. CASE d = c
      <4>1. /\ Len(pend[c]) \in Nat /\ Len(pend'[c]) = Len(pend[c]) + 1
            /\ i \in 1..Len(pend[c]) /\ DOMAIN pend'[c] = 1..Len(pend'[c])
        BY <2>1, <2>2, <3>1, PostsIs
      <4>2. i \in 1..Len(pend'[c]) /\ pend'[c][i] = pend[c][i]
        BY <4>1, PostsIs
      <4>3. QED
        BY <2>1, <3>1, <4>1, <4>2
    <3>2. CASE d # c
      BY <2>1, <3>2, PostsIs
    <3>3. QED
      BY <3>1, <3>2
  <2>4. QED
    BY <1>1, <1>4, <2>3 DEF EndIsPending, Range
<1>5. CASE Wanted
  <2>1. call.for = "recv" /\ EndIsPending(call.on)
    BY <1>1, <1>2, <1>5 DEF NoLostWakeup, Inv, Waiting
  <2>2. ASSUME NEW d \in Channels, d = call.on PROVE EndIsPending(call.on)'
    BY <1>1, <1>4, <2>1, <2>2 DEF EndIsPending
  <2>3. QED
    BY <1>2, <1>1, <1>3, <2>1, <2>2 DEF Waiting
<1>6. CASE ~Wanted
  <2>1. call.for = "recv" /\ call.op = "wait" /\ call.on \in Channels
        /\ sock[call.on] # "none"
    <3>1. call.op \in {"wait", "sleep", "fired"} /\ call' = call
      BY <1>1, <1>2 DEF Waiting
    <3>2. call.op # "fired" /\ call.op # "sleep"
      BY <1>2, <1>6, <3>1 DEF Wanted, Inv, CallInv
    <3>3. call.op = "wait" /\ call.for \in {"accept", "recv"}
      BY <3>1, <3>2 DEF Inv, CallInv
    <3>4. call.for # "accept"
      BY <1>1, <1>2, <1>6, <3>3 DEF Wanted
    <3>5. QED
      BY <1>3, <3>3, <3>4 DEF Waiting
  <2>2. call.on = c /\ link'[c] # "open" /\ link'[c] # link[c]
    BY <1>1, <1>2, <1>6, <2>1 DEF Wanted, IsClosed
  <2>3. e = <<"closed", 0>> /\ link[c] = "open"
    BY <2>2
  <2>4. listener[c] = "socket"
    BY <2>1, <2>2, <2>3, SocketsAre DEF Inv, SocketInv, SocketOK, TypeOK
  <2>5. EndIsPending(c)'
    <3>1. Len(pend[c]) + 1 \in DOMAIN pend'[c]
      BY PostsIs
    <3>2. QED
      BY <1>1, <2>3, <2>4, <3>1, PostsIs DEF EndIsPending, Range
  <2>6. QED
    BY <1>1, <2>1, <2>2, <2>5 DEF EndIsPending
<1>7. QED
  BY <1>5, <1>6

LEMMA PeerOpensInv ==
  ASSUME Inv, NEW c \in Channels, PeerOpens(c)
  PROVE  Inv'
<1> DEFINE e == <<"opened", 0>>
<1>1. /\ c \in Incoming /\ link[c] = "none" /\ link' = [link EXCEPT ![c] = "open"]
      /\ sent' = sent /\ Posts(c, e) /\ e \in Events
  BY DEF PeerOpens, Posts, Events
<1>2. /\ link'[c] = "open" /\ \A d \in Channels \ {c} : link'[d] = link[d]
      /\ link' \in [Channels -> {"none", "open", "closed"}]
      /\ UNCHANGED <<proto, listener, sock, refs, buf, closed, queued, notes, call, wrote, past>>
  BY <1>1 DEF Inv, TypeOK, Posts, object
<1>3. TypeOK'
  BY <1>1, <1>2, PostsIs DEF Inv, TypeOK
<1>4. /\ sock[c] = "none" /\ sent[c] = 0 /\ pend[c] = <<>> /\ buf[c] = <<>> /\ refs[c] = 0
      /\ listener[c] # "socket"
  BY <1>1 DEF Inv, SocketInv, SocketOK
<1>5. /\ Len(pend'[c]) = 1 /\ pend'[c][1] = e /\ e[1] = "opened" /\ e[1] # "closed"
  <2>1. Len(pend[c]) = 0
    BY <1>4
  <2>2. Len(pend'[c]) = Len(pend[c]) + 1 /\ pend'[c][Len(pend[c]) + 1] = e
    BY <1>1, PostsIs
  <2>3. QED
    BY <2>1, <2>2
<1>6. OthersAlone(c)
  BY <1>1, <1>2, PostsIs DEF OthersAlone
<1>7. SocketOK(c)' /\ OpeningOK(c)'
  BY <1>1, <1>2, <1>4, <1>5 DEF SocketOK, OpeningOK
<1>8. StreamOK(c)'
  <2>1. Len(buf[c]) = 0 /\ past[c] \in Nat
    BY <1>4 DEF Inv, TypeOK
  <2>2. past[c] = 0
    <3>1. ~Opening(c) /\ Len(pend[c]) = 0
      BY <1>4 DEF Opening
    <3>2. QED
      BY <1>4, <2>1, <3>1 DEF Inv, StreamInv, StreamOK, Got, First
  <2>3. First(c)' = 2 /\ Got(c)' = 0
    BY <1>2, <1>5, <2>1, <2>2 DEF First, Got, Opening
  <2>4. QED
    BY <1>1, <1>2, <1>4, <1>5, <2>1, <2>2, <2>3 DEF StreamOK
<1>9. QueueInv'
  <2>1. \A i \in 1..Len(queued) : queued[i] # c
    BY <1>1 DEF Inv, QueueInv
  <2>2. QED
    BY <1>2, <1>6, <1>7, <1>8, <2>1, ChannelsInv, QueueFrame
<1>10. NoLostWakeup'
  BY <1>1, <1>2, PostsWakes
<1>11. QED
  BY <1>1, <1>3, <1>6, <1>7, <1>8, <1>9, <1>10, ChannelsInv, PostsIs DEF Inv

\* An open channel has no end among its events.
LEMMA OpenChannelIs ==
  ASSUME Inv, NEW c \in Channels, link[c] = "open"
  PROVE  /\ sock[c] # "closed" /\ StreamOK(c)
         /\ Got(c) + Len(pend[c]) + 1 = sent[c] + First(c)
         /\ \A i \in 1..Len(pend[c]) : pend[c][i][1] # "closed"
         /\ Got(c) \in Nat /\ Len(pend[c]) \in Nat /\ sent[c] \in Nat /\ First(c) \in {1, 2}
<1>1. sock[c] # "closed" /\ StreamOK(c)
  BY DEF Inv, SocketInv, SocketOK, StreamInv
<1>2. Got(c) \in Nat /\ Len(pend[c]) \in Nat /\ sent[c] \in Nat /\ First(c) \in {1, 2}
  BY DEF Inv, TypeOK, Got, First
<1>3. ASSUME Len(pend[c]) > 0, pend[c][Len(pend[c])][1] = "closed"
      PROVE  FALSE
  <2>1. Len(pend[c]) \in 1..Len(pend[c])
    BY <1>2, <1>3
  <2>2. pend[c][Len(pend[c])][1] \in {"opened", "data"}
    BY <1>1, <2>1 DEF StreamOK
  <2>3. QED
    BY <1>3, <2>2
<1>4. QED
  BY <1>1, <1>2, <1>3 DEF StreamOK

\* An event that is no opening opens nothing.
LEMMA PostsOpening ==
  ASSUME Inv, NEW c \in Channels, NEW e \in Events, e[1] # "opened", Posts(c, e)
  PROVE  (Opening(c)' <=> Opening(c)) /\ OpeningOK(c)'
<1>1. \A i \in 1..Len(pend'[c]) : i \in 1..Len(pend[c]) \/ pend'[c][i] = e
  BY PostsIs
<1>2. 1..Len(pend[c]) \subseteq 1..Len(pend'[c])
  BY PostsIs
<1>3. Opening(c)' <=> Opening(c)
  BY <1>1, <1>2, PostsIs DEF Opening
<1>4. OpeningOK(c)'
  BY <1>1, PostsIs DEF OpeningOK, Inv, QueueInv, Posts, object
<1>5. QED
  BY <1>3, <1>4

LEMMA PeerSendsInv ==
  ASSUME Inv, NEW c \in Channels, PeerSends(c)
  PROVE  Inv'
<1> DEFINE e == <<"data", sent[c] + 1>>
<1>1. /\ link[c] = "open" /\ link' = link /\ sent' = [sent EXCEPT ![c] = @ + 1]
      /\ sent[c] \in Nat
  BY DEF PeerSends, Inv, TypeOK
<1>2. Posts(c, e) /\ e \in Events /\ e[1] = "data" /\ e[1] # "opened"
  BY <1>1 DEF PeerSends, Posts, Events, Inv, TypeOK
<1>3. /\ sent'[c] = sent[c] + 1 /\ \A d \in Channels \ {c} : sent'[d] = sent[d]
      /\ sent' \in [Channels -> Nat]
      /\ UNCHANGED <<proto, listener, sock, refs, buf, closed, queued, notes, call, wrote, past>>
  BY <1>1, <1>2 DEF Inv, TypeOK, Posts, object
<1> HIDE DEF e
<1>4. TypeOK'
  BY <1>1, <1>2, <1>3, PostsIs DEF Inv, TypeOK
<1>5. OthersAlone(c)
  BY <1>1, <1>2, <1>3, PostsIs DEF OthersAlone
<1>6. SocketOK(c)'
  BY <1>1, <1>3 DEF Inv, SocketInv, SocketOK
<1>7. (Opening(c)' <=> Opening(c)) /\ OpeningOK(c)'
  BY <1>2, PostsOpening
<1>8. StreamOK(c)'
  <2>1. First(c)' = First(c) /\ Got(c)' = Got(c)
    BY <1>3, <1>7 DEF First, Got
  <2>2. pend'[c][Len(pend[c]) + 1] = <<"data", Got(c) + (Len(pend[c]) + 1) + 1 - First(c)>>
    <3>1. sent[c] + 1 = Got(c) + (Len(pend[c]) + 1) + 1 - First(c)
      BY <1>1, OpenChannelIs
    <3>2. QED
      BY <1>2, <3>1, PostsIs DEF e
  <2>3. /\ Len(pend'[c]) = Len(pend[c]) + 1 /\ Len(pend[c]) \in Nat
        /\ \A i \in 1..Len(pend[c]) : pend'[c][i] = pend[c][i]
        /\ pend'[c][Len(pend[c]) + 1][1] = "data"
    BY <1>2, PostsIs
  <2>4. \A i \in 1..Len(pend'[c]) : i \in 1..Len(pend[c]) \/ i = Len(pend[c]) + 1
    BY <2>3
  <2>5. \A i \in 1..Len(pend'[c]) : pend'[c][i][1] # "closed"
    BY <1>1, <2>3, <2>4, OpenChannelIs
  <2>6. \A i \in 1..Len(pend[c]) : \/ pend[c][i][1] = "opened"
                                   \/ pend[c][i] = <<"data", Got(c) + i + 1 - First(c)>>
    BY <1>1, OpenChannelIs DEF StreamOK
  <2>7. Got(c) + Len(pend'[c]) + 1 = sent'[c] + First(c)
    BY <1>1, <1>3, <2>3, OpenChannelIs
  <2>8. \A i \in 1..Len(pend'[c]) : \/ pend'[c][i][1] = "opened"
                                    \/ pend'[c][i] = <<"data", Got(c) + i + 1 - First(c)>>
    BY <2>2, <2>3, <2>4, <2>6
  <2>9. \A i \in 1..Len(buf'[c]) : buf'[c][i] = past'[c] + i
    BY <1>1, <1>3, OpenChannelIs DEF StreamOK
  <2>10. QED
    BY <2>1, <2>5, <2>7, <2>8, <2>9 DEF StreamOK
<1>9. QueueInv'
  <2>1. \A i \in 1..Len(queued) : queued[i] = c => sock'[c] = "none" /\ ~Opening(c)'
    BY <1>3, <1>7 DEF Inv, QueueInv
  <2>2. QED
    BY <1>1, <1>3, <1>5, <1>6, <1>7, <1>8, <2>1, ChannelsInv, QueueFrame
<1>10. NoLostWakeup'
  BY <1>1, <1>2, PostsWakes
<1>11. QED
  BY <1>2, <1>4, <1>5, <1>6, <1>7, <1>8, <1>9, <1>10, ChannelsInv, PostsIs DEF Inv

LEMMA PeerClosesInv ==
  ASSUME Inv, NEW c \in Channels, PeerCloses(c)
  PROVE  Inv'
<1> DEFINE e == <<"closed", 0>>
<1>1. /\ link[c] = "open" /\ link' = [link EXCEPT ![c] = "closed"] /\ sent' = sent
      /\ Posts(c, e) /\ e \in Events /\ e[1] = "closed" /\ e[1] # "opened"
  BY DEF PeerCloses, Posts, Events
<1>2. /\ link'[c] = "closed" /\ \A d \in Channels \ {c} : link'[d] = link[d]
      /\ link' \in [Channels -> {"none", "open", "closed"}]
      /\ UNCHANGED <<proto, listener, sock, refs, buf, closed, queued, notes, call, wrote, past>>
  BY <1>1 DEF Inv, TypeOK, Posts, object
<1>3. TypeOK'
  BY <1>1, <1>2, PostsIs DEF Inv, TypeOK
<1>4. OthersAlone(c)
  BY <1>1, <1>2, PostsIs DEF OthersAlone
<1>5. SocketOK(c)'
  BY <1>1, <1>2 DEF Inv, SocketInv, SocketOK
<1>6. (Opening(c)' <=> Opening(c)) /\ OpeningOK(c)'
  BY <1>1, PostsOpening
<1>7. StreamOK(c)'
  <2>1. First(c)' = First(c) /\ Got(c)' = Got(c)
    BY <1>2, <1>6 DEF First, Got
  <2>2. /\ Len(pend'[c]) = Len(pend[c]) + 1 /\ Len(pend[c]) \in Nat
        /\ \A i \in 1..Len(pend[c]) : pend'[c][i] = pend[c][i]
        /\ pend'[c][Len(pend'[c])] = e
    BY <1>1, PostsIs
  <2>3. \A i \in 1..Len(pend'[c]) : i \in 1..Len(pend[c]) \/ i = Len(pend'[c])
    BY <2>2
  <2>4. \A i \in 1..Len(pend[c]) : \/ pend[c][i][1] = "opened"
                                   \/ pend[c][i] = <<"data", Got(c) + i + 1 - First(c)>>
    BY <1>1, OpenChannelIs DEF StreamOK
  <2>5. Got(c) + Len(pend'[c]) = sent'[c] + First(c) /\ Len(pend'[c]) > 0
    BY <1>1, <2>2, OpenChannelIs
  <2>6. \A i \in 1..Len(pend'[c]) : \/ pend'[c][i][1] = "opened"
                                    \/ pend'[c][i] = <<"data", Got(c) + i + 1 - First(c)>>
                                    \/ pend'[c][i] = e /\ i = Len(pend'[c])
    BY <2>2, <2>3, <2>4
  <2>7. \A i \in 1..Len(buf'[c]) : buf'[c][i] = past'[c] + i
    BY <1>1, <1>2, OpenChannelIs DEF StreamOK
  <2>8. QED
    BY <1>1, <1>2, <2>1, <2>2, <2>5, <2>6, <2>7 DEF StreamOK
<1>8. QueueInv'
  <2>1. \A i \in 1..Len(queued) : queued[i] = c => sock'[c] = "none" /\ ~Opening(c)'
    BY <1>2, <1>6 DEF Inv, QueueInv
  <2>2. QED
    BY <1>2, <1>4, <1>5, <1>6, <1>7, <2>1, ChannelsInv, QueueFrame
<1>9. NoLostWakeup'
  BY <1>1, <1>2, PostsWakes
<1>10. QED
  BY <1>1, <1>3, <1>4, <1>5, <1>6, <1>7, <1>8, <1>9, ChannelsInv, PostsIs DEF Inv

-----------------------------------------------------------------------------
\* The event that is called back, and those that are left.
LEMMA CallsBackIs ==
  ASSUME Inv, NEW c \in Channels, NEW event, CallsBack(c, event)
  PROVE  /\ Len(pend[c]) \in Nat /\ Len(pend[c]) >= 1 /\ 1 \in 1..Len(pend[c])
         /\ Head(pend[c]) = pend[c][1] /\ pend[c][1] \in Events /\ pend[c][1][1] = event
         /\ pend'[c] \in Seq(Events) /\ pend' \in [Channels -> Seq(Events)]
         /\ Len(pend'[c]) = Len(pend[c]) - 1
         /\ \A i \in 1..(Len(pend[c]) - 1) : pend'[c][i] = pend[c][i + 1]
         /\ \A i \in 1..Len(pend'[c]) : i + 1 \in 1..Len(pend[c])
         /\ \A d \in Channels \ {c} : pend'[d] = pend[d]
         /\ UNCHANGED <<proto, link, sent, sock, refs, call, wrote>> /\ CallInv'
         /\ ~Opening(c)' /\ OpeningOK(c)'
<1>1. /\ pend[c] \in Seq(Events) /\ pend[c] # <<>> /\ pend'[c] = Tail(pend[c])
      /\ Head(pend[c])[1] = event
      /\ UNCHANGED <<proto, link, sent, sock, refs, call, wrote>>
      /\ \A d \in Channels \ {c} : pend'[d] = pend[d]
  BY DEF CallsBack, Inv, TypeOK
<1>2. /\ pend'[c] \in Seq(Events) /\ Len(pend[c]) \in Nat /\ Len(pend[c]) >= 1
      /\ Len(pend'[c]) = Len(pend[c]) - 1
      /\ \A i \in 1..(Len(pend[c]) - 1) : pend'[c][i] = pend[c][i + 1]
      /\ Head(pend[c]) = pend[c][1] /\ pend[c][1] \in Events
  BY <1>1, TailIs
<1>3. pend' \in [Channels -> Seq(Events)]
  BY <1>1, <1>2 DEF CallsBack, Inv, TypeOK
<1>4. CallInv'
  BY <1>1 DEF Inv, CallInv
<1>5. \A i \in 1..Len(pend'[c]) : pend'[c][i][1] # "opened"
  <2>1. ASSUME NEW i \in 1..Len(pend'[c]) PROVE pend'[c][i][1] # "opened"
    <3>1. /\ i \in 1..(Len(pend[c]) - 1) /\ i + 1 \in 1..Len(pend[c]) /\ i + 1 # 1
      BY <1>2
    <3>2. pend[c][i + 1][1] # "opened"
      BY <3>1 DEF Inv, QueueInv, OpeningOK
    <3>3. QED
      BY <1>2, <3>1, <3>2
  <2>2. QED
    BY <2>1
<1>6. ~Opening(c)' /\ OpeningOK(c)'
  BY <1>5 DEF Opening, OpeningOK
<1>7. QED
  BY <1>1, <1>2, <1>3, <1>4, <1>6

\* What a callback brings to the wait, it posts an event for.
LEMMA CallbackWakes ==
  ASSUME Inv, NEW c \in Channels, NEW event, CallsBack(c, event), notes' \in Nat,
         \/ notes' > 0
         \/ /\ UNCHANGED <<buf, closed, queued, notes, listener>>
            /\ listener[c] # "socket"
  PROVE  NoLostWakeup'
<1>1. CASE notes' > 0
  BY <1>1 DEF NoLostWakeup
<1>2. CASE UNCHANGED <<buf, closed, queued, notes, listener>> /\ listener[c] # "socket"
  <2>1. SUFFICES ASSUME Waiting', Wanted', notes' = 0
                 PROVE  call.for = "recv" /\ EndIsPending(call.on)'
    BY CallsBackIs DEF NoLostWakeup
  <2>2. Waiting /\ Wanted /\ notes = 0
    BY <1>2, <2>1, CallsBackIs DEF Waiting, Wanted, IsClosed
  <2>3. call.for = "recv" /\ EndIsPending(call.on)
    BY <2>2 DEF Inv, NoLostWakeup
  <2>4. call.on # c /\ call.on \in Channels
    BY <1>2, <2>3 DEF EndIsPending, Inv, CallInv
  <2>5. pend'[call.on] = pend[call.on] /\ listener'[call.on] = listener[call.on]
        /\ call' = call
    BY <1>2, <2>4, CallsBackIs
  <2>6. QED
    BY <2>3, <2>5 DEF EndIsPending
<1>3. QED
  BY <1>1, <1>2

\* A channel that is opened has no socket.
LEMMA OpenedIs ==
  ASSUME Inv, NEW c \in Channels, CallsBack(c, "opened")
  PROVE  /\ sock[c] = "none" /\ listener[c] # "socket" /\ link[c] # "none" /\ c \in Incoming
         /\ buf[c] = <<>> /\ \A i \in 1..Len(queued) : queued[i] # c
         /\ First(c) = 2 /\ First(c)' = 1
<1>1. pend[c][1][1] = "opened" /\ 1 \in 1..Len(pend[c]) /\ ~Opening(c)'
  BY CallsBackIs
<1>2. sock[c] = "none" /\ c \in Incoming /\ Opening(c)
  BY <1>1 DEF Inv, QueueInv, OpeningOK, Opening
<1>3. \A i \in 1..Len(queued) : queued[i] # c
  BY <1>2 DEF Inv, QueueInv
<1>4. listener[c] # "socket" /\ buf[c] = <<>> /\ link[c] # "none"
  <2>1. pend[c] # <<>>
    BY DEF CallsBack
  <2>2. QED
    BY <1>2, <2>1 DEF Inv, SocketInv, SocketOK
<1>5. First(c) = 2 /\ First(c)' = 1
  BY <1>1, <1>2 DEF First
<1>6. QED
  BY <1>2, <1>3, <1>4, <1>5

\* The events that are left, after one that is no opening is called back.
LEMMA NotOpenedIs ==
  ASSUME Inv, NEW c \in Channels, NEW event \in {"data", "closed"}, CallsBack(c, event)
  PROVE  First(c) = 1 /\ First(c)' = 1
<1>1. \A i \in 1..Len(pend[c]) : pend[c][i][1] # "opened"
  BY CallsBackIs DEF Inv, QueueInv, OpeningOK
<1>2. QED
  BY <1>1, CallsBackIs DEF First, Opening

\* The stream goes on, one event further.
LEMMA StreamGoesOn ==
  ASSUME Inv, NEW c \in Channels, NEW event, CallsBack(c, event), event # "closed",
         StreamOK(c), Got(c) \in Nat, Got(c)' \in Nat,
         First(c) \in {1, 2}, First(c)' = 1, Got(c)' = Got(c) + 2 - First(c),
         \A i \in 1..Len(buf'[c]) : buf'[c][i] = past'[c] + i
  PROVE  StreamOK(c)'
<1>1. PICK n \in Nat, m \in Nat : n = Len(pend[c]) /\ m = Len(pend'[c]) /\ n = m + 1
  <2>1. Len(pend[c]) \in Nat /\ Len(pend'[c]) \in Nat /\ Len(pend[c]) = Len(pend'[c]) + 1
    BY CallsBackIs
  <2>2. QED
    BY <2>1
<1>2. sent' = sent /\ link' = link /\ sent[c] \in Nat
  BY CallsBackIs DEF Inv, TypeOK
<1>3. \A i \in 1..m : i + 1 \in 1..n /\ pend'[c][i] = pend[c][i + 1]
  BY <1>1, CallsBackIs
<1>4. ASSUME NEW i \in 1..m
      PROVE  \/ pend'[c][i][1] = "opened"
             \/ pend'[c][i] = <<"data", Got(c)' + i + 1 - 1>>
             \/ pend'[c][i] = <<"closed", 0>> /\ i = m /\ link[c] # "open"
  <2>1. Got(c)' + i + 1 - 1 = Got(c) + (i + 1) + 1 - First(c)
    OBVIOUS
  <2>2. i + 1 = n => i = m
    BY <1>1
  <2>3. QED
    BY <1>1, <1>3, <2>1, <2>2 DEF StreamOK
<1>5. \/ Got(c)' + m + 1 = sent[c] + 1 /\ \A i \in 1..m : pend'[c][i][1] # "closed"
      \/ Got(c)' + m = sent[c] + 1 /\ m > 0 /\ pend'[c][m][1] = "closed"
  <2>1. /\ (Got(c) + n + 1 = sent[c] + First(c)) => (Got(c)' + m + 1 = sent[c] + 1)
        /\ (Got(c) + n = sent[c] + First(c)) => (Got(c)' + m = sent[c] + 1)
    <3>1. n = m + 1 /\ sent[c] \in Nat
      BY <1>1, <1>2
    <3>2. CASE First(c) = 1
      <4>1. Got(c)' = Got(c) + 1
        BY <3>2
      <4>2. QED
        BY <3>1, <3>2, <4>1
    <3>3. CASE First(c) = 2
      <4>1. Got(c)' = Got(c)
        BY <3>3
      <4>2. QED
        BY <3>1, <3>3, <4>1
    <3>4. QED
      BY <3>2, <3>3
  <2>2. CASE Got(c) + n + 1 = sent[c] + First(c) /\ \A i \in 1..n : pend[c][i][1] # "closed"
    BY <1>3, <2>1, <2>2
  <2>3. CASE Got(c) + n = sent[c] + First(c) /\ pend[c][n][1] = "closed"
    <3>1. n # 1
      BY <2>3, CallsBackIs
    <3>2. m > 0 /\ m \in 1..m /\ m + 1 = n
      BY <1>1, <3>1
    <3>3. QED
      BY <1>3, <2>1, <2>3, <3>2
  <2>4. QED
    BY <1>1, <2>2, <2>3 DEF StreamOK
<1>6. QED
  BY <1>1, <1>2, <1>4, <1>5 DEF StreamOK

LEMMA NewChannelOpenedInv ==
  ASSUME Inv, NEW c \in Channels, NewChannelOpened(c)
  PROVE  Inv'
<1>1. /\ CallsBack(c, "opened") /\ UNCHANGED <<buf, closed, past>>
      /\ \/ /\ listener' = [listener EXCEPT ![c] = "server"]
            /\ queued' = Append(queued, c) /\ notes' = notes + 1
         \/ UNCHANGED <<listener, queued, notes>>
  BY DEF NewChannelOpened, QueueChannel
<1>2. /\ sock[c] = "none" /\ listener[c] # "socket" /\ link[c] # "none" /\ c \in Incoming
      /\ buf[c] = <<>> /\ \A i \in 1..Len(queued) : queued[i] # c
      /\ First(c) = 2 /\ First(c)' = 1
  BY <1>1, OpenedIs
<1>3. /\ UNCHANGED <<proto, link, sent, sock, refs, call, wrote>>
      /\ CallInv' /\ pend' \in [Channels -> Seq(Events)]
      /\ \A d \in Channels \ {c} : pend'[d] = pend[d]
      /\ ~Opening(c)' /\ OpeningOK(c)'
  BY <1>1, CallsBackIs
<1>4. /\ listener' \in [Sockets -> {"none", "server", "socket", "closed"}]
      /\ listener'[c] # "socket" /\ \A d \in Channels \ {c} : listener'[d] = listener[d]
  BY <1>1, <1>2, SocketsAre DEF Inv, TypeOK
<1>5. queued' \in Seq(Incoming) /\ notes' \in Nat
  <2>1. queued \in Seq(Incoming) /\ notes \in Nat
    BY DEF Inv, TypeOK
  <2>2. Append(queued, c) \in Seq(Incoming)
    BY <1>2, <2>1, AppendIs
  <2>3. QED
    BY <1>1, <2>1, <2>2
<1>6. TypeOK'
  BY <1>1, <1>3, <1>4, <1>5 DEF Inv, TypeOK
<1>7. OthersAlone(c)
  BY <1>1, <1>3, <1>4 DEF OthersAlone
<1>8. SocketOK(c)'
  BY <1>1, <1>2, <1>3, <1>4 DEF Inv, SocketInv, SocketOK
<1>9. StreamOK(c)'
  <2>1. StreamOK(c)
    BY <1>2 DEF Inv, StreamInv
  <2>2. Got(c)' = Got(c) /\ Got(c) \in Nat
    BY <1>1 DEF Got, Inv, TypeOK
  <2>3. \A i \in 1..Len(buf'[c]) : buf'[c][i] = past'[c] + i
    BY <1>1, <2>1 DEF StreamOK
  <2>4. Got(c)' = Got(c) + 2 - First(c)
    BY <1>2, <2>2
  <2>5. QED
    BY <1>1, <1>2, <2>1, <2>2, <2>3, <2>4, StreamGoesOn
<1>10. /\ SocketInv' /\ StreamInv' /\ \A d \in Channels : OpeningOK(d)'
       /\ \A d \in Channels \ {c} : Opening(d)' <=> Opening(d)
  BY <1>3, <1>7, <1>8, <1>9, ChannelsInv
<1>11. QueueInv'
  <2>1. CASE queued' = queued
    BY <1>2, <1>3, <1>7, <1>10, <2>1, QueueFrame
  <2>2. CASE queued' = Append(queued, c)
    <3>1. queued \in Seq(Incoming)
      BY DEF Inv, TypeOK
    <3>2. /\ Len(queued) \in Nat /\ Len(queued') = Len(queued) + 1
          /\ \A i \in 1..Len(queued) : queued'[i] = queued[i]
          /\ queued'[Len(queued) + 1] = c
      BY <1>2, <2>2, <3>1, AppendIs
    <3>3. \A i \in 1..Len(queued') : i \in 1..Len(queued) \/ i = Len(queued) + 1
      BY <3>2
    <3>4. ASSUME NEW i \in 1..Len(queued'), NEW d, d = queued'[i]
          PROVE  sock'[d] = "none" /\ link'[d] # "none" /\ ~Opening(d)'
      <4>1. CASE i \in 1..Len(queued)
        <5>1. d \in Channels \ {c} /\ d = queued[i]
          BY <1>2, <3>1, <3>2, <3>4, <4>1, SocketsAre
        <5>2. sock[d] = "none" /\ link[d] # "none" /\ ~Opening(d)
          BY <4>1, <5>1 DEF Inv, QueueInv
        <5>3. QED
          BY <1>3, <1>10, <5>1, <5>2
      <4>2. CASE i = Len(queued) + 1
        BY <1>2, <1>3, <3>2, <3>4, <4>2
      <4>3. QED
        BY <3>3, <4>1, <4>2
    <3>5. ASSUME NEW i \in 1..Len(queued'), NEW j \in 1..Len(queued'),
                 queued'[i] = queued'[j]
          PROVE  i = j
      <4>1. i \in 1..Len(queued) /\ j \in 1..Len(queued) => i = j
        BY <3>2, <3>5 DEF Inv, QueueInv
      <4>2. i = Len(queued) + 1 <=> j = Len(queued) + 1
        BY <1>2, <3>2, <3>3, <3>5
      <4>3. QED
        BY <3>3, <4>1, <4>2
    <3>6. \A i \in 1..Len(queued') : ~Opening(queued[i])'
      BY <3>4
    <3>7. QED
      BY <1>10, <3>4, <3>5, <3>6 DEF QueueInv, Opening
  <2>3. QED
    BY <1>1, <2>1, <2>2
<1>12. NoLostWakeup'
  <2>1. notes' > 0 \/ UNCHANGED <<buf, closed, queued, notes, listener>>
    BY <1>1 DEF Inv, TypeOK
  <2>2. QED
    BY <1>1, <1>2, <1>5, <2>1, CallbackWakes
<1>13. QED
  BY <1>3, <1>6, <1>10, <1>11, <1>12 DEF Inv

\* The next datum of the stream.
LEMMA NextIs ==
  ASSUME Inv, NEW c \in Channels, CallsBack(c, "data"), sock[c] # "closed"
  PROVE  /\ pend[c][1] = <<"data", Got(c) + 1>> /\ Got(c) \in Nat
         /\ Head(pend[c])[2] = past[c] + Len(buf[c]) + 1
         /\ Len(buf[c]) \in Nat /\ past[c] \in Nat
<1>1. First(c) = 1 /\ StreamOK(c)
  BY NotOpenedIs DEF Inv, StreamInv
<1>2. /\ 1 \in 1..Len(pend[c]) /\ pend[c][1][1] = "data" /\ Head(pend[c]) = pend[c][1]
  BY CallsBackIs
<1>3. Got(c) \in Nat /\ Len(buf[c]) \in Nat /\ past[c] \in Nat
  BY DEF Got, Inv, TypeOK
<1>4. pend[c][1] = <<"data", Got(c) + 1 + 1 - First(c)>>
  BY <1>1, <1>2 DEF StreamOK
<1>5. Got(c) + 1 + 1 - First(c) = Got(c) + 1
  BY <1>1, <1>3
<1>6. QED
  BY <1>2, <1>3, <1>4, <1>5 DEF Got

\* What is common to the callbacks of a channel that is there.
LEMMA CallbackInv ==
  ASSUME Inv, NEW c \in Channels, NEW event \in {"data", "closed"}, CallsBack(c, event),
         UNCHANGED <<listener, queued>>, notes' \in Nat,
         buf' \in [Channels -> Seq(Nat)], closed' \in [Channels -> BOOLEAN],
         past' \in [Channels -> Nat],
         \A d \in Channels \ {c} : buf'[d] = buf[d] /\ past'[d] = past[d],
         sock[c] = "none" => buf'[c] = <<>>,
         sock[c] # "closed" => StreamOK(c)',
         \/ notes' > 0
         \/ UNCHANGED <<buf, closed, notes>> /\ listener[c] # "socket"
  PROVE  Inv'
<1>1. /\ UNCHANGED <<proto, link, sent, sock, refs, call, wrote>>
      /\ CallInv' /\ pend' \in [Channels -> Seq(Events)]
      /\ \A d \in Channels \ {c} : pend'[d] = pend[d]
      /\ ~Opening(c)' /\ OpeningOK(c)' /\ pend[c] # <<>>
  BY CallsBackIs DEF CallsBack
<1>2. TypeOK'
  BY <1>1 DEF Inv, TypeOK
<1>3. OthersAlone(c)
  BY <1>1 DEF OthersAlone
<1>4. SocketOK(c)'
  BY <1>1 DEF Inv, SocketInv, SocketOK
<1>5. /\ SocketInv' /\ StreamInv' /\ \A d \in Channels : OpeningOK(d)'
      /\ \A d \in Channels \ {c} : Opening(d)' <=> Opening(d)
  BY <1>1, <1>3, <1>4, ChannelsInv
<1>6. QueueInv'
  <2>1. \A i \in 1..Len(queued) : queued[i] = c => /\ sock'[c] = "none" /\ link'[c] # "none"
                                                   /\ ~Opening(c)'
    BY <1>1 DEF Inv, QueueInv
  <2>2. QED
    BY <1>3, <1>5, <2>1, QueueFrame
<1>7. NoLostWakeup'
  BY CallbackWakes
<1>8. QED
  BY <1>1, <1>2, <1>5, <1>6, <1>7 DEF Inv

LEMMA HandleChannelDataInv ==
  ASSUME Inv, NEW c \in Channels, HandleChannelData(c)
  PROVE  Inv'
<1> DEFINE x == Head(pend[c])[2]
<1>1. CallsBack(c, "data") /\ UNCHANGED <<listener, closed, queued>> /\ x \in Nat
  BY CallsBackIs DEF HandleChannelData, Events
<1>2. buf[c] \in Seq(Nat) /\ notes \in Nat /\ c \in Sockets
  BY SocketsAre DEF Inv, TypeOK
<1>3. First(c) = 1 /\ First(c)' = 1
  BY <1>1, NotOpenedIs
<1>4. CASE listener[c] = "socket"
  <2>1. sock[c] = "open"
    BY <1>4 DEF Inv, SocketInv, SocketOK
  <2>2. x = past[c] + Len(buf[c]) + 1 /\ Len(buf[c]) \in Nat /\ past[c] \in Nat
        /\ Got(c) \in Nat
    BY <1>1, <2>1, NextIs
  <2> HIDE DEF x
  <2>3. /\ buf' = [buf EXCEPT ![c] = Append(@, x)] /\ notes' = notes + 1 /\ past' = past
    BY <1>4 DEF HandleChannelData, x
  <2>4. /\ buf'[c] = Append(buf[c], x) /\ \A d \in Channels \ {c} : buf'[d] = buf[d]
    BY <2>3 DEF Inv, TypeOK
  <2>5. /\ buf'[c] \in Seq(Nat) /\ Len(buf'[c]) = Len(buf[c]) + 1
        /\ \A i \in 1..Len(buf[c]) : buf'[c][i] = buf[c][i]
        /\ buf'[c][Len(buf[c]) + 1] = x
    BY <1>1, <1>2, <2>4, AppendIs
  <2>6. buf' \in [Channels -> Seq(Nat)]
    BY <2>3, <2>4, <2>5 DEF Inv, TypeOK
  <2>7. StreamOK(c)
    BY <2>1 DEF Inv, StreamInv
  <2>8. \A i \in 1..Len(buf'[c]) : buf'[c][i] = past'[c] + i
    <3>1. \A i \in 1..Len(buf'[c]) : i \in 1..Len(buf[c]) \/ i = Len(buf[c]) + 1
      BY <2>2, <2>5
    <3>2. \A i \in 1..Len(buf[c]) : buf'[c][i] = past'[c] + i
      BY <2>3, <2>5, <2>7 DEF StreamOK
    <3>3. buf'[c][Len(buf[c]) + 1] = past'[c] + (Len(buf[c]) + 1)
      BY <2>2, <2>3, <2>5
    <3>4. QED
      BY <3>1, <3>2, <3>3
  <2>9. Got(c)' = Got(c) + 1
    BY <2>2, <2>3, <2>5 DEF Got
  <2>10. Got(c)' = Got(c) + 2 - First(c) /\ Got(c)' \in Nat
    BY <1>3, <2>2, <2>9
  <2>11. StreamOK(c)'
    BY <1>1, <1>3, <2>2, <2>7, <2>8, <2>10, StreamGoesOn
  <2>12. notes' \in Nat /\ notes' > 0
    BY <1>2, <2>3
  <2>13. past' \in [Channels -> Nat] /\ closed' \in [Channels -> BOOLEAN]
    BY <1>1, <2>3 DEF Inv, TypeOK
  <2>14. QED
    BY <1>1, <2>1, <2>3, <2>4, <2>6, <2>11, <2>12, <2>13, CallbackInv
<1>5. CASE listener[c] # "socket"
  <2>1. sock[c] # "open" /\ sock[c] \in {"none", "open", "closed"}
    BY <1>2, <1>5 DEF Inv, TypeOK, SocketInv, SocketOK
  <2>2. UNCHANGED <<buf, notes>>
        /\ past' = IF sock[c] = "none" THEN [past EXCEPT ![c] = x] ELSE past
    BY <1>5 DEF HandleChannelData
  <2>3. past' \in [Channels -> Nat] /\ \A d \in Channels \ {c} : past'[d] = past[d]
    BY <1>1, <2>2 DEF Inv, TypeOK
  <2>4. sock[c] # "closed" => StreamOK(c)'
    <3>1. SUFFICES ASSUME sock[c] = "none" PROVE StreamOK(c)'
      BY <2>1
    <3>2. buf[c] = <<>> /\ Len(buf[c]) = 0 /\ StreamOK(c)
      BY <3>1 DEF Inv, SocketInv, SocketOK, StreamInv
    <3>3. past'[c] = x
      BY <2>2, <3>1 DEF Inv, TypeOK
    <3>4. x = past[c] + Len(buf[c]) + 1 /\ past[c] \in Nat
      BY <1>1, <3>1, NextIs
    <3> HIDE DEF x
    <3>5. Got(c) = past[c] /\ Got(c)' = past[c] + 1
      BY <2>2, <3>2, <3>3, <3>4 DEF Got
    <3>6. Got(c) \in Nat /\ Got(c)' \in Nat /\ Got(c)' = Got(c) + 2 - First(c)
      BY <1>3, <3>4, <3>5
    <3>7. \A i \in 1..Len(buf'[c]) : buf'[c][i] = past'[c] + i
      BY <2>2, <3>2
    <3>8. QED
      BY <1>1, <1>3, <3>2, <3>6, <3>7, StreamGoesOn
  <2>5. buf' \in [Channels -> Seq(Nat)] /\ closed' \in [Channels -> BOOLEAN]
        /\ (sock[c] = "none" => buf'[c] = <<>>)
    BY <1>1, <2>2 DEF Inv, TypeOK, SocketInv, SocketOK
  <2>6. QED
    BY <1>1, <1>2, <1>5, <2>2, <2>3, <2>4, <2>5, CallbackInv
<1>6. QED
  BY <1>4, <1>5

\* The end is the last event.
LEMMA HandleChannelClosedInv ==
  ASSUME Inv, NEW c \in Channels, HandleChannelClosed(c)
  PROVE  Inv'
<1>1. /\ CallsBack(c, "closed") /\ UNCHANGED <<listener, buf, queued, past>>
      /\ \/ /\ closed' = [closed EXCEPT ![c] = TRUE]
            /\ notes' \in {notes + 1, notes + 2}
         \/ UNCHANGED <<closed, notes>> /\ listener[c] # "socket"
  BY DEF HandleChannelClosed
<1>2. notes' \in Nat /\ closed' \in [Channels -> BOOLEAN]
      /\ (notes' > 0 \/ (UNCHANGED <<buf, closed, notes>> /\ listener[c] # "socket"))
  <2>1. notes \in Nat /\ closed \in [Channels -> BOOLEAN]
    BY DEF Inv, TypeOK
  <2>2. CASE UNCHANGED <<closed, notes>> /\ listener[c] # "socket"
    BY <1>1, <2>1, <2>2
  <2>3. CASE closed' = [closed EXCEPT ![c] = TRUE] /\ notes' \in {notes + 1, notes + 2}
    BY <2>1, <2>3
  <2>4. QED
    BY <1>1, <2>2, <2>3
<1>3. /\ buf' \in [Channels -> Seq(Nat)] /\ past' \in [Channels -> Nat]
      /\ sock[c] = "none" => buf'[c] = <<>>
  BY <1>1 DEF Inv, TypeOK, SocketInv, SocketOK
<1>4. First(c) = 1 /\ First(c)' = 1
  BY <1>1, NotOpenedIs
<1>5. sock[c] # "closed" => StreamOK(c)'
  <2>1. SUFFICES ASSUME sock[c] # "closed" PROVE StreamOK(c)'
    OBVIOUS
  <2>2. StreamOK(c) /\ Got(c)' = Got(c) /\ Got(c) \in Nat /\ sent[c] \in Nat
    BY <1>1, <2>1 DEF Inv, TypeOK, StreamInv, Got
  <2>3. /\ 1 \in 1..Len(pend[c]) /\ pend[c][1][1] = "closed" /\ sent' = sent
        /\ Len(pend[c]) \in Nat /\ Len(pend'[c]) = Len(pend[c]) - 1
    BY <1>1, CallsBackIs
  <2>4. Len(pend[c]) = 1
    <3>1. \/ pend[c][1][1] = "opened"
          \/ pend[c][1] = <<"data", Got(c) + 1 + 1 - First(c)>>
          \/ 1 = Len(pend[c])
      BY <2>2, <2>3 DEF StreamOK
    <3>2. QED
      BY <2>3, <3>1
  <2>5. Len(pend'[c]) = 0
    BY <2>3, <2>4
  <2>6. Got(c) = sent[c]
    <3>1. Got(c) + Len(pend[c]) = sent[c] + First(c)
      BY <2>2, <2>3 DEF StreamOK
    <3>2. QED
      BY <1>4, <2>2, <2>4, <3>1
  <2>7. \A i \in 1..Len(buf'[c]) : buf'[c][i] = past'[c] + i
    BY <1>1, <2>2 DEF StreamOK
  <2>8. Got(c)' + 0 + 1 = sent'[c] + First(c)' /\ 1..0 = {}
    BY <1>4, <2>2, <2>3, <2>6
  <2>9. QED
    BY <2>5, <2>7, <2>8 DEF StreamOK
<1>6. QED
  BY <1>1, <1>2, <1>3, <1>5, CallbackInv

-----------------------------------------------------------------------------
(***************************************************************************)
(* Methods that change the sockets.                                        *)
(***************************************************************************)
\* A step that leaves the channels in the system and their events.
LEMMA SocketStep ==
  ASSUME Inv, NEW c \in Channels, UNCHANGED channel, UNCHANGED <<closed, wrote>>,
         listener' \in [Sockets -> {"none", "server", "socket", "closed"}],
         sock' \in [Sockets -> {"none", "open", "closed"}], refs' \in [Sockets -> Nat],
         buf' \in [Channels -> Seq(Nat)], queued' \in Seq(Incoming), notes' \in Nat,
         past' \in [Channels -> Nat], call' = Idle, call.op # "send",
         \A d \in Channels \ {c} :
           /\ listener'[d] = listener[d] /\ sock'[d] = sock[d] /\ refs'[d] = refs[d]
           /\ buf'[d] = buf[d] /\ past'[d] = past[d],
         SocketOK(c)', OpeningOK(c)', sock'[c] # "closed" => StreamOK(c)',
         QueueInv'
  PROVE  Inv'
<1>1. UNCHANGED <<proto, link, sent, pend>>
  BY DEF channel
<1>2. TypeOK'
  BY <1>1, IdleIs DEF Inv, TypeOK
<1>3. CallInv'
  BY IdleIs DEF Inv, CallInv
<1>4. SocketInv' /\ StreamInv'
  BY <1>1, ChannelsInv DEF OthersAlone
<1>5. NoLostWakeup'
  BY IdleIs DEF NoLostWakeup, Waiting
<1>6. QED
  BY <1>2, <1>3, <1>4, <1>5 DEF Inv

LEMMA TakeChannelInv ==
  ASSUME Inv, TakeChannel, queued # <<>>, notes' \in Nat, call.op # "send",
         NEW c, c = Head(queued)
  PROVE  Inv'
<1>1. /\ queued \in Seq(Incoming) /\ Len(queued) \in Nat /\ Len(queued) >= 1
      /\ Tail(queued) \in Seq(Incoming) /\ Len(Tail(queued)) = Len(queued) - 1
      /\ \A i \in 1..(Len(queued) - 1) : Tail(queued)[i] = queued[i + 1]
      /\ c = queued[1] /\ c \in Incoming
  <2>1. queued \in Seq(Incoming)
    BY DEF Inv, TypeOK
  <2>2. QED
    BY <2>1, TailIs
<1>2. /\ queued' = Tail(queued) /\ sock' = [sock EXCEPT ![c] = "open"]
      /\ refs' = [refs EXCEPT ![c] = 1]
      /\ listener' = [listener EXCEPT ![c] = IF c = Server THEN "server" ELSE "socket"]
      /\ call' = Idle /\ UNCHANGED <<channel, buf, closed, wrote, past>>
      /\ UNCHANGED <<proto, link, sent, pend>>
  BY DEF TakeChannel, StartEvents, channel
<1>3. c \in Channels /\ c \in Sockets /\ c # Server
  BY <1>1, SocketsAre
<1>4. /\ sock'[c] = "open" /\ refs'[c] = 1 /\ listener'[c] = "socket"
      /\ \A d \in Channels \ {c} :
           listener'[d] = listener[d] /\ sock'[d] = sock[d] /\ refs'[d] = refs[d]
      /\ listener' \in [Sockets -> {"none", "server", "socket", "closed"}]
      /\ sock' \in [Sockets -> {"none", "open", "closed"}] /\ refs' \in [Sockets -> Nat]
  BY <1>2, <1>3, SocketsAre DEF Inv, TypeOK
<1>5. sock[c] = "none" /\ link[c] # "none" /\ ~Opening(c)
  BY <1>1 DEF Inv, QueueInv
<1>6. SocketOK(c)'
  BY <1>2, <1>4, <1>5 DEF SocketOK
<1>7. OpeningOK(c)' /\ (Opening(c)' <=> Opening(c))
  BY <1>2, <1>5 DEF OpeningOK, Opening
<1>8. StreamOK(c)'
  <2>1. StreamOK(c)
    BY <1>3, <1>5 DEF Inv, StreamInv
  <2>2. Got(c)' = Got(c) /\ First(c)' = First(c)
    BY <1>2, <1>7 DEF Got, First
  <2>3. QED
    BY <1>2, <2>1, <2>2 DEF StreamOK
<1>9. QueueInv'
  <2>1. \A d \in Channels \ {c} : OpeningOK(d)' /\ (Opening(d)' <=> Opening(d))
    BY <1>2, <1>4 DEF Inv, QueueInv, OpeningOK, Opening
  <2>2. \A i \in 1..Len(queued') : /\ i + 1 \in 1..Len(queued) /\ i + 1 # 1
                                   /\ queued'[i] = queued[i + 1]
    BY <1>1, <1>2
  <2>3. ASSUME NEW i \in 1..Len(queued'), NEW d, d = queued'[i]
        PROVE  sock'[d] = "none" /\ link'[d] # "none" /\ ~Opening(d)'
    <3>1. i + 1 \in 1..Len(queued) /\ i + 1 # 1 /\ d = queued[i + 1] /\ 1 \in 1..Len(queued)
      BY <1>1, <2>2, <2>3
    <3>2. d # c /\ sock[d] = "none" /\ link[d] # "none" /\ ~Opening(d)
      BY <1>1, <3>1 DEF Inv, QueueInv
    <3>3. d \in Channels
      BY <1>1, <3>1, SocketsAre
    <3>4. QED
      BY <1>2, <1>4, <2>1, <3>2, <3>3
  <2>4. ASSUME NEW i \in 1..Len(queued'), NEW j \in 1..Len(queued'), queued'[i] = queued'[j]
        PROVE  i = j
    <3>1. i + 1 = j + 1
      BY <2>2, <2>4 DEF Inv, QueueInv
    <3>2. QED
      BY <3>1
  <2>5. \A i \in 1..Len(queued') : ~Opening(queued[i])'
    BY <2>3
  <2>6. \A d \in Channels : OpeningOK(d)'
    BY <1>7, <2>1
  <2>7. QED
    BY <2>3, <2>4, <2>5, <2>6 DEF QueueInv, Opening
<1>10. buf' \in [Channels -> Seq(Nat)] /\ past' \in [Channels -> Nat]
  BY <1>2 DEF Inv, TypeOK
<1>11. QED
  BY <1>1, <1>2, <1>3, <1>4, <1>6, <1>7, <1>8, <1>9, <1>10, SocketStep

LEMMA ReadDataInv ==
  ASSUME Inv, NEW c \in Channels, ReadData(c), buf[c] # <<>>, sock[c] # "none",
         notes' \in Nat, call.op # "send"
  PROVE  Inv'
<1>1. buf[c] \in Seq(Nat) /\ past[c] \in Nat /\ Len(buf[c]) \in Nat /\ Len(buf[c]) >= 1
      /\ 1 \in 1..Len(buf[c]) /\ Len(buf[c]) \in 1..Len(buf[c])
  <2>1. buf[c] \in Seq(Nat) /\ past[c] \in Nat
    BY DEF Inv, TypeOK
  <2>2. Len(buf[c]) \in Nat /\ Len(buf[c]) >= 1
    BY <2>1, TailIs
  <2>3. QED
    BY <2>1, <2>2
<1>2. PICK n \in 1..Len(buf[c]) :
        /\ past' = [past EXCEPT ![c] = buf[c][n]]
        /\ buf' = [buf EXCEPT ![c] = SubSeq(@, n + 1, Len(@))]
  BY <1>1 DEF ReadData
<1>3. /\ call' = Idle /\ UNCHANGED <<channel, listener, sock, refs, closed, queued, wrote>>
      /\ UNCHANGED <<proto, link, sent, pend>>
  BY DEF ReadData, channel
<1>4. n \in Nat /\ n <= Len(buf[c])
  BY <1>1
<1>5. /\ buf'[c] = SubSeq(buf[c], n + 1, Len(buf[c])) /\ past'[c] = buf[c][n]
      /\ \A d \in Channels \ {c} : buf'[d] = buf[d] /\ past'[d] = past[d]
  BY <1>2 DEF Inv, TypeOK
<1>6. /\ buf'[c] \in Seq(Nat) /\ Len(buf'[c]) = Len(buf[c]) - n
      /\ \A i \in 1..(Len(buf[c]) - n) : buf'[c][i] = buf[c][n + i]
      /\ buf[c][n] \in Nat
  <2>1. buf[c] \in Seq(Nat) /\ n \in 1..Len(buf[c])
    BY <1>1
  <2>2. buf'[c] = SubSeq(buf[c], n + 1, Len(buf[c]))
    BY <1>5
  <2>3. QED
    BY <2>1, <2>2, SubSeqIs
<1>7. buf' \in [Channels -> Seq(Nat)] /\ past' \in [Channels -> Nat]
  BY <1>2, <1>5, <1>6 DEF Inv, TypeOK
<1>8. SocketOK(c)'
  BY <1>3 DEF Inv, SocketInv, SocketOK
<1>9. (Opening(c)' <=> Opening(c)) /\ OpeningOK(c)'
  BY <1>3 DEF Inv, QueueInv, Opening, OpeningOK
<1>10. sock'[c] # "closed" => StreamOK(c)'
  <2>1. SUFFICES ASSUME StreamOK(c) PROVE StreamOK(c)'
    BY <1>3 DEF Inv, StreamInv
  <2>2. past'[c] = past[c] + n
    BY <1>5, <2>1 DEF StreamOK
  <2>3. Got(c)' = Got(c) /\ First(c)' = First(c)
    <3>1. (past[c] + n) + (Len(buf[c]) - n) = past[c] + Len(buf[c])
      BY <1>1, <1>4
    <3>2. QED
      BY <1>6, <1>9, <2>2, <3>1 DEF Got, First
  <2>4. ASSUME NEW i \in 1..Len(buf'[c]) PROVE buf'[c][i] = past'[c] + i
    <3>1. i \in 1..(Len(buf[c]) - n) /\ n + i \in 1..Len(buf[c])
          /\ past[c] + (n + i) = (past[c] + n) + i
      <4>1. \A l, k, j, p \in Nat : k <= l /\ j \in 1..(l - k) =>
              k + j \in 1..l /\ p + (k + j) = (p + k) + j
        OBVIOUS
      <4>2. i \in 1..(Len(buf[c]) - n)
        BY <1>6
      <4>3. Len(buf[c]) \in Nat /\ past[c] \in Nat
        BY <1>1
      <4>4. i \in Nat
        OBVIOUS
      <4>5. QED
        BY <1>4, <4>1, <4>2, <4>3, <4>4
    <3>2. buf[c][n + i] = past[c] + (n + i)
      BY <2>1, <3>1 DEF StreamOK
    <3>3. QED
      BY <1>6, <2>2, <3>1, <3>2
  <2>5. QED
    BY <1>3, <2>1, <2>3, <2>4 DEF StreamOK
<1>11. QueueInv'
  <2>1. OthersAlone(c)
    BY <1>3, <1>5 DEF OthersAlone
  <2>2. \A d \in Channels \ {c} : OpeningOK(d)' /\ (Opening(d)' <=> Opening(d))
    BY <1>3 DEF Inv, QueueInv, OpeningOK, Opening
  <2>3. \A i \in 1..Len(queued) : queued[i] # c
    BY DEF Inv, QueueInv
  <2>4. QED
    BY <1>3, <1>9, <2>1, <2>2, <2>3, QueueFrame
<1>12. QED
  BY <1>3, <1>5, <1>7, <1>8, <1>9, <1>10, <1>11, SocketStep DEF Inv, TypeOK

\* A method that enters the loop with no wait on a condition, or not at all.
LEMMA MethodStep ==
  ASSUME Inv, UNCHANGED <<proto, sent, pend, buf, closed, queued, notes, wrote, past>>,
         call.op = "idle",
         NEW why \in {"connect", "close"},
         call' \in {call, Idle, Call("sleep", why, Server, "none")},
         link' \in [Channels -> {"none", "open", "closed"}],
         listener' \in [Sockets -> {"none", "server", "socket", "closed"}],
         sock' \in [Sockets -> {"none", "open", "closed"}], refs' \in [Sockets -> Nat],
         \A c \in Channels :
           \/ /\ link'[c] = link[c] /\ listener'[c] = listener[c]
              /\ sock'[c] = sock[c] /\ refs'[c] = refs[c]
           \/ /\ SocketOK(c)' /\ OpeningOK(c)' /\ (sock'[c] # "closed" => StreamOK(c)')
              /\ \A i \in 1..Len(queued) : queued[i] # c
  PROVE  Inv'
<1>1. /\ call' \in Callings /\ call'.op \in {"idle", "sleep"} /\ call'.for \in {"none", why}
      /\ call'.size = 0 /\ call'.left = 0
      /\ call'.op = "idle" => call'.for = "none"
      /\ call'.op = "sleep" => call'.for = why
  <2> DEFINE k == Call("sleep", why, Server, "none")
  <2>1. k \in Callings /\ k.op = "sleep" /\ k.for = why /\ k.size = 0 /\ k.left = 0
    BY CallIs, SocketsAre DEF Timeouts
  <2> HIDE DEF k
  <2>2. CASE call' = k
    BY <2>1, <2>2
  <2>3. CASE call' = Idle
    BY <2>3, IdleIs
  <2>4. CASE call' = call
    BY <2>4 DEF Inv, TypeOK, CallInv
  <2>5. QED
    BY <2>2, <2>3, <2>4 DEF k
<1>2. TypeOK'
  BY <1>1 DEF Inv, TypeOK
<1>3. CallInv'
  <2>1. wrote = 0
    BY DEF Inv, CallInv
  <2>2. QED
    BY <1>1, <2>1 DEF CallInv
<1>4. NoLostWakeup'
  BY <1>1 DEF NoLostWakeup, Waiting, Wanted
<1>5. \A c \in Channels : Opening(c)' <=> Opening(c)
  BY DEF Opening
<1>6. \A c \in Channels : /\ SocketOK(c)' /\ OpeningOK(c)'
                          /\ sock'[c] # "closed" => StreamOK(c)'
  BY ChannelFrame DEF Inv, SocketInv, QueueInv, StreamInv
<1>7. SocketInv' /\ StreamInv'
  BY <1>6 DEF SocketInv, StreamInv
<1>8. QueueInv'
  <2>1. ASSUME NEW i \in 1..Len(queued), NEW d, d = queued[i]
        PROVE  sock'[d] = "none" /\ link'[d] # "none" /\ ~Opening(d)'
    <3>1. d \in Channels
      BY <2>1, SocketsAre DEF Inv, TypeOK
    <3>2. sock[d] = "none" /\ link[d] # "none" /\ ~Opening(d)
      BY <2>1 DEF Inv, QueueInv
    <3>3. QED
      BY <1>5, <2>1, <3>1, <3>2
  <2>2. \A i \in 1..Len(queued) : ~Opening(queued[i])'
    BY <2>1
  <2>3. QED
    BY <1>6, <2>1, <2>2 DEF Inv, QueueInv
<1>9. QED
  BY <1>2, <1>3, <1>4, <1>7, <1>8 DEF Inv

LEMMA ListenInv ==
  ASSUME Inv, Listen
  PROVE  Inv'
<1>1. /\ call.op = "idle" /\ call' = call
      /\ listener' = [listener EXCEPT ![Server] = "server"]
      /\ UNCHANGED <<proto, link, sent, pend, sock, refs, buf, closed, queued, notes, wrote, past>>
  BY DEF Listen, Calls, StartEvents, channel, object
<1>2. /\ listener' \in [Sockets -> {"none", "server", "socket", "closed"}]
      /\ \A c \in Channels : listener'[c] = listener[c]
  BY <1>1, SocketsAre DEF Inv, TypeOK
<1>3. QED
  BY <1>1, <1>2, MethodStep DEF Inv, TypeOK

\* A channel whose socket exists, or that was never opened, is not queued.
LEMMA NotQueued ==
  ASSUME Inv, NEW c \in Channels, sock[c] # "none" \/ link[c] = "none"
  PROVE  \A i \in 1..Len(queued) : queued[i] # c
BY DEF Inv, QueueInv

LEMMA ConnectInv ==
  ASSUME Inv, NEW c \in Channels, Connect(c)
  PROVE  Inv'
<1>1. /\ call.op = "idle" /\ c \notin Incoming /\ sock[c] = "none"
      /\ link' = [link EXCEPT ![c] = "open"] /\ sock' = [sock EXCEPT ![c] = "open"]
      /\ refs' = [refs EXCEPT ![c] = 1]
      /\ listener' = [listener EXCEPT ![c] = "socket"]
      /\ call' = Call("sleep", "connect", Server, "none")
      /\ UNCHANGED <<proto, sent, pend, buf, closed, queued, notes, wrote, past>>
  BY SocketsAre DEF Connect, OpenChannel, StartEvents, Outgoing
<1>2. /\ link' \in [Channels -> {"none", "open", "closed"}]
      /\ listener' \in [Sockets -> {"none", "server", "socket", "closed"}]
      /\ sock' \in [Sockets -> {"none", "open", "closed"}] /\ refs' \in [Sockets -> Nat]
      /\ link'[c] = "open" /\ sock'[c] = "open" /\ listener'[c] = "socket" /\ refs'[c] = 1
      /\ \A d \in Channels \ {c} : /\ link'[d] = link[d] /\ listener'[d] = listener[d]
                                   /\ sock'[d] = sock[d] /\ refs'[d] = refs[d]
  BY <1>1, SocketsAre DEF Inv, TypeOK
<1>3. link[c] = "none" /\ pend[c] = <<>> /\ Len(pend[c]) = 0
  BY <1>1 DEF Inv, SocketInv, SocketOK
<1>4. SocketOK(c)' /\ OpeningOK(c)'
  BY <1>1, <1>2, <1>3 DEF SocketOK, OpeningOK
<1>5. StreamOK(c)'
  <2>1. StreamOK(c)
    BY <1>1 DEF Inv, StreamInv
  <2>2. Got(c)' = Got(c) /\ First(c)' = First(c)
    BY <1>1 DEF Got, First, Opening
  <2>3. QED
    BY <1>1, <1>3, <2>1, <2>2 DEF StreamOK
<1>6. QED
  BY <1>1, <1>2, <1>3, <1>4, <1>5, MethodStep, NotQueued

LEMMA DupInv ==
  ASSUME Inv, NEW s \in Sockets, Dup(s)
  PROVE  Inv'
<1>1. /\ call.op = "idle" /\ call' = call /\ refs[s] > 0
      /\ refs' = [refs EXCEPT ![s] = @ + 1]
      /\ UNCHANGED <<proto, link, sent, pend, listener, sock, buf, closed, queued, notes,
                     wrote, past>>
  BY DEF Dup, Calls, channel
<1>2. refs' \in [Sockets -> Nat] /\ \A d \in Sockets \ {s} : refs'[d] = refs[d]
  BY <1>1 DEF Inv, TypeOK
<1>3. ASSUME NEW c \in Channels, c = s
      PROVE  /\ SocketOK(c)' /\ OpeningOK(c)' /\ (sock'[c] # "closed" => StreamOK(c)')
             /\ \A i \in 1..Len(queued) : queued[i] # c
  <2>1. sock[c] # "none"
    BY <1>1, <1>3 DEF Inv, SocketInv, SocketOK
  <2>2. SocketOK(c)'
    BY <1>1, <2>1 DEF Inv, SocketInv, SocketOK
  <2>3. OpeningOK(c)'
    BY <1>1 DEF Inv, QueueInv, OpeningOK
  <2>4. sock'[c] # "closed" => StreamOK(c)'
    BY <1>1 DEF Inv, StreamInv, StreamOK, Got, First, Opening
  <2>5. QED
    BY <2>1, <2>2, <2>3, <2>4, NotQueued
<1>4. \A c \in Channels : c \in Sockets
  BY SocketsAre
<1>5. QED
  BY <1>1, <1>2, <1>3, <1>4, MethodStep DEF Inv, TypeOK

LEMMA CloseInv ==
  ASSUME Inv, NEW s \in Sockets, Close(s)
  PROVE  Inv'
<1>1. /\ call.op = "idle" /\ call' \in {Idle, Call("sleep", "close", Server, "none")}
      /\ refs[s] > 0 /\ refs' = [refs EXCEPT ![s] = @ - 1]
      /\ sock' = [sock EXCEPT ![s] = "closed"]
      /\ listener' = [listener EXCEPT ![s] = IF @ = "none" THEN "none" ELSE "closed"]
      /\ link' = [c \in Channels |-> IF c = s /\ link[c] = "open" THEN "closed" ELSE link[c]]
      /\ UNCHANGED <<proto, sent, pend, buf, closed, queued, notes, wrote, past>>
  BY DEF Close, Calls, StopEvents
<1>2. refs[s] \in Nat /\ refs[s] - 1 \in Nat
  BY <1>1 DEF Inv, TypeOK
<1>3. /\ link' \in [Channels -> {"none", "open", "closed"}]
      /\ listener' \in [Sockets -> {"none", "server", "socket", "closed"}]
      /\ sock' \in [Sockets -> {"none", "open", "closed"}] /\ refs' \in [Sockets -> Nat]
      /\ sock'[s] = "closed" /\ listener'[s] # "socket"
      /\ \A d \in Channels \ {s} : /\ link'[d] = link[d] /\ listener'[d] = listener[d]
                                   /\ sock'[d] = sock[d] /\ refs'[d] = refs[d]
  BY <1>1, <1>2, SocketsAre DEF Inv, TypeOK
<1>4. ASSUME NEW c \in Channels, c = s
      PROVE  /\ SocketOK(c)' /\ OpeningOK(c)' /\ sock'[c] = "closed"
             /\ \A i \in 1..Len(queued) : queued[i] # c
  <2>1. sock[c] # "none" /\ link[c] # "none"
    BY <1>1, <1>4 DEF Inv, SocketInv, SocketOK
  <2>2. link'[c] # "open" /\ link'[c] # "none"
    BY <1>1, <1>4, <2>1
  <2>3. SocketOK(c)'
    BY <1>3, <1>4, <2>2 DEF SocketOK
  <2>4. OpeningOK(c)'
    BY <1>1, <2>1 DEF Inv, QueueInv, OpeningOK
  <2>5. QED
    BY <1>3, <1>4, <2>1, <2>3, <2>4, NotQueued
<1>5. QED
  BY <1>1, <1>3, <1>4, MethodStep

-----------------------------------------------------------------------------
(***************************************************************************)
(* Waits.                                                                  *)
(***************************************************************************)
\* What ends a wait is there.
LEMMA ResumeInv ==
  ASSUME Inv, Resume, call.for = "accept" => queued # <<>>, call.op # "send", notes' \in Nat
  PROVE  Inv'
<1>1. CASE call.for = "accept" /\ TakeChannel
  BY <1>1, TakeChannelInv
<1>2. ASSUME NEW c, c = call.on, call.for = "recv", buf[c] # <<>>, ReadData(c)
      PROVE  Inv'
  <2>1. c \in Channels /\ sock[c] # "none"
    BY <1>2 DEF Inv, CallInv
  <2>2. QED
    BY <1>2, <2>1, ReadDataInv
<1>3. CASE Returns
  BY <1>3, ReturnsInv
<1>4. QED
  BY <1>1, <1>2, <1>3 DEF Resume

LEMMA AcceptInv ==
  ASSUME Inv, Accept
  PROVE  Inv'
<1>1. call.op = "idle" /\ notes' = notes /\ notes' \in Nat
  BY DEF Accept, Calls, Inv, TypeOK
<1>2. CASE queued # <<>> /\ TakeChannel
  BY <1>1, <1>2, TakeChannelInv
<1>3. CASE queued = <<>> /\ WaitUntil("accept", Server)
  BY <1>1, <1>3, WaitUntilInv, SocketsAre
<1>4. QED
  BY <1>2, <1>3 DEF Accept

LEMMA RecvLooksInv ==
  ASSUME Inv, RecvLooks
  PROVE  Inv'
<1>1. /\ call.op = "looponce" /\ call.for = "recv" /\ notes' = notes /\ notes' \in Nat
  BY DEF RecvLooks, Inv, TypeOK, CallInv
<1>2. ASSUME NEW c, c = call.on, buf[c] = <<>>, ~IsClosed(c), WaitUntil("recv", c)
      PROVE  Inv'
  <2>1. c \in Channels /\ c \in Sockets /\ sock[c] # "none"
    BY <1>1, <1>2, SocketsAre DEF Inv, CallInv
  <2>2. QED
    BY <1>1, <1>2, <2>1, WaitUntilInv
<1>3. CASE Resume
  BY <1>1, <1>3, ResumeInv
<1>4. QED
  BY <1>2, <1>3 DEF RecvLooks

LEMMA PushedInv ==
  ASSUME Inv, Pushed
  PROVE  Inv'
<1>1. call.op = "push" /\ notes' = notes /\ notes' \in Nat
  BY DEF Pushed, Inv, TypeOK
<1>2. CASE Wanted /\ Resume
  <2>1. call.for = "accept" => queued # <<>>
    BY <1>1, <1>2 DEF Wanted
  <2>2. QED
    BY <1>1, <1>2, <2>1, ResumeInv
<1>3. CASE Returns
  BY <1>1, <1>3, ReturnsInv
<1>4. QED
  BY <1>2, <1>3 DEF Pushed

LEMMA NotifiedInv ==
  ASSUME Inv, Notified
  PROVE  Inv'
<1>1. /\ call.op \in {"wait", "sleep", "fired"} /\ notes > 0 /\ notes' = notes - 1
      /\ notes' \in Nat
  BY DEF Notified, Waiting, Inv, TypeOK
<1>2. CASE Wanted /\ Resume
  <2>1. call.for = "accept" => queued # <<>>
    BY <1>1, <1>2 DEF Wanted, Inv, CallInv
  <2>2. QED
    BY <1>1, <1>2, <2>1, ResumeInv
<1>3. CASE ~Wanted /\ UNCHANGED <<channel, listener, object, call, wrote, past>>
  <2>1. CallInv'
    BY <1>3 DEF Inv, CallInv, object
  <2>2. ~Wanted'
    BY <1>3 DEF Wanted, IsClosed, channel, object
  <2>3. NoLostWakeup'
    BY <2>2 DEF NoLostWakeup
  <2>4. QED
    BY <1>1, <1>3, <2>1, <2>3, QuietStep DEF Inv, TypeOK
<1>4. QED
  BY <1>2, <1>3 DEF Notified

LEMMA TimedOutInv ==
  ASSUME Inv, TimedOut
  PROVE  Inv'
<1>1. /\ call.op = "sleep" /\ call' = [call EXCEPT !.op = "fired"] /\ notes' = notes + 1
      /\ UNCHANGED <<channel, listener, object, wrote, past>>
  BY DEF TimedOut
<1>2. /\ call' \in Callings /\ call'.op = "fired" /\ call'.for = call.for
      /\ call'.on = call.on /\ call'.size = call.size /\ call'.left = call.left
  BY <1>1 DEF Inv, TypeOK, Callings
<1>3. notes' \in Nat /\ notes' > 0
  BY <1>1 DEF Inv, TypeOK
<1>4. CallInv'
  BY <1>1, <1>2 DEF Inv, CallInv, object
<1>5. NoLostWakeup'
  BY <1>3 DEF NoLostWakeup
<1>6. QED
  BY <1>1, <1>2, <1>3, <1>4, <1>5, QuietStep

LEMMA WaitTimesOutInv ==
  ASSUME Inv, WaitTimesOut
  PROVE  Inv'
BY ReturnsInv DEF WaitTimesOut, Inv, TypeOK

-----------------------------------------------------------------------------
(***************************************************************************)
(* The theorems.                                                           *)
(***************************************************************************)
LEMMA InitInv ==
  ASSUME Init
  PROVE  Inv
<1>1. /\ proto \in [Channels -> {"rfcomm", "l2cap"}]
      /\ link = [c \in Channels |-> "none"] /\ sent = [c \in Channels |-> 0]
      /\ pend = [c \in Channels |-> <<>>] /\ listener = [s \in Sockets |-> "none"]
      /\ sock = [s \in Sockets |-> IF s = Server THEN "open" ELSE "none"]
      /\ refs = [s \in Sockets |-> IF s = Server THEN 1 ELSE 0]
      /\ buf = [c \in Channels |-> <<>>] /\ closed = [c \in Channels |-> FALSE]
      /\ queued = <<>> /\ notes = 0 /\ call = Idle /\ wrote = 0
      /\ past = [c \in Channels |-> 0]
  BY DEF Init
<1>2. <<>> \in Seq(Events) /\ <<>> \in Seq(Nat) /\ <<>> \in Seq(Incoming)
  OBVIOUS
<1>3. TypeOK
  BY <1>1, <1>2, IdleIs DEF TypeOK
<1>4. CallInv
  BY <1>1, IdleIs DEF CallInv
<1>5. \A c \in Channels : /\ sock[c] = "none" /\ listener[c] = "none" /\ refs[c] = 0
                          /\ link[c] = "none" /\ sent[c] = 0 /\ past[c] = 0
                          /\ pend[c] = <<>> /\ buf[c] = <<>>
                          /\ Len(pend[c]) = 0 /\ Len(buf[c]) = 0
  BY <1>1, SocketsAre
<1>6. SocketInv
  BY <1>5 DEF SocketInv, SocketOK
<1>7. QueueInv
  <2>1. Len(queued) = 0 /\ 1..0 = {}
    BY <1>1
  <2>2. \A c \in Channels : OpeningOK(c)
    BY <1>5 DEF OpeningOK
  <2>3. QED
    BY <2>1, <2>2 DEF QueueInv
<1>8. StreamInv
  <2>1. ASSUME NEW c \in Channels PROVE StreamOK(c)
    <3>1. Got(c) = 0 /\ First(c) = 1
      BY <1>5 DEF Got, First, Opening
    <3>2. QED
      BY <1>5, <3>1 DEF StreamOK
  <2>2. QED
    BY <2>1 DEF StreamInv
<1>9. NoLostWakeup
  BY <1>1, IdleIs DEF NoLostWakeup, Waiting
<1>10. QED
  BY <1>3, <1>4, <1>6, <1>7, <1>8, <1>9 DEF Inv

LEMMA StepInv ==
  ASSUME Inv, [Next]_vars
  PROVE  Inv'
<1>1. CASE UNCHANGED vars
  <2>1. UNCHANGED <<channel, listener, object, notes, call, wrote, past>>
    BY <1>1 DEF vars
  <2>2. CallInv' /\ NoLostWakeup'
    BY <2>1 DEF Inv, CallInv, NoLostWakeup, Waiting, Wanted, IsClosed, EndIsPending,
                channel, object
  <2>3. QED
    BY <2>1, <2>2, QuietStep DEF Inv, TypeOK
<1>2. CASE Peer
  BY <1>2, PeerOpensInv, PeerSendsInv, PeerClosesInv DEF Peer
<1>3. CASE Program
  BY <1>3, ListenInv, AcceptInv, RecvInv, SendInv, ConnectInv, DupInv, CloseInv DEF Program
<1>4. CASE \E c \in Channels : Callback(c)
  BY <1>4, NewChannelOpenedInv, HandleChannelDataInv, HandleChannelClosedInv DEF Callback
<1>5. CASE Continues
  BY <1>5, RecvLooksInv, PushedInv, NotifiedInv, SendStepInv DEF Continues
<1>6. QED
  BY <1>1, <1>2, <1>3, <1>4, <1>5, TimedOutInv, WaitTimesOutInv, SendStepInv DEF Next

\* The data of an open socket's events goes on where its buffer ends, up to
\* what the peer has sent.
LEMMA DataIs ==
  ASSUME Inv, NEW c \in Channels, sock[c] = "open"
  PROVE  /\ \A i \in DOMAIN pend[c] : pend[c][i][1] = "data" => pend[c][i][2] = Got(c) + i
         /\ Got(c) \in Nat /\ sent[c] \in Nat /\ Len(pend[c]) \in Nat
         /\ DOMAIN pend[c] = 1..Len(pend[c])
         /\ \/ /\ Got(c) + Len(pend[c]) = sent[c]
               /\ \A i \in 1..Len(pend[c]) : pend[c][i][1] = "data"
            \/ /\ Got(c) + Len(pend[c]) = sent[c] + 1 /\ Len(pend[c]) > 0
               /\ \A i \in 1..Len(pend[c]) : pend[c][i][1] = "data" <=> i # Len(pend[c])
<1>1. StreamOK(c) /\ pend[c] \in Seq(Events) /\ Got(c) \in Nat /\ sent[c] \in Nat
  BY DEF Inv, TypeOK, StreamInv, Got
<1>2. PICK n \in Nat : n = Len(pend[c]) /\ DOMAIN pend[c] = 1..n
  BY <1>1
<1>3. \A i \in 1..n : pend[c][i][1] # "opened"
  BY <1>2 DEF Inv, QueueInv, OpeningOK
<1>4. First(c) = 1
  BY <1>2, <1>3 DEF First, Opening
<1>5. ASSUME NEW i \in 1..n
      PROVE  \/ pend[c][i] = <<"data", Got(c) + i>>
             \/ pend[c][i] = <<"closed", 0>> /\ i = n
  <2>1. Got(c) + i + 1 - First(c) = Got(c) + i
    BY <1>1, <1>4
  <2>2. QED
    BY <1>1, <1>2, <1>3, <2>1 DEF StreamOK
<1>6. CASE Got(c) + n + 1 = sent[c] + First(c) /\ \A i \in 1..n : pend[c][i][1] # "closed"
  <2>1. Got(c) + n = sent[c]
    BY <1>1, <1>4, <1>6
  <2>2. \A i \in 1..n : pend[c][i][1] = "data" /\ pend[c][i][2] = Got(c) + i
    BY <1>5, <1>6
  <2>3. QED
    BY <1>1, <1>2, <2>1, <2>2
<1>7. CASE Got(c) + n = sent[c] + First(c) /\ n > 0 /\ pend[c][n][1] = "closed"
  <2>1. Got(c) + n = sent[c] + 1
    BY <1>1, <1>4, <1>7
  <2>2. \A i \in 1..n : pend[c][i][1] = "data" <=> i # n
    BY <1>5, <1>7
  <2>3. \A i \in 1..n : pend[c][i][1] = "data" => pend[c][i][2] = Got(c) + i
    BY <1>5
  <2>4. QED
    BY <1>1, <1>2, <1>7, <2>1, <2>2, <2>3
<1>8. QED
  BY <1>1, <1>2, <1>6, <1>7 DEF StreamOK

LEMMA InvStreams ==
  ASSUME Inv
  PROVE  StreamsInOrder
<1>1. SUFFICES ASSUME NEW c \in Channels, sock[c] = "open"
      PROVE  /\ \A i \in DOMAIN buf[c] : buf[c][i] = past[c] + i
             /\ \A i, j \in Data(c) : i < j => pend[c][i][2] < pend[c][j][2]
             /\ {pend[c][i][2] : i \in Data(c)} = (past[c] + Len(buf[c]) + 1)..sent[c]
             /\ past[c] + Len(buf[c]) <= sent[c]
             /\ wrote = call.size - call.left
  BY DEF StreamsInOrder
<1>2. PICK n \in Nat :
        /\ n = Len(pend[c]) /\ DOMAIN pend[c] = 1..n
        /\ \A i \in 1..n : pend[c][i][1] = "data" => pend[c][i][2] = Got(c) + i
        /\ \/ Got(c) + n = sent[c] /\ \A i \in 1..n : pend[c][i][1] = "data"
           \/ Got(c) + n = sent[c] + 1 /\ n > 0
              /\ \A i \in 1..n : pend[c][i][1] = "data" <=> i # n
  BY <1>1, DataIs
<1>3. Got(c) \in Nat /\ sent[c] \in Nat /\ Got(c) = past[c] + Len(buf[c])
  BY <1>1, DataIs DEF Got
<1>4. PICK m \in Nat : Got(c) + m = sent[c] /\ Data(c) = 1..m /\ m <= n
  <2>1. CASE Got(c) + n = sent[c] /\ \A i \in 1..n : pend[c][i][1] = "data"
    BY <1>2, <2>1 DEF Data
  <2>2. CASE Got(c) + n = sent[c] + 1 /\ n > 0
             /\ \A i \in 1..n : pend[c][i][1] = "data" <=> i # n
    <3>1. n - 1 \in Nat /\ Got(c) + (n - 1) = sent[c]
      BY <1>3, <2>2
    <3>2. Data(c) = 1..(n - 1)
      BY <1>2, <2>2 DEF Data
    <3>3. QED
      BY <3>1, <3>2
  <2>3. QED
    BY <1>2, <2>1, <2>2
<1>5. \A i \in 1..m : pend[c][i][2] = Got(c) + i
  BY <1>2, <1>4 DEF Data
<1>6. \A i, j \in Data(c) : i < j => pend[c][i][2] < pend[c][j][2]
  BY <1>3, <1>4, <1>5
<1>7. {pend[c][i][2] : i \in Data(c)} = (Got(c) + 1)..sent[c]
  <2>1. ASSUME NEW x \in (Got(c) + 1)..sent[c]
        PROVE  \E i \in Data(c) : x = pend[c][i][2]
    <3>1. x - Got(c) \in 1..m /\ Got(c) + (x - Got(c)) = x
      BY <1>3, <1>4
    <3>2. QED
      BY <1>4, <1>5, <3>1
  <2>2. \A i \in Data(c) : pend[c][i][2] \in (Got(c) + 1)..sent[c]
    BY <1>3, <1>4, <1>5
  <2>3. QED
    BY <2>1, <2>2
<1>8. past[c] + Len(buf[c]) <= sent[c]
  BY <1>3, <1>4
<1>9. \A i \in DOMAIN buf[c] : buf[c][i] = past[c] + i
  <2>1. buf[c] \in Seq(Nat) /\ StreamOK(c)
    BY <1>1 DEF Inv, TypeOK, StreamInv
  <2>2. DOMAIN buf[c] = 1..Len(buf[c])
    BY <2>1
  <2>3. QED
    BY <2>1, <2>2 DEF StreamOK
<1>10. wrote = call.size - call.left
  BY DEF Inv, CallInv
<1>11. QED
  BY <1>3, <1>6, <1>7, <1>8, <1>9, <1>10

\* Every reachable state satisfies the inductive invariant.
THEOREM Invariance == Spec => []Inv
<1>1. Inv /\ [Next]_vars => Inv'
  BY StepInv
<1>2. QED
  BY <1>1, InitInv, PTL DEF Spec

\* Each variable has its type (the fields of _BluetoothSocket, the queues of
\* the event loop and of the channels).
THEOREM TypeCorrect == Spec => []TypeOK
<1>1. Inv => TypeOK
  BY DEF Inv
<1>2. QED
  BY <1>1, Invariance, PTL

\* No wait sleeps on what has come: there is an event of interruptwait in the
\* queue, or the callback pending that posts one (waituntil, __waituntil).
THEOREM NoWakeupIsLost == Spec => []NoLostWakeup
<1>1. Inv => NoLostWakeup
  BY DEF Inv
<1>2. QED
  BY <1>1, Invariance, PTL

\* What an open socket has received and recv has not returned is in order, none
\* lost or twice (_ByteQueue, _handle_channeldata, recv), and a send has written
\* what it says.
THEOREM StreamsAreInOrder == Spec => []StreamsInOrder
<1>1. Inv => StreamsInOrder
  BY InvStreams
<1>2. QED
  BY <1>1, Invariance, PTL
=============================================================================

--------------------------- MODULE BtSocketProofs ---------------------------
(***************************************************************************)
(* Proofs about BtSocket, for any threads and objects and all bounds.      *)
(***************************************************************************)
EXTENDS BtSocket, TLAPS

-----------------------------------------------------------------------------
(***************************************************************************)
(* The inductive invariant.                                                *)
(***************************************************************************)
Places == {"idle", "select", "wait", "load", "syscall", "blocked", "listened", "closing", "closed",
           "getsockname", "sdp_connect", "sdp_register", "registered", "stopping", "stopped"}
Ops    == Transferring \cup Configures \cup {"listen"}

\* Each variable has its type.
TypeOK ==
  /\ alive \in [Objects -> BOOLEAN]
  /\ fd \in [Objects -> Fds \cup {0}]
  /\ timeout \in [Objects -> Timeouts]
  /\ listening \in [Objects -> BOOLEAN]
  /\ session \in [Objects -> Sessions \cup {0}]
  /\ handle \in [Objects -> BOOLEAN]
  /\ file \in [Objects -> Objects \cup {"none"}]
  /\ fds \in [Fds -> Objects \cup {"free", "other"}]
  /\ nonblock \in [Objects -> BOOLEAN]
  /\ ready \in [Objects -> BOOLEAN]
  /\ sessions \in [Sessions -> {"unused", "open", "registered", "freed"}]
  /\ owner \in [Sessions -> Objects \cup {"none"}]
  /\ misused \subseteq Objects \cup {"none"}
  /\ pc \in [Threads -> Places]
  /\ op \in [Threads -> Ops \cup {"none"}]
  /\ on \in [Threads -> Objects \cup {"none"}]
  /\ lfd \in [Threads -> Fds \cup {0}]
  /\ at \in [Threads -> Objects \cup {"none"}]
  /\ lsession \in [Threads -> Sessions \cup {0}]
  /\ left \in [Threads -> 0..MaxChunks]
  /\ timed \in [Threads -> BOOLEAN]
  /\ steady \in [Threads -> BOOLEAN]
  /\ overlapped \subseteq Objects
  /\ calls \in Nat

\* Where the thread is tells which method it is in, and of what.
CallOK(t) ==
  /\ \/ pc[t] = "idle" /\ op[t] = "none"
     \/ pc[t] \in {"select", "wait", "load", "syscall", "blocked"} /\ op[t] \in Transferring
     \/ pc[t] \in {"load", "syscall"} /\ op[t] \in SetsTimeout
     \/ pc[t] \in {"load", "syscall", "listened"} /\ op[t] = "listen"
     \/ pc[t] \in {"closing", "closed"} /\ op[t] = "close"
     \/ pc[t] \in {"getsockname", "sdp_connect", "sdp_register", "registered"}
        /\ op[t] = "advertise"
     \/ pc[t] \in {"stopping", "stopped"} /\ op[t] = "stop"
  /\ IF op[t] = "none" THEN on[t] = "none" ELSE on[t] \in Objects /\ alive[on[t]]
  /\ timed[t] => op[t] \in Transferring
CallsInv == \A t \in Threads : CallOK(t)

\* Every descriptor of a file of sockets is to be closed by one object, or by
\* the call that has taken it from one.
Closes(t, d) == pc[t] = "closing" /\ lfd[t] = d

FdsInv ==
  /\ \A s \in Objects : /\ alive[s] => file[s] # "none"
                        /\ fd[s] # 0 => alive[s]
                        /\ file[s] # "none" => file[file[s]] = file[s]
  /\ ClosesItsOwn
  /\ \A t \in Threads : ~Closes(t, 0)
  /\ \A s, u \in Objects : fd[s] # 0 /\ fd[s] = fd[u] => s = u
  /\ \A t \in Threads, s \in Objects : ~Closes(t, fd[s])
  /\ \A t, u \in Threads : Closes(t, lfd[u]) /\ pc[u] = "closing" => t = u
  /\ \A d \in Fds : fds[d] \in Objects =>
       (\E s \in Objects : fd[s] = d) \/ \E t \in Threads : Closes(t, d)

\* No two calls that configure a socket overlap, but where noted.
OnceInv ==
  \A t, u \in Threads :
    on[t] = on[u] /\ op[t] \in Configures /\ op[u] \in Configures =>
      t = u \/ on[t] \in overlapped

\* Sessions are those of the objects they are kept in.
OwnersInv ==
  /\ \A s \in Objects : session[s] # 0 =>
       owner[session[s]] = s /\ sessions[session[s]] # "unused"
  /\ \A t \in Threads : lsession[t] # 0 =>
       op[t] = "advertise" /\ owner[lsession[t]] = on[t] /\ sessions[lsession[t]] # "unused"
  /\ \A t \in Threads : pc[t] = "sdp_register" => lsession[t] # 0
  /\ \A n \in Sessions : sessions[n] # "unused" => owner[n] \in Objects

\* The session of a socket, of which no calls have overlapped, is alive unless
\* it is being stopped; a service has its handle kept and its socket open.
At(t, s, where) == on[t] = s /\ pc[t] = where

SessionOK(s) ==
  /\ session[s] # 0 /\ sessions[session[s]] = "freed" => \E t \in Threads : At(t, s, "stopped")
  /\ \A n \in Sessions : sessions[n] = "registered" /\ owner[n] = s =>
       /\ n = session[s]
       /\ handle[s] \/ \E t \in Threads : At(t, s, "registered")
       /\ fd[s] # 0 \/ Closing(s)
  /\ \A t \in Threads :
       /\ At(t, s, "sdp_connect") => ~handle[s] \/ session[s] = 0
       /\ At(t, s, "sdp_register") => lsession[t] = session[s] /\ sessions[session[s]] = "open"
       /\ At(t, s, "stopped") => session[s] = 0 \/ sessions[session[s]] = "freed"
       /\ on[t] = s /\ op[t] = "advertise" => fd[s] # 0
SessionsInv == /\ \A s \in Objects \ overlapped : SessionOK(s)
               /\ SessionsAreAlive

\* The file of a socket with a timeout does not block, unless its timeout is
\* being set.  A call that is steady has none being set.
SteadyOK(t) ==
  /\ steady[t] => op[t] # "none"
  /\ steady[t] /\ op[t] \notin SetsTimeout => ~UnderWay(on[t], SetsTimeout)
  /\ steady[t] /\ timed[t] => timeout[on[t]] = "some"

Alone(s) == s \notin overlapped /\ file[s] # "none" /\ ~Shared(file[s])

TimeoutOK(s) ==
  /\ \A t \in Threads : on[t] = s /\ op[t] \in SetsTimeout =>
       /\ pc[t] = "syscall" => lfd[t] = fd[s]
       /\ op[t] = "block" => timeout[s] = "none"
  /\ (\E d \in Fds : fds[d] = file[s]) /\ ~UnderWay(s, SetsTimeout) /\ timeout[s] # "none" =>
       nonblock[file[s]]
TimeoutsInv == /\ \A t \in Threads : SteadyOK(t)
               /\ \A s \in Objects : Alone(s) => TimeoutOK(s)
               /\ TimeoutHolds

Inv == /\ TypeOK /\ CallsInv /\ FdsInv /\ OnceInv
       /\ OwnersInv /\ SessionsInv /\ TimeoutsInv

-----------------------------------------------------------------------------
(***************************************************************************)
(* Names, and what a call does to its thread.                              *)
(***************************************************************************)
LEMMA NamesAre ==
  /\ "none" \notin Objects /\ "free" \notin Objects /\ "other" \notin Objects
  /\ DefaultTimeout \in Timeouts /\ 0 \notin Fds /\ 0 \notin Sessions
  /\ 1 \in Fds /\ MaxChunks \in Nat /\ 1 \in 0..MaxChunks
  /\ \A n \in 1..MaxChunks : n \in 0..MaxChunks
<1>1. /\ {"none", "free", "other"} \cap Objects = {} /\ DefaultTimeout \in Timeouts
      /\ MaxFd \in Nat /\ MaxFd # 0 /\ MaxSessions \in Nat
      /\ MaxChunks \in Nat /\ MaxChunks # 0
  BY SocketAssumption
<1>2. 0 \notin Fds /\ 0 \notin Sessions /\ 1 \in Fds /\ 1 \in 0..MaxChunks
  BY <1>1 DEF Fds, Sessions
<1>3. QED
  BY <1>1, <1>2

LEMMA StartsIs ==
  ASSUME Inv, NEW t \in Threads, NEW s \in Objects, NEW o \in Ops, NEW where \in Places,
         NEW d \in Fds \cup {0}, NEW n \in 0..MaxChunks, Starts(t, s, o, where, d, n)
  PROVE  /\ alive[s] /\ pc[t] = "idle" /\ op[t] = "none" /\ on[t] = "none" /\ ~timed[t]
         /\ pc'[t] = where /\ op'[t] = o /\ on'[t] = s /\ lfd'[t] = d
         /\ \A u \in Threads \ {t} : /\ pc'[u] = pc[u] /\ op'[u] = op[u] /\ on'[u] = on[u]
                                     /\ lfd'[u] = lfd[u]
         /\ \A u \in Threads : steady'[u] = IF u = t THEN ~UnderWay(s, SetsTimeout)
                                 ELSE steady[u] /\ (o \in SetsTimeout => file[on[u]] # file[s])
         /\ UNCHANGED <<at, lsession, timed>>
         /\ overlapped \subseteq overlapped' /\ overlapped' \subseteq Objects
         /\ o \in Configures /\ UnderWay(s, Configures) => s \in overlapped'
         /\ o \notin Configures => overlapped' = overlapped
         /\ pc' \in [Threads -> Places] /\ op' \in [Threads -> Ops \cup {"none"}]
         /\ on' \in [Threads -> Objects \cup {"none"}] /\ lfd' \in [Threads -> Fds \cup {0}]
         /\ left' \in [Threads -> 0..MaxChunks] /\ steady' \in [Threads -> BOOLEAN]
         /\ calls' \in Nat
<1>1. CallOK(t) /\ pc[t] = "idle" /\ alive[s] /\ calls' = calls + 1
  BY DEF Starts, Inv, CallsInv
<1>2. op[t] = "none" /\ on[t] = "none" /\ ~timed[t]
  BY <1>1 DEF CallOK, Transferring, Transfers
<1>3. steady' \in [Threads -> BOOLEAN]
  BY DEF Starts, Inv, TypeOK
<1>4. overlapped \subseteq overlapped' /\ overlapped' \subseteq Objects
  BY DEF Starts, Inv, TypeOK
<1>5. QED
  BY <1>1, <1>2, <1>3, <1>4 DEF Starts, Inv, TypeOK

LEMMA EndsIs ==
  ASSUME TypeOK, NEW t \in Threads, Ends(t)
  PROVE  /\ pc'[t] = "idle" /\ op'[t] = "none" /\ on'[t] = "none" /\ lfd'[t] = 0
         /\ at'[t] = "none" /\ lsession'[t] = 0 /\ timed'[t] = FALSE /\ steady'[t] = FALSE
         /\ \A u \in Threads \ {t} :
              /\ pc'[u] = pc[u] /\ op'[u] = op[u] /\ on'[u] = on[u] /\ lfd'[u] = lfd[u]
              /\ at'[u] = at[u] /\ lsession'[u] = lsession[u] /\ timed'[u] = timed[u]
              /\ steady'[u] = steady[u]
         /\ pc' \in [Threads -> Places] /\ op' \in [Threads -> Ops \cup {"none"}]
         /\ on' \in [Threads -> Objects \cup {"none"}] /\ lfd' \in [Threads -> Fds \cup {0}]
         /\ at' \in [Threads -> Objects \cup {"none"}]
         /\ lsession' \in [Threads -> Sessions \cup {0}]
         /\ left' \in [Threads -> 0..MaxChunks] /\ timed' \in [Threads -> BOOLEAN]
         /\ steady' \in [Threads -> BOOLEAN]
  BY NamesAre DEF Ends, Moves, TypeOK, Places

\* Threads other than t stay where they are.
Stays(u) ==
  /\ pc'[u] = pc[u] /\ op'[u] = op[u] /\ on'[u] = on[u] /\ lfd'[u] = lfd[u]
  /\ at'[u] = at[u] /\ lsession'[u] = lsession[u] /\ timed'[u] = timed[u]
  /\ steady'[u] => steady[u]

-----------------------------------------------------------------------------
(***************************************************************************)
(* What a step leaves alone.                                               *)
(***************************************************************************)
LEMMA CallsFrame ==
  ASSUME Inv, \A u \in Threads : Stays(u) \/ CallOK(u)',
         \A s \in Objects : alive[s] /\ ~alive'[s] => \A u \in Threads : on[u] # s
  PROVE  CallsInv'
  BY DEF Inv, CallsInv, CallOK, Stays

LEMMA FdsFrame ==
  ASSUME Inv, UNCHANGED <<alive, fd, file, fds>>,
         \A t \in Threads : \/ pc'[t] = pc[t] /\ lfd'[t] = lfd[t] /\ on'[t] = on[t]
                            \/ pc[t] # "closing" /\ pc'[t] # "closing"
  PROVE  FdsInv'
<1>1. \A t \in Threads : /\ pc'[t] = "closing" <=> pc[t] = "closing"
                         /\ pc[t] = "closing" => lfd'[t] = lfd[t] /\ on'[t] = on[t]
  OBVIOUS
<1>2. \A t \in Threads : \A d : Closes(t, d)' <=> Closes(t, d)
  BY <1>1 DEF Closes
<1>3. ClosesItsOwn'
  BY <1>1 DEF Inv, FdsInv, ClosesItsOwn
<1>4. QED
  BY <1>1, <1>2, <1>3 DEF Inv, FdsInv

LEMMA OnceFrame ==
  ASSUME Inv, overlapped \subseteq overlapped',
         \A t \in Threads : op'[t] \in Configures => op'[t] = op[t] /\ on'[t] = on[t]
  PROVE  OnceInv'
  BY DEF Inv, OnceInv

LEMMA OnceStarts ==
  ASSUME Inv, NEW t \in Threads, NEW s \in Objects, overlapped \subseteq overlapped',
         op'[t] \in Configures /\ UnderWay(s, Configures) => s \in overlapped',
         on'[t] = s, \A u \in Threads \ {t} : op'[u] = op[u] /\ on'[u] = on[u]
  PROVE  OnceInv'
  BY DEF Inv, OnceInv, UnderWay

LEMMA OwnersFrame ==
  ASSUME Inv, UNCHANGED <<session, sessions, owner>>,
         \A t \in Threads : \/ lsession'[t] = 0 /\ pc'[t] # "sdp_register"
                            \/ /\ lsession'[t] = lsession[t]
                               /\ lsession[t] # 0 => on'[t] = on[t] /\ op'[t] = op[t]
                               /\ pc'[t] = "sdp_register" => pc[t] = "sdp_register"
  PROVE  OwnersInv'
  BY DEF Inv, OwnersInv

SdpPlaces == {"sdp_connect", "sdp_register", "registered", "stopped"}
SdpOps    == {"close", "advertise", "stop"}

\* A step that is none of those of sdp_advertise_service and its like.
LEMMA SessionsFrame ==
  ASSUME Inv, CallsInv', UNCHANGED <<session, handle, sdp>>, overlapped \subseteq overlapped',
         \A s \in Objects \ overlapped' : fd[s] # 0 => fd'[s] # 0,
         \A t \in Threads :
           \/ /\ op'[t] = op[t] /\ on'[t] = on[t] /\ lsession'[t] = lsession[t]
              /\ pc'[t] = pc[t] \/ (pc[t] \notin SdpPlaces /\ pc'[t] \notin SdpPlaces)
           \/ op[t] \notin SdpOps /\ op'[t] \notin SdpOps
  PROVE  SessionsInv'
<1>1. ASSUME NEW t \in Threads
      PROVE  \/ /\ op'[t] = op[t] /\ on'[t] = on[t] /\ lsession'[t] = lsession[t]
                /\ pc'[t] = pc[t] \/ (pc[t] \notin SdpPlaces /\ pc'[t] \notin SdpPlaces)
             \/ /\ op[t] \notin SdpOps /\ op'[t] \notin SdpOps
                /\ pc[t] \notin SdpPlaces /\ pc'[t] \notin SdpPlaces
  <2>1. CallOK(t) /\ CallOK(t)'
    BY DEF Inv, CallsInv
  <2>2. op[t] \notin SdpOps => pc[t] \notin SdpPlaces
    BY <2>1 DEF CallOK, SdpOps, SdpPlaces
  <2>3. op'[t] \notin SdpOps => pc'[t] \notin SdpPlaces
    BY <2>1 DEF CallOK, SdpOps, SdpPlaces
  <2>4. QED
    BY <2>2, <2>3
<1>2. \A t \in Threads : \A s : /\ \A w \in SdpPlaces : At(t, s, w)' <=> At(t, s, w)
                                /\ At(t, s, "sdp_register") => lsession'[t] = lsession[t]
                                /\ on'[t] = s /\ op'[t] \in SdpOps <=> on[t] = s /\ op[t] \in SdpOps
                                /\ on[t] = s /\ op[t] \in SdpOps => op'[t] = op[t]
  BY <1>1 DEF At, SdpPlaces
<1>3. \A s : Closing(s)' <=> Closing(s)
  BY <1>2 DEF Closing, Busy, SdpOps
<1>4. ASSUME NEW s \in Objects \ overlapped' PROVE SessionOK(s)'
  <2>1. SessionOK(s) /\ (fd[s] # 0 => fd'[s] # 0)
    BY DEF Inv, SessionsInv
  <2>2. /\ \A t \in Threads : /\ At(t, s, "stopped")' <=> At(t, s, "stopped")
                              /\ At(t, s, "registered")' <=> At(t, s, "registered")
                              /\ At(t, s, "sdp_connect")' <=> At(t, s, "sdp_connect")
                              /\ At(t, s, "sdp_register")' <=> At(t, s, "sdp_register")
        /\ \A t \in Threads : on'[t] = s /\ op'[t] = "advertise" =>
                              on[t] = s /\ op[t] = "advertise"
    BY <1>2 DEF SdpPlaces, SdpOps
  <2>3. QED
    BY <1>2, <1>3, <2>1, <2>2 DEF SessionOK, sdp
<1>5. SessionsAreAlive'
  BY DEF Inv, SessionsInv, SessionsAreAlive, sdp
<1>6. QED
  BY <1>4, <1>5 DEF SessionsInv

LEMMA SteadyFrame ==
  ASSUME Inv, UNCHANGED <<file, timeout>>,
         \A u \in Threads : op'[u] \in SetsTimeout => op[u] \in SetsTimeout /\ on'[u] = on[u],
         \A u \in Threads : steady'[u] =>
           /\ op'[u] # "none"
           /\ \/ steady[u] /\ on'[u] = on[u] /\ (op[u] \in SetsTimeout => op'[u] \in SetsTimeout)
              \/ ~UnderWay(on'[u], SetsTimeout)
           /\ timed'[u] => (steady[u] /\ timed[u] /\ on'[u] = on[u]) \/ timeout[on'[u]] = "some"
  PROVE  \A u \in Threads : SteadyOK(u)'
<1> SUFFICES ASSUME NEW u \in Threads PROVE SteadyOK(u)'
  OBVIOUS
<1>1. \A s : UnderWay(s, SetsTimeout)' => UnderWay(s, SetsTimeout)
  BY DEF UnderWay
<1>2. SteadyOK(u)
  BY DEF Inv, TimeoutsInv
<1>3. ASSUME steady'[u], op'[u] \notin SetsTimeout PROVE ~UnderWay(on[u], SetsTimeout)'
                                                        \/ on'[u] # on[u]
  BY <1>1, <1>2, <1>3 DEF SteadyOK
<1>4. ASSUME steady'[u], op'[u] \notin SetsTimeout PROVE ~UnderWay(on'[u], SetsTimeout)
  BY <1>2, <1>4 DEF SteadyOK
<1>5. ASSUME steady'[u], op'[u] \notin SetsTimeout PROVE ~UnderWay(on[u], SetsTimeout)'
  BY <1>1, <1>4, <1>5 DEF UnderWay
<1>6. QED
  BY <1>2, <1>5 DEF SteadyOK

LEMMA SteadyStarts ==
  ASSUME Inv, NEW t \in Threads, NEW s \in Objects, NEW o \in Ops, NEW where \in Places,
         NEW d \in Fds \cup {0}, NEW n \in 0..MaxChunks, Starts(t, s, o, where, d, n),
         o \notin SetsTimeout, o # "none", file' = file, timeout' = timeout
  PROVE  \A u \in Threads : SteadyOK(u)'
<1>1. /\ op'[t] = o /\ on'[t] = s /\ ~timed[t] /\ timed' = timed
      /\ \A u \in Threads \ {t} : op'[u] = op[u] /\ on'[u] = on[u]
      /\ \A u \in Threads : steady'[u] = IF u = t THEN ~UnderWay(s, SetsTimeout)
                              ELSE steady[u] /\ (o \in SetsTimeout => file[on[u]] # file[s])
  BY StartsIs
<1>2. \A u \in Threads : steady[u] => op[u] # "none"
  BY DEF Inv, TimeoutsInv, SteadyOK
<1>3. \A u \in Threads : op'[u] \in SetsTimeout => op[u] \in SetsTimeout /\ on'[u] = on[u]
  BY <1>1
<1>4. ASSUME NEW u \in Threads, steady'[u]
      PROVE  /\ op'[u] # "none"
             /\ \/ steady[u] /\ on'[u] = on[u] /\ (op[u] \in SetsTimeout => op'[u] \in SetsTimeout)
                \/ ~UnderWay(on'[u], SetsTimeout)
             /\ timed'[u] => (steady[u] /\ timed[u] /\ on'[u] = on[u]) \/ timeout[on'[u]] = "some"
  <2>1. CASE u = t
    <3>1. /\ op'[u] = o /\ on'[u] = s /\ ~timed'[u] /\ ~UnderWay(s, SetsTimeout)
      BY <1>1, <1>4, <2>1
    <3>2. QED
      BY <3>1
  <2>2. CASE u # t
    <3>1. op'[u] = op[u] /\ on'[u] = on[u] /\ timed'[u] = timed[u] /\ steady[u]
      BY <1>1, <1>4, <2>2
    <3>2. QED
      BY <1>2, <3>1
  <2>3. QED
    BY <2>1, <2>2
<1>5. QED
  BY <1>3, <1>4, SteadyFrame

LEMMA HoldsFrame ==
  ASSUME Inv, UNCHANGED file, overlapped \subseteq overlapped',
         \A u \in Threads : pc'[u] = "blocked" =>
           /\ pc[u] = "blocked" /\ at'[u] = at[u] /\ on'[u] = on[u]
           /\ (timed'[u] => timed[u]) /\ (steady'[u] => steady[u])
  PROVE  TimeoutHolds'
  BY DEF Inv, TimeoutsInv, TimeoutHolds, Shared

\* What a step has to leave of a socket for its file to stay as it should be.
SetsOf(u, s) == on[u] = s /\ op[u] \in SetsTimeout

LEMMA AloneFrame ==
  ASSUME Inv, CallsInv', NEW s \in Objects, Alone(s)', overlapped \subseteq overlapped',
         file[s] # "none", \A x \in Objects : file[x] # "none" => file'[x] = file[x],
         timeout'[s] = timeout[s], nonblock'[file[s]] = nonblock[file[s]],
         \A d \in Fds : fds'[d] = fds[d] \/ fds'[d] # file[s],
         \A u \in Threads : SetsOf(u, s) => fd'[s] = fd[s],
         \A u \in Threads : SetsOf(u, s)' <=> SetsOf(u, s),
         \A u \in Threads : SetsOf(u, s) =>
           /\ op'[u] = op[u]
           /\ pc'[u] = "syscall" => \/ pc[u] = "syscall" /\ lfd'[u] = lfd[u]
                                    \/ lfd'[u] = fd[s]
  PROVE  TimeoutOK(s)'
<1>1. Alone(s) /\ file'[s] = file[s]
  BY DEF Alone, Shared
<1>2. TimeoutOK(s)
  BY <1>1 DEF Inv, TimeoutsInv
<1>3. \A u \in Threads : op[u] \in SetsTimeout => on[u] \in Objects
  BY DEF Inv, CallsInv, CallOK, SetsTimeout
<1>4. \A u \in Threads : op'[u] \in SetsTimeout => on'[u] \in Objects
  BY DEF CallsInv, CallOK, SetsTimeout
<1>5. \A x \in Objects : /\ file[x] = file[s] => x = s
                         /\ file'[x] = file'[s] => x = s
  BY <1>1 DEF Alone, Shared
<1>6. UnderWay(s, SetsTimeout) => UnderWay(s, SetsTimeout)'
  BY <1>1, <1>3, <1>5 DEF UnderWay, SetsOf
<1>7. ASSUME NEW u \in Threads, on'[u] = s, op'[u] \in SetsTimeout
      PROVE  /\ pc'[u] = "syscall" => lfd'[u] = fd'[s]
             /\ op'[u] = "block" => timeout'[s] = "none"
  BY <1>2, <1>7 DEF TimeoutOK, SetsOf
<1>8. QED
  BY <1>1, <1>2, <1>6, <1>7 DEF TimeoutOK

\* A step of a call that sets no timeout.
Passes(t) ==
  /\ op[t] \notin SetsTimeout /\ op'[t] \notin SetsTimeout
  /\ steady'[t] => /\ op'[t] # "none" /\ steady[t] /\ on'[t] = on[t]
                   /\ timed'[t] => timed[t] \/ timeout[on[t]] = "some"

LEMMA TimeoutsFrame ==
  ASSUME Inv, CallsInv', TimeoutHolds', UNCHANGED <<file, timeout, nonblock>>,
         overlapped \subseteq overlapped',
         \A d \in Fds : fds'[d] = fds[d] \/ fds'[d] \notin Objects,
         \A s \in Objects \ overlapped', u \in Threads : SetsOf(u, s) => fd'[s] = fd[s],
         \A u \in Threads : Stays(u) \/ Passes(u)
  PROVE  TimeoutsInv'
<1>1. \A u \in Threads : steady[u] => op[u] # "none"
  BY DEF Inv, TimeoutsInv, SteadyOK
<1>2. \A u \in Threads : SteadyOK(u)'
  BY <1>1, SteadyFrame DEF Stays, Passes
<1>3. ASSUME NEW s \in Objects, Alone(s)' PROVE TimeoutOK(s)'
  <2>1. s \notin overlapped' /\ file[s] # "none" /\ file[s] \in Objects
    BY <1>3 DEF Alone, Inv, TypeOK
  <2>2. \A u \in Threads : SetsOf(u, s)' <=> SetsOf(u, s)
    BY DEF SetsOf, Stays, Passes
  <2>3. \A u \in Threads : SetsOf(u, s) => Stays(u)
    BY DEF SetsOf, Passes
  <2>4. \A d \in Fds : fds'[d] = fds[d] \/ fds'[d] # file[s]
    BY <2>1
  <2>5. QED
    BY <1>3, <2>1, <2>2, <2>3, <2>4, AloneFrame DEF Stays
<1>4. QED
  BY <1>2, <1>3 DEF TimeoutsInv

\* A step of a call that transfers or listens, and leaves all but the thread.
Quiet == Transferring \cup {"listen"}

LEMMA QuietStep ==
  ASSUME Inv, TimeoutHolds', NEW t \in Threads, \A u \in Threads \ {t} : Stays(u), Passes(t), CallOK(t)',
         UNCHANGED <<alive, fd, timeout, session, handle, file, fds, nonblock, sdp, overlapped>>,
         op[t] \in Quiet, op'[t] \in Quiet \cup {"none"},
         lsession'[t] \in {0, lsession[t]}
  PROVE  CallsInv' /\ FdsInv' /\ OnceInv' /\ OwnersInv' /\ SessionsInv' /\ TimeoutsInv'
<1>1. /\ op[t] \notin Configures /\ op'[t] \notin Configures
      /\ op[t] \notin SdpOps /\ op'[t] \notin SdpOps
  BY DEF Quiet, Transferring, Transfers, Configures, SetsTimeout, SdpOps
<1>2. CallOK(t)
  BY DEF Inv, CallsInv
<1>3. CallsInv'
  BY CallsFrame
<1>4. FdsInv'
  <2>1. pc[t] # "closing" /\ pc'[t] # "closing"
    BY <1>1, <1>2 DEF CallOK, SdpOps
  <2>2. QED
    BY <2>1, FdsFrame DEF Stays
<1>5. OnceInv'
  BY <1>1, OnceFrame DEF Stays
<1>6. OwnersInv'
  <2>1. lsession[t] = 0
    BY <1>1 DEF SdpOps, Inv, OwnersInv
  <2>2. UNCHANGED <<session, sessions, owner>>
    BY DEF sdp
  <2>3. pc'[t] # "sdp_register"
    BY <1>1 DEF CallOK, SdpOps
  <2>4. QED
    BY <2>1, <2>2, <2>3, OwnersFrame DEF Stays
<1>7. SessionsInv'
  BY <1>1, <1>3, SessionsFrame DEF Stays
<1>8. TimeoutsInv'
  BY <1>3, TimeoutsFrame
<1>9. QED
  BY <1>3, <1>4, <1>5, <1>6, <1>7, <1>8

\* A call begins that has nothing to do with SDP and leaves the fields.
LEMMA QuietStart ==
  ASSUME Inv, NEW t \in Threads, NEW s \in Objects, NEW o \in Quiet, NEW where \in Places,
         NEW n \in 0..MaxChunks, Starts(t, s, o, where, 0, n),
         where \in {"select", "load"},
         o = "listen" => where = "load",
         UNCHANGED <<object, kernel, sdp>>
  PROVE  Inv'
<1>0. o \in Ops /\ o \notin Configures /\ o \notin SdpOps /\ o \notin SetsTimeout /\ o # "none"
  BY DEF Quiet, Ops, Transferring, Transfers, Configures, SetsTimeout, SdpOps
<1>1. /\ alive[s] /\ pc[t] = "idle" /\ op[t] = "none" /\ ~timed[t]
      /\ pc'[t] = where /\ op'[t] = o /\ on'[t] = s
      /\ \A u \in Threads \ {t} : /\ pc'[u] = pc[u] /\ op'[u] = op[u] /\ on'[u] = on[u]
                                  /\ lfd'[u] = lfd[u]
      /\ \A u \in Threads : steady'[u] = IF u = t THEN ~UnderWay(s, SetsTimeout)
                              ELSE steady[u] /\ (o \in SetsTimeout => file[on[u]] # file[s])
      /\ UNCHANGED <<at, lsession, timed>> /\ overlapped' = overlapped
  BY <1>0, StartsIs
<1>2. TypeOK'
  <2>1. /\ overlapped' \subseteq Objects /\ calls' \in Nat
        /\ pc' \in [Threads -> Places] /\ op' \in [Threads -> Ops \cup {"none"}]
        /\ on' \in [Threads -> Objects \cup {"none"}] /\ lfd' \in [Threads -> Fds \cup {0}]
        /\ left' \in [Threads -> 0..MaxChunks] /\ steady' \in [Threads -> BOOLEAN]
    BY <1>0, StartsIs
  <2>2. QED
    BY <1>1, <2>1 DEF Inv, TypeOK, object, kernel, sdp
<1>3. \A u \in Threads \ {t} : Stays(u)
  BY <1>1 DEF Stays
<1>4. CallsInv'
  <2>1. CallOK(t)'
    BY <1>1 DEF CallOK, Quiet, Transferring, Transfers, object
  <2>2. QED
    BY <1>3, <2>1, CallsFrame DEF object
<1>5. FdsInv'
  BY <1>1, FdsFrame DEF object, kernel
<1>6. OnceInv'
  BY <1>0, <1>1, <1>3, OnceFrame DEF Stays
<1>7. OwnersInv'
  <2>1. lsession[t] = 0
    BY <1>1 DEF Inv, OwnersInv
  <2>2. QED
    BY <1>1, <2>1, OwnersFrame DEF object, sdp
<1>8. SessionsInv'
  <2>1. op[t] \notin SdpOps
    BY <1>1 DEF SdpOps
  <2>2. QED
    BY <1>0, <1>1, <1>3, <1>4, <2>1, SessionsFrame DEF Stays, object
<1>9. TimeoutsInv'
  <2>1. \A u \in Threads : steady[u] => op[u] # "none"
    BY DEF Inv, TimeoutsInv, SteadyOK
  <2>2. \A u \in Threads : SteadyOK(u)'
    BY <1>0, SteadyStarts DEF object, kernel
  <2>3. TimeoutHolds'
    BY <1>1, HoldsFrame DEF kernel
  <2>4. \A u \in Threads : \A x : /\ SetsOf(u, x)' <=> SetsOf(u, x)
                                  /\ SetsOf(u, x) => Stays(u)
    BY <1>0, <1>1, <1>3 DEF SetsOf, SetsTimeout, Stays
  <2>5. ASSUME NEW x \in Objects, Alone(x)' PROVE TimeoutOK(x)'
    <3>1. file[x] # "none"
      BY <2>5 DEF Alone, kernel
    <3>2. QED
      BY <1>1, <1>4, <2>4, <2>5, <3>1, AloneFrame DEF object, kernel, Stays
  <2>6. QED
    BY <2>2, <2>3, <2>5 DEF TimeoutsInv
<1>10. QED
  BY <1>2, <1>4, <1>5, <1>6, <1>7, <1>8, <1>9 DEF Inv

LEMMA PlacesOfQuiet ==
  /\ {"transfer", "accept", "connect", "listen"} \subseteq Quiet
  /\ {"select", "load"} \subseteq Places
  BY DEF Quiet, Transferring, Transfers, Places

LEMMA CallsBegin ==
  ASSUME Inv, NEW t \in Threads, NEW s \in Objects,
         Transfer(t, s) \/ Connect(t, s) \/ Listen(t, s)
  PROVE  Inv'
<1>1. CASE Transfer(t, s)
  <2>1. PICK o \in Transfers, n \in 1..MaxChunks :
          Starts(t, s, o, "select", 0, n) /\ UNCHANGED <<object, kernel, sdp>>
    BY <1>1 DEF Transfer
  <2>2. n \in 0..MaxChunks /\ o \in Quiet /\ o # "listen"
    BY NamesAre DEF Quiet, Transferring, Transfers
  <2>3. QED
    BY <2>1, <2>2, PlacesOfQuiet, QuietStart
<1>2. CASE Connect(t, s)
  BY <1>2, NamesAre, PlacesOfQuiet, QuietStart DEF Connect
<1>3. CASE Listen(t, s)
  <2>1. 0 \in 0..MaxChunks
    BY NamesAre
  <2>2. QED
    BY <1>3, <2>1, PlacesOfQuiet, QuietStart DEF Listen
<1>4. QED
  BY <1>1, <1>2, <1>3

-----------------------------------------------------------------------------
(***************************************************************************)
(* Calls that transfer or listen.                                          *)
(***************************************************************************)
\* A step of one that leaves all but its thread.
LEMMA QuietEnds ==
  ASSUME Inv, NEW t \in Threads, Ends(t), op[t] \in Quiet,
         UNCHANGED <<alive, fd, timeout, session, handle, file, fds, nonblock, sdp, overlapped>>
  PROVE  CallsInv' /\ FdsInv' /\ OnceInv' /\ OwnersInv' /\ SessionsInv' /\ TimeoutsInv'
<1>1. \A u \in Threads \ {t} : Stays(u)
  BY EndsIs DEF Inv, Stays
<1>2. /\ pc'[t] = "idle" /\ op'[t] = "none" /\ on'[t] = "none" /\ lsession'[t] = 0
      /\ timed'[t] = FALSE /\ steady'[t] = FALSE
  BY EndsIs DEF Inv
<1>3. Passes(t) /\ CallOK(t)'
  BY <1>2 DEF Passes, CallOK, Quiet, Transferring, Transfers, SetsTimeout
<1>4. TimeoutHolds'
  BY <1>1, <1>2, HoldsFrame DEF Stays
<1>5. QED
  BY <1>1, <1>2, <1>3, <1>4, QuietStep

\* One that goes on where it is not blocked.
LEMMA QuietGoes ==
  ASSUME Inv, NEW t \in Threads, NEW where \in Places, Moves(t, where), where # "blocked",
         op[t] \in Quiet, op'[t] \in Quiet, CallOK(t)',
         \A u \in Threads \ {t} : /\ op'[u] = op[u] /\ lfd'[u] = lfd[u]
                                  /\ at'[u] = at[u] /\ timed'[u] = timed[u],
         timed'[t] => timed[t] \/ timeout[on[t]] = "some",
         UNCHANGED <<on, lsession, steady>>,
         UNCHANGED <<alive, fd, timeout, session, handle, file, fds, nonblock, sdp, overlapped>>
  PROVE  CallsInv' /\ FdsInv' /\ OnceInv' /\ OwnersInv' /\ SessionsInv' /\ TimeoutsInv'
<1>1. pc'[t] = where /\ \A u \in Threads \ {t} : pc'[u] = pc[u]
  BY DEF Moves, Inv, TypeOK
<1>2. \A u \in Threads \ {t} : Stays(u)
  BY <1>1 DEF Stays
<1>3. Passes(t)
  <2>1. steady[t] => op'[t] # "none"
    BY DEF Quiet, Transferring, Transfers
  <2>2. QED
    BY <1>1, <2>1 DEF Passes, Quiet, Transferring, Transfers, SetsTimeout
<1>4. TimeoutHolds'
  BY <1>1, <1>2, HoldsFrame DEF Stays
<1>5. QED
  BY <1>2, <1>3, <1>4, QuietStep

LEMMA SelectInv ==
  ASSUME Inv, NEW t \in Threads, Select(t)
  PROVE  Inv'
<1> DEFINE s == on[t]
<1>1. /\ pc[t] = "select" /\ CallOK(t) /\ op[t] \in Transferring /\ op[t] \in Quiet
      /\ on[t] \in Objects /\ alive[s]
  <2>1. pc[t] = "select" /\ CallOK(t)
    BY DEF Select, Inv, CallsInv
  <2>2. QED
    BY <2>1 DEF CallOK, Transferring, Transfers, Quiet
<1>2. {"wait", "load"} \subseteq Places
  BY DEF Places
<1>3. CASE /\ timeout[s] = "some" /\ fd[s] # 0 /\ fds[fd[s]] \in Files
           /\ Moves(t, "wait") /\ at' = [at EXCEPT ![t] = fds[fd[s]]]
           /\ timed' = [timed EXCEPT ![t] = TRUE]
           /\ UNCHANGED <<op, on, lfd, lsession, left, steady>>
           /\ UNCHANGED <<object, kernel, sdp, past>>
  <2>1. fds[fd[s]] \in Objects
    BY <1>3 DEF Files, Inv, TypeOK
  <2>2. TypeOK'
    BY <1>2, <1>3, <2>1 DEF Inv, TypeOK, Moves, object, kernel, sdp, past
  <2>3. pc'[t] = "wait" /\ \A u \in Threads \ {t} : at'[u] = at[u] /\ timed'[u] = timed[u]
    BY <1>3 DEF Moves, Inv, TypeOK
  <2>4. CallOK(t)'
    BY <1>1, <1>3, <2>3 DEF CallOK, object
  <2>5. QED
    BY <1>1, <1>2, <1>3, <2>2, <2>3, <2>4, QuietGoes DEF Inv, object, kernel, past
<1>4. CASE Goes(t, "load") /\ UNCHANGED <<object, kernel, sdp, past>>
  <2>1. TypeOK'
    BY <1>2, <1>4 DEF Inv, TypeOK, Goes, Moves, object, kernel, sdp, thread, past
  <2>2. pc'[t] = "load"
    BY <1>4 DEF Goes, Moves, Inv, TypeOK
  <2>3. CallOK(t)'
    BY <1>1, <1>4, <2>2 DEF CallOK, object, Goes, thread
  <2>4. QED
    BY <1>1, <1>2, <1>4, <2>1, <2>3, QuietGoes DEF Inv, object, kernel, past, Goes, thread
<1>5. QED
  BY <1>3, <1>4 DEF Select

\* A step of a call that goes on and leaves all else, or that ends it.
LEMMA QuietGoesInv ==
  ASSUME Inv, NEW t \in Threads, NEW where \in Places, Goes(t, where), where # "blocked",
         op[t] \in Quiet, where \in {"select", "wait", "load", "syscall"} \/ op[t] = "listen",
         op[t] = "listen" => where \in {"load", "syscall", "listened"},
         UNCHANGED <<object, kernel, sdp, past>>
  PROVE  Inv'
<1>1. TypeOK'
  BY DEF Inv, TypeOK, Goes, Moves, object, kernel, sdp, thread, past
<1>2. pc'[t] = where /\ CallOK(t)
  BY DEF Goes, Moves, Inv, TypeOK, CallsInv
<1>3. CallOK(t)'
  BY <1>2 DEF CallOK, object, Goes, thread, Quiet, Transferring, Transfers
<1>4. QED
  BY <1>1, <1>3, QuietGoes DEF Inv, object, kernel, past, Goes, thread

LEMMA QuietEndsInv ==
  ASSUME Inv, NEW t \in Threads, Ends(t), op[t] \in Quiet,
         UNCHANGED <<object, kernel, sdp, past>>
  PROVE  Inv'
<1>1. TypeOK'
  BY EndsIs DEF Inv, TypeOK, object, kernel, sdp, past
<1>2. QED
  BY <1>1, QuietEnds DEF Inv, object, kernel, past

LEMMA SelectReadyInv ==
  ASSUME Inv, NEW t \in Threads, SelectReady(t)
  PROVE  Inv'
<1>1. pc[t] = "wait" /\ CallOK(t) /\ "load" \in Places
  BY DEF SelectReady, Inv, CallsInv, Places
<1>2. op[t] \in Quiet /\ op[t] # "listen"
  BY <1>1 DEF CallOK, Quiet, Transferring, Transfers
<1>3. QED
  BY <1>1, <1>2, QuietGoesInv DEF SelectReady

LEMMA SelectTimesOutInv ==
  ASSUME Inv, NEW t \in Threads, SelectTimesOut(t)
  PROVE  Inv'
<1>1. pc[t] = "wait" /\ CallOK(t) /\ "load" \in Places
  BY DEF SelectTimesOut, Inv, CallsInv, Places
<1>2. op[t] \in Quiet /\ op[t] # "listen"
  BY <1>1 DEF CallOK, Quiet, Transferring, Transfers
<1>3. QED
  BY <1>1, <1>2, QuietGoesInv, QuietEndsInv DEF SelectTimesOut

\* Load is also a step of those that set a timeout.
LEMMA LoadInv ==
  ASSUME Inv, NEW t \in Threads, Load(t)
  PROVE  Inv'
<1>1. /\ pc[t] = "load" /\ lfd' = [lfd EXCEPT ![t] = fd[on[t]]]
      /\ Moves(t, "syscall")
      /\ UNCHANGED <<op, on, at, lsession, left, timed, steady>>
      /\ UNCHANGED <<object, kernel, sdp, past>>
  BY DEF Load
<1>2. CallOK(t) /\ "syscall" \in Places
  BY DEF Inv, CallsInv, Places
<1>3. on[t] \in Objects /\ fd[on[t]] \in Fds \cup {0}
  BY <1>1, <1>2 DEF CallOK, Transferring, Transfers, SetsTimeout, Inv, TypeOK
<1>4. /\ pc'[t] = "syscall" /\ lfd'[t] = fd[on[t]]
      /\ \A u \in Threads \ {t} : pc'[u] = pc[u] /\ lfd'[u] = lfd[u]
  BY <1>1, <1>3 DEF Moves, Inv, TypeOK
<1>5. TypeOK'
  BY <1>1, <1>2, <1>3 DEF Inv, TypeOK, Moves, object, kernel, sdp, past
<1>6. CallsInv'
  <2>1. CallOK(t)'
    BY <1>1, <1>2, <1>4 DEF CallOK, object
  <2>2. QED
    BY <1>1, <1>4, <2>1, CallsFrame DEF Stays, object
<1>7. FdsInv'
  BY <1>1, <1>4, FdsFrame DEF object, kernel
<1>8. OnceInv'
  BY <1>1, OnceFrame DEF past
<1>9. OwnersInv'
  BY <1>1, <1>4, OwnersFrame DEF object, sdp
<1>10. SessionsInv'
  BY <1>1, <1>4, <1>6, SessionsFrame DEF object, past, SdpPlaces
<1>11. TimeoutsInv'
  <2>1. \A u \in Threads : steady[u] => op[u] # "none"
    BY DEF Inv, TimeoutsInv, SteadyOK
  <2>2. \A u \in Threads : SteadyOK(u)'
    BY <1>1, <2>1, SteadyFrame DEF object, kernel
  <2>3. TimeoutHolds'
    BY <1>1, <1>4, HoldsFrame DEF kernel, past
  <2>4. ASSUME NEW s \in Objects, Alone(s)' PROVE TimeoutOK(s)'
    <3>1. file[s] # "none"
      BY <1>1, <2>4 DEF Alone, kernel
    <3>2. \A u \in Threads : /\ SetsOf(u, s)' <=> SetsOf(u, s)
                             /\ SetsOf(u, s) => on[u] = s
      BY <1>1 DEF SetsOf
    <3>3. QED
      BY <1>1, <1>4, <1>6, <2>4, <3>1, <3>2, AloneFrame DEF object, kernel, past
  <2>5. QED
    BY <2>2, <2>3, <2>4 DEF TimeoutsInv
<1>12. QED
  BY <1>5, <1>6, <1>7, <1>8, <1>9, <1>10, <1>11 DEF Inv

LEMMA CallWouldBlockInv ==
  ASSUME Inv, NEW t \in Threads, CallWouldBlock(t)
  PROVE  Inv'
<1>1. op[t] \in Transferring /\ op[t] \in Quiet /\ op[t] # "listen" /\ CallOK(t)
  BY DEF CallWouldBlock, Quiet, Transferring, Transfers, Inv, CallsInv
<1>2. CASE Ends(t) /\ UNCHANGED <<object, kernel, sdp, past>>
  BY <1>1, <1>2, QuietEndsInv
<1>3. CASE /\ Moves(t, "select") /\ op' = [op EXCEPT ![t] = "reconnect"]
           /\ UNCHANGED <<on, lfd, at, lsession, left, timed, steady>>
           /\ UNCHANGED <<object, kernel, sdp, past>>
  <2>1. "reconnect" \in Transferring /\ "reconnect" \in Quiet /\ "reconnect" \in Ops
    BY DEF Quiet, Transferring, Ops
  <2>2. "select" \in Places
    BY DEF Places
  <2>3. TypeOK'
    BY <1>3, <2>1, <2>2 DEF Inv, TypeOK, Moves, object, kernel, sdp, past
  <2>4. /\ pc'[t] = "select" /\ op'[t] = "reconnect"
        /\ \A u \in Threads \ {t} : op'[u] = op[u]
    BY <1>3 DEF Moves, Inv, TypeOK
  <2>5. CallOK(t)'
    BY <1>1, <1>3, <2>1, <2>4 DEF CallOK, object, Transferring, Transfers
  <2>6. QED
    BY <1>1, <1>3, <2>1, <2>2, <2>3, <2>4, <2>5, QuietGoes DEF Inv, object, kernel, past
<1>4. QED
  BY <1>2, <1>3 DEF CallWouldBlock

\* A call that blocks where select has waited is one whose timeout has been
\* changed: the file of the others does not block.
LEMMA CallBlocksInv ==
  ASSUME Inv, NEW t \in Threads, CallBlocks(t)
  PROVE  Inv'
<1>1. /\ pc[t] = "syscall" /\ op[t] \in Transferring
      /\ FileOf(t) \in Files /\ ~nonblock[FileOf(t)]
      /\ Moves(t, "blocked") /\ at' = [at EXCEPT ![t] = FileOf(t)]
      /\ UNCHANGED <<op, on, lfd, lsession, left, timed, steady>>
      /\ UNCHANGED <<object, kernel, sdp, past>>
  BY DEF CallBlocks
<1>2. /\ CallOK(t) /\ op[t] \in Quiet /\ op[t] \notin SetsTimeout /\ "blocked" \in Places
      /\ op[t] # "none"
  BY <1>1 DEF Inv, CallsInv, Quiet, Transferring, Transfers, SetsTimeout, Places
<1>3. FileOf(t) \in Objects /\ lfd[t] \in Fds /\ FileOf(t) = fds[lfd[t]]
  BY <1>1, NamesAre DEF FileOf, Files, Inv, TypeOK
<1>4. /\ pc'[t] = "blocked" /\ at'[t] = FileOf(t)
      /\ \A u \in Threads \ {t} : pc'[u] = pc[u] /\ at'[u] = at[u]
  BY <1>1 DEF Moves, Inv, TypeOK
<1>5. TypeOK'
  BY <1>1, <1>2, <1>3 DEF Inv, TypeOK, Moves, object, kernel, sdp, past
<1>6. CallOK(t)'
  BY <1>1, <1>2, <1>4 DEF CallOK, object
<1>7. \A u \in Threads \ {t} : Stays(u)
  BY <1>1, <1>4 DEF Stays
<1>8. TimeoutHolds'
  <2> SUFFICES ASSUME NEW u \in Threads,
                      (timed[u] /\ steady[u] /\ pc[u] = "blocked" /\ at[u] = file[on[u]])'
               PROVE  (on[u] \in overlapped \/ Shared(file[on[u]]))'
    BY DEF TimeoutHolds
  <2>1. CASE u # t
    BY <1>1, <1>4, <2>1 DEF Inv, TimeoutsInv, TimeoutHolds, Shared, kernel, past
  <2>2. CASE u = t
    <3> SUFFICES ASSUME on[t] \notin overlapped, ~Shared(file[on[t]]) PROVE FALSE
      BY <1>1, <2>2 DEF Shared, kernel, past
    <3>1. /\ timed[t] /\ steady[t] /\ FileOf(t) = file[on[t]] /\ on[t] \in Objects
      BY <1>1, <1>2, <1>4, <2>2 DEF kernel, CallOK
    <3>2. Alone(on[t]) /\ file[on[t]] \in Objects
      BY <1>3, <3>1, NamesAre DEF Alone
    <3>3. /\ timeout[on[t]] = "some" /\ ~UnderWay(on[t], SetsTimeout)
      BY <1>2, <3>1 DEF Inv, TimeoutsInv, SteadyOK
    <3>4. nonblock[file[on[t]]]
      <4>1. TimeoutOK(on[t])
        BY <3>1, <3>2 DEF Inv, TimeoutsInv
      <4>2. QED
        BY <1>3, <3>1, <3>3, <4>1 DEF TimeoutOK
    <3>5. QED
      BY <1>1, <3>1, <3>4
  <2>3. QED
    BY <2>1, <2>2
<1>9. Passes(t)
  BY <1>1, <1>2 DEF Passes
<1>10. CallsInv' /\ FdsInv' /\ OnceInv' /\ OwnersInv' /\ SessionsInv' /\ TimeoutsInv'
  BY <1>1, <1>2, <1>6, <1>7, <1>8, <1>9, QuietStep DEF object, kernel, past
<1>11. QED
  BY <1>5, <1>10 DEF Inv

LEMMA CallTransfersInv ==
  ASSUME Inv, NEW t \in Threads, CallTransfers(t)
  PROVE  Inv'
<1>1. PICK f \in Files : \E r \in BOOLEAN : ready' = [ready EXCEPT ![f] = r]
  BY DEF CallTransfers
<1>2. ready' \in [Objects -> BOOLEAN]
  BY <1>1 DEF Inv, TypeOK
<1>3. /\ op[t] \in Transferring /\ op[t] \in Quiet /\ CallOK(t)
      /\ UNCHANGED <<object, file, fds, nonblock, sdp, past>>
  BY DEF CallTransfers, Quiet, Inv, CallsInv
<1>4. CASE Ends(t)
  <2>1. TypeOK'
    BY <1>2, <1>3, <1>4, EndsIs DEF Inv, TypeOK, object, sdp, past
  <2>2. QED
    BY <1>3, <1>4, <2>1, QuietEnds DEF Inv, object, past
<1>5. CASE /\ left[t] > 1 /\ Moves(t, "select") /\ left' = [left EXCEPT ![t] = left[t] - 1]
           /\ UNCHANGED <<op, on, lfd, at, lsession, timed, steady>>
  <2>1. "select" \in Places
    BY DEF Places
  <2>2. left[t] - 1 \in 0..MaxChunks
    BY <1>5, NamesAre DEF Inv, TypeOK
  <2>3. TypeOK'
    BY <1>2, <1>3, <1>5, <2>1, <2>2 DEF Inv, TypeOK, Moves, object, sdp, past
  <2>4. pc'[t] = "select"
    BY <1>5 DEF Moves, Inv, TypeOK
  <2>5. CallOK(t)'
    BY <1>3, <1>5, <2>4 DEF CallOK, object, Transferring, Transfers
  <2>6. QED
    BY <1>3, <1>5, <2>1, <2>3, <2>5, QuietGoes DEF Inv, object, past
<1>6. QED
  BY <1>4, <1>5 DEF CallTransfers

LEMMA CallListensInv ==
  ASSUME Inv, NEW t \in Threads, CallListens(t)
  PROVE  Inv'
<1>1. "listened" \in Places /\ op[t] \in Quiet
  BY DEF Places, CallListens, Quiet
<1>2. QED
  BY <1>1, QuietGoesInv DEF CallListens

LEMMA NoteListeningInv ==
  ASSUME Inv, NEW t \in Threads, NoteListening(t)
  PROVE  Inv'
<1>1. /\ pc[t] = "listened" /\ Ends(t)
      /\ listening' = [listening EXCEPT ![on[t]] = TRUE]
      /\ UNCHANGED <<alive, fd, timeout, session, handle, kernel, sdp, past>>
  BY DEF NoteListening
<1>2. op[t] \in Quiet
  BY <1>1 DEF Inv, CallsInv, CallOK, Quiet
<1>3. TypeOK'
  BY <1>1, EndsIs DEF Inv, TypeOK, kernel, sdp, past
<1>4. QED
  BY <1>1, <1>2, <1>3, QuietEnds DEF Inv, kernel, past

-----------------------------------------------------------------------------
(***************************************************************************)
(* New objects: accept and dup.                                            *)
(***************************************************************************)
Ended(u) ==
  /\ op[u] \in Quiet /\ pc[u] # "closing" /\ pc'[u] = "idle" /\ op'[u] = "none" /\ on'[u] = "none"
  /\ lsession'[u] = 0 /\ timed'[u] = FALSE /\ steady'[u] = FALSE

LEMMA NewSocketIs ==
  ASSUME Inv, NEW o \in Objects, NEW d \in Fds, NEW f \in Objects, NewSocket(o, d, f)
  PROVE  /\ file[o] = "none" /\ fds[d] = "free" /\ ~alive[o] /\ fd[o] = 0
         /\ alive'[o] /\ fd'[o] = d /\ timeout'[o] = DefaultTimeout /\ file'[o] = f
         /\ fds'[d] = f
         /\ \A s \in Objects \ {o} : /\ alive'[s] = alive[s] /\ fd'[s] = fd[s]
                                     /\ timeout'[s] = timeout[s] /\ file'[s] = file[s]
         /\ \A e \in Fds \ {d} : fds'[e] = fds[e]
         /\ nonblock'[f] = (nonblock[f] \/ DefaultTimeout # "none")
         /\ \A g \in Objects \ {f} : nonblock'[g] = nonblock[g]
         /\ \A u \in Threads : on[u] # o
         /\ UNCHANGED <<listening, session, handle>>
<1>1. file[o] = "none" /\ fds[d] = "free"
  BY DEF NewSocket, Lowest
<1>2. ~alive[o] /\ fd[o] = 0
  BY <1>1 DEF Inv, FdsInv
<1>3. \A u \in Threads : on[u] # o
  BY <1>2, NamesAre DEF Inv, CallsInv, CallOK
<1>4. QED
  BY <1>1, <1>2, <1>3 DEF NewSocket, Inv, TypeOK

LEMMA NewSocketFds ==
  ASSUME Inv, NEW o \in Objects, NEW d \in Fds, NEW f \in Objects, NewSocket(o, d, f),
         f = o \/ file[f] = f, \A u \in Threads : Stays(u) \/ Ended(u)
  PROVE  FdsInv'
<1>1. /\ file[o] = "none" /\ fds[d] = "free" /\ ~alive[o] /\ fd[o] = 0
      /\ alive'[o] /\ fd'[o] = d /\ file'[o] = f
      /\ fds'[d] = f
      /\ \A s \in Objects \ {o} : /\ alive'[s] = alive[s] /\ fd'[s] = fd[s]
                                  /\ file'[s] = file[s]
      /\ \A e \in Fds \ {d} : fds'[e] = fds[e]
      /\ \A u \in Threads : on[u] # o
  BY NewSocketIs
<1>2. \A u \in Threads : pc'[u] = "closing" => Stays(u)
  BY DEF Ended
<1>3. \A u \in Threads : \A e : Closes(u, e)' <=> Closes(u, e)
  BY DEF Closes, Stays, Ended
<1>4. /\ d # 0 /\ \A s \in Objects : fd[s] # d
      /\ \A u \in Threads : ~Closes(u, d)
  <2>1. \A s \in Objects : fd[s] = d => fds[d] = file[s] /\ file[s] # "none"
    BY NamesAre DEF Inv, FdsInv, ClosesItsOwn
  <2>2. \A s \in Objects : file[s] # "none" => file[s] \in Objects
    BY DEF Inv, TypeOK
  <2>3. \A u \in Threads : Closes(u, d) => fds[d] = file[on[u]] /\ on[u] \in Objects
                                           /\ file[on[u]] # "none"
    BY DEF Inv, FdsInv, ClosesItsOwn, Closes, CallsInv, CallOK
  <2>4. QED
    BY <1>1, <2>1, <2>2, <2>3, NamesAre
<1>5. \A s \in Objects : /\ alive'[s] => file'[s] # "none"
                         /\ fd'[s] # 0 => alive'[s]
                         /\ file'[s] # "none" => file'[file'[s]] = file'[s]
  <2>1. \A s \in Objects : /\ alive[s] => file[s] # "none"
                           /\ fd[s] # 0 => alive[s]
                           /\ file[s] # "none" => file[s] \in Objects /\ file[file[s]] = file[s]
    BY DEF Inv, FdsInv, TypeOK
  <2>2. QED
    BY <1>1, <2>1, NamesAre
<1>6. ClosesItsOwn'
  <2>1. \A s \in Objects : fd'[s] # 0 => fds'[fd'[s]] = file'[s]
    BY <1>1, <1>4 DEF Inv, TypeOK, FdsInv, ClosesItsOwn
  <2>2. ASSUME NEW u \in Threads, pc'[u] = "closing" PROVE fds'[lfd'[u]] = file'[on'[u]]
    <3>1. Stays(u) /\ pc[u] = "closing" /\ lfd[u] # d /\ lfd[u] \in Fds
      BY <1>2, <1>4, <2>2 DEF Stays, Closes, Inv, FdsInv, TypeOK
    <3>2. on[u] \in Objects
      BY <3>1 DEF Inv, CallsInv, CallOK
    <3>3. QED
      BY <1>1, <3>1, <3>2 DEF Stays, Inv, FdsInv, ClosesItsOwn
  <2>3. QED
    BY <2>1, <2>2 DEF ClosesItsOwn
<1>7. \A u \in Threads : ~Closes(u, 0)'
  BY <1>3 DEF Inv, FdsInv
<1>8. \A s, v \in Objects : fd'[s] # 0 /\ fd'[s] = fd'[v] => s = v
  BY <1>1, <1>4 DEF Inv, FdsInv
<1>9. \A u \in Threads, s \in Objects : ~Closes(u, fd[s])'
  BY <1>1, <1>3, <1>4 DEF Inv, FdsInv, Closes
<1>10. \A u, v \in Threads : Closes(u, lfd[v])' /\ pc'[v] = "closing" => u = v
  BY <1>2 DEF Inv, FdsInv, Closes, Stays, Ended
<1>11. \A e \in Fds : fds'[e] \in Objects =>
         (\E s \in Objects : fd'[s] = e) \/ \E u \in Threads : Closes(u, e)'
  <2>1. ASSUME NEW e \in Fds, e # d, fds'[e] \in Objects
        PROVE  (\E s \in Objects : fd'[s] = e) \/ \E u \in Threads : Closes(u, e)'
    <3>1. (\E s \in Objects : fd[s] = e) \/ \E u \in Threads : Closes(u, e)
      BY <1>1, <2>1 DEF Inv, FdsInv
    <3>2. \A s \in Objects : fd[s] = e => s # o
      BY <1>1, NamesAre
    <3>3. QED
      BY <1>1, <1>3, <3>1, <3>2
  <2>2. QED
    BY <1>1, <2>1
<1>12. QED
  BY <1>5, <1>6, <1>7, <1>8, <1>9, <1>10, <1>11 DEF FdsInv

LEMMA NewSocketTimeouts ==
  ASSUME Inv, CallsInv', NEW o \in Objects, NEW d \in Fds, NEW f \in Objects, NewSocket(o, d, f),
         overlapped' = overlapped, \A u \in Threads : Stays(u) \/ Ended(u)
  PROVE  TimeoutsInv'
<1>1. /\ file[o] = "none" /\ file'[o] = f /\ fds'[d] = f
      /\ timeout'[o] = DefaultTimeout
      /\ \A s \in Objects \ {o} : timeout'[s] = timeout[s] /\ file'[s] = file[s] /\ fd'[s] = fd[s]
      /\ \A e \in Fds \ {d} : fds'[e] = fds[e]
      /\ nonblock'[f] = (nonblock[f] \/ DefaultTimeout # "none")
      /\ \A g \in Objects \ {f} : nonblock'[g] = nonblock[g]
      /\ \A u \in Threads : on[u] # o
  BY NewSocketIs
<1>2. \A u \in Threads : op[u] # "none" => on[u] \in Objects \ {o}
  BY <1>1 DEF Inv, CallsInv, CallOK
<1>3. \A u \in Threads : op'[u] # "none" => Stays(u)
  BY DEF Ended
<1>4. \A u \in Threads : SteadyOK(u)'
  <2> SUFFICES ASSUME NEW u \in Threads, steady'[u] PROVE SteadyOK(u)'
    BY DEF SteadyOK
  <2>1. Stays(u) /\ steady[u] /\ SteadyOK(u)
    BY DEF Stays, Ended, Inv, TimeoutsInv
  <2>2. op[u] # "none" /\ on[u] \in Objects \ {o} /\ op'[u] = op[u] /\ on'[u] = on[u]
    BY <1>2, <2>1 DEF SteadyOK, Stays
  <2>3. UnderWay(on[u], SetsTimeout)' => UnderWay(on[u], SetsTimeout)
    BY <1>1, <1>2, <1>3, <2>2 DEF UnderWay, Stays, SetsTimeout
  <2>4. QED
    BY <1>1, <2>1, <2>2, <2>3 DEF SteadyOK, Stays
<1>5. TimeoutHolds'
  <2> SUFFICES ASSUME NEW u \in Threads,
                      (timed[u] /\ steady[u] /\ pc[u] = "blocked" /\ at[u] = file[on[u]])'
               PROVE  (on[u] \in overlapped \/ Shared(file[on[u]]))'
    BY DEF TimeoutHolds
  <2>1. Stays(u) /\ pc[u] = "blocked"
    BY DEF Stays, Ended
  <2>2. on[u] \in Objects \ {o} /\ file[on[u]] # "none"
    <3>1. CallOK(u) /\ op[u] # "none"
      BY <2>1 DEF Inv, CallsInv, CallOK, Transferring, Transfers
    <3>2. QED
      BY <1>2, <3>1 DEF CallOK, Inv, FdsInv
  <2>3. on[u] \in overlapped \/ Shared(file[on[u]])
    BY <1>1, <2>1, <2>2 DEF Inv, TimeoutsInv, TimeoutHolds, Stays
  <2>4. Shared(file[on[u]]) => Shared(file[on[u]])'
    BY <1>1, <2>1, <2>2 DEF Shared, Stays
  <2>5. QED
    BY <2>1, <2>3, <2>4 DEF Stays
<1>6. ASSUME NEW s \in Objects, Alone(s)' PROVE TimeoutOK(s)'
  <2>1. CASE s = o
    <3>1. \A u \in Threads : on'[u] # o
      BY <1>1, NamesAre DEF Stays, Ended
    <3>2. QED
      BY <1>1, <2>1, <3>1 DEF TimeoutOK
  <2>2. CASE s # o
    <3>1. file'[s] = file[s] /\ file[s] # "none" /\ file[s] \in Objects
      BY <1>1, <1>6, <2>2 DEF Alone, Inv, TypeOK
    <3>2. f # file[s]
      BY <1>1, <1>6, <2>2, <3>1 DEF Alone, Shared
    <3>3. \A u \in Threads : SetsOf(u, s)' <=> SetsOf(u, s)
      BY DEF SetsOf, Stays, Ended, Quiet, Transferring, Transfers, SetsTimeout
    <3>4. \A u \in Threads : SetsOf(u, s) => Stays(u)
      BY DEF SetsOf, Ended, Quiet, Transferring, Transfers, SetsTimeout
    <3>5. /\ \A x \in Objects : file[x] # "none" => file'[x] = file[x]
          /\ timeout'[s] = timeout[s] /\ nonblock'[file[s]] = nonblock[file[s]]
          /\ \A e \in Fds : fds'[e] = fds[e] \/ fds'[e] # file[s]
          /\ fd'[s] = fd[s]
      BY <1>1, <2>2, <3>1, <3>2
    <3>6. QED
      BY <1>6, <3>1, <3>3, <3>4, <3>5, AloneFrame DEF Stays
  <2>3. QED
    BY <2>1, <2>2
<1>7. QED
  BY <1>4, <1>5, <1>6 DEF TimeoutsInv

LEMMA NewSocketStep ==
  ASSUME Inv, NEW o \in Objects, NEW d \in Fds, NEW f \in Objects, NewSocket(o, d, f),
         f = o \/ file[f] = f, \A u \in Threads : Stays(u) \/ Ended(u),
         UNCHANGED <<sdp, overlapped>>
  PROVE  /\ CallsInv' /\ FdsInv' /\ OnceInv' /\ OwnersInv' /\ SessionsInv' /\ TimeoutsInv'
         /\ alive' \in [Objects -> BOOLEAN] /\ fd' \in [Objects -> Fds \cup {0}]
         /\ timeout' \in [Objects -> Timeouts] /\ file' \in [Objects -> Objects \cup {"none"}]
         /\ fds' \in [Fds -> Objects \cup {"free", "other"}]
         /\ nonblock' \in [Objects -> BOOLEAN]
         /\ UNCHANGED <<listening, session, handle>>
<1>1. /\ alive' \in [Objects -> BOOLEAN] /\ fd' \in [Objects -> Fds \cup {0}]
      /\ timeout' \in [Objects -> Timeouts] /\ file' \in [Objects -> Objects \cup {"none"}]
      /\ fds' \in [Fds -> Objects \cup {"free", "other"}]
      /\ nonblock' \in [Objects -> BOOLEAN]
      /\ UNCHANGED <<listening, session, handle>>
  BY NamesAre DEF NewSocket, Inv, TypeOK
<1>2. /\ \A s \in Objects : alive[s] => alive'[s]
      /\ \A s \in Objects : fd[s] # 0 => fd'[s] # 0
  BY NewSocketIs
<1>3. CallsInv'
  <2>1. \A u \in Threads : Ended(u) => CallOK(u)'
    BY DEF Ended, CallOK
  <2>2. QED
    BY <1>2, <2>1, CallsFrame
<1>4. OnceInv'
  BY OnceFrame DEF Stays, Ended, Configures, SetsTimeout
<1>5. OwnersInv'
  BY <1>1, OwnersFrame DEF Stays, Ended, sdp
<1>6. SessionsInv'
  BY <1>1, <1>2, <1>3, SessionsFrame
     DEF Stays, Ended, SdpOps, Quiet, Transferring, Transfers
<1>7. QED
  BY <1>1, <1>3, <1>4, <1>5, <1>6, NewSocketFds, NewSocketTimeouts

LEMMA CallAcceptsInv ==
  ASSUME Inv, NEW t \in Threads, CallAccepts(t)
  PROVE  Inv'
<1>1. PICK f \in Files : \E r \in BOOLEAN : ready' = [ready EXCEPT ![f] = r]
  BY DEF CallAccepts
<1>2. ready' \in [Objects -> BOOLEAN]
  BY <1>1 DEF Inv, TypeOK
<1>3. /\ op[t] = "accept" /\ op[t] \in Quiet /\ pc[t] # "closing" /\ Ends(t)
      /\ UNCHANGED <<sdp, past>>
  BY DEF CallAccepts, Quiet, Transferring, Transfers, Acting
<1>4. CASE UNCHANGED <<object, file, fds, nonblock>>
  <2>1. TypeOK'
    BY <1>2, <1>3, <1>4, EndsIs DEF Inv, TypeOK, object, sdp, past
  <2>2. QED
    BY <1>3, <1>4, <2>1, QuietEnds DEF Inv, object, past
<1>5. ASSUME NEW o \in Objects, NEW d \in Fds, NewSocket(o, d, o)
      PROVE  Inv'
  <2>1. \A u \in Threads : Stays(u) \/ Ended(u)
    <3>1. Ended(t)
      BY <1>3, EndsIs DEF Inv, Ended
    <3>2. \A u \in Threads \ {t} : Stays(u)
      BY <1>3, EndsIs DEF Inv, Stays
    <3>3. QED
      BY <3>1, <3>2
  <2>2. UNCHANGED <<sdp, overlapped>>
    BY <1>3 DEF past
  <2>3. /\ CallsInv' /\ FdsInv' /\ OnceInv' /\ OwnersInv' /\ SessionsInv' /\ TimeoutsInv'
        /\ alive' \in [Objects -> BOOLEAN] /\ fd' \in [Objects -> Fds \cup {0}]
        /\ timeout' \in [Objects -> Timeouts] /\ file' \in [Objects -> Objects \cup {"none"}]
        /\ fds' \in [Fds -> Objects \cup {"free", "other"}]
        /\ nonblock' \in [Objects -> BOOLEAN]
        /\ UNCHANGED <<listening, session, handle>>
    BY <1>5, <2>1, <2>2, NewSocketStep
  <2>4. TypeOK'
    BY <1>2, <1>3, <2>3, EndsIs DEF Inv, TypeOK, sdp, past
  <2>5. QED
    BY <2>3, <2>4 DEF Inv
<1>6. QED
  BY <1>4, <1>5 DEF CallAccepts

LEMMA DupInv ==
  ASSUME Inv, NEW s \in Objects, Dup(s)
  PROVE  Inv'
<1> DEFINE f == fds[fd[s]]
<1>1. f = file[s] /\ f \in Objects /\ file[f] = f
  BY NamesAre DEF Dup, Inv, TypeOK, FdsInv, ClosesItsOwn
<1> HIDE DEF f
<1>2. PICK o \in Objects, d \in Fds : NewSocket(o, d, f)
  BY DEF Dup, f
<1>3. UNCHANGED <<ready, sdp, pc, thread, past>>
  BY DEF Dup
<1>4. \A u \in Threads : Stays(u)
  BY <1>3 DEF thread, Stays
<1>5. /\ CallsInv' /\ FdsInv' /\ OnceInv' /\ OwnersInv' /\ SessionsInv' /\ TimeoutsInv'
      /\ alive' \in [Objects -> BOOLEAN] /\ fd' \in [Objects -> Fds \cup {0}]
      /\ timeout' \in [Objects -> Timeouts] /\ file' \in [Objects -> Objects \cup {"none"}]
      /\ fds' \in [Fds -> Objects \cup {"free", "other"}]
      /\ nonblock' \in [Objects -> BOOLEAN]
      /\ UNCHANGED <<listening, session, handle>>
  BY <1>1, <1>2, <1>3, <1>4, NewSocketStep DEF past
<1>6. TypeOK'
  BY <1>3, <1>5 DEF Inv, TypeOK, sdp, thread, past
<1>7. QED
  BY <1>5, <1>6 DEF Inv

-----------------------------------------------------------------------------
(***************************************************************************)
(* setblocking and settimeout.                                             *)
(***************************************************************************)
LEMMA OnlyOfItsFile ==
  ASSUME Inv, NEW s \in Objects, Alone(s)
  PROVE  /\ file[s] \in Objects
         /\ \A x \in Objects : file[x] = file[s] => x = s
  BY DEF Alone, Shared, Inv, TypeOK

LEMMA SetTimeoutInv ==
  ASSUME Inv, NEW t \in Threads, NEW s \in Objects, SetTimeout(t, s)
  PROVE  Inv'
<1>1. PICK v \in Timeouts :
        /\ Starts(t, s, IF v = "none" THEN "block" ELSE "unblock", "load", 0, 0)
        /\ timeout' = [timeout EXCEPT ![s] = v]
        /\ UNCHANGED <<alive, fd, listening, session, handle, kernel, sdp>>
  BY DEF SetTimeout
<1> DEFINE o == IF v = "none" THEN "block" ELSE "unblock"
<1>2. /\ o \in SetsTimeout /\ o \in Ops /\ o \in Configures /\ o \notin SdpOps /\ o # "none"
      /\ o \in Configures /\ "load" \in Places /\ 0 \in 0..MaxChunks
      /\ o = "block" <=> v = "none"
  BY NamesAre DEF SetsTimeout, Ops, Configures, SdpOps, Places
<1>3. Starts(t, s, o, "load", 0, 0)
  BY <1>1
<1> HIDE DEF o
<1>4. /\ alive[s] /\ pc[t] = "idle" /\ op[t] = "none" /\ on[t] = "none" /\ ~timed[t]
      /\ pc'[t] = "load" /\ op'[t] = o /\ on'[t] = s
      /\ \A u \in Threads \ {t} : /\ pc'[u] = pc[u] /\ op'[u] = op[u] /\ on'[u] = on[u]
                                  /\ lfd'[u] = lfd[u]
      /\ \A u \in Threads : steady'[u] = IF u = t THEN ~UnderWay(s, SetsTimeout)
                              ELSE steady[u] /\ (o \in SetsTimeout => file[on[u]] # file[s])
      /\ UNCHANGED <<at, lsession, timed>>
      /\ overlapped \subseteq overlapped'
      /\ o \in Configures /\ UnderWay(s, Configures) => s \in overlapped'
  BY <1>2, <1>3, StartsIs
<1>5. TypeOK'
  <2>1. /\ overlapped' \subseteq Objects /\ calls' \in Nat
        /\ pc' \in [Threads -> Places] /\ op' \in [Threads -> Ops \cup {"none"}]
        /\ on' \in [Threads -> Objects \cup {"none"}] /\ lfd' \in [Threads -> Fds \cup {0}]
        /\ left' \in [Threads -> 0..MaxChunks] /\ steady' \in [Threads -> BOOLEAN]
    BY <1>2, <1>3, StartsIs
  <2>2. QED
    BY <1>1, <1>4, <2>1 DEF Inv, TypeOK, kernel, sdp
<1>6. \A u \in Threads \ {t} : Stays(u)
  BY <1>4 DEF Stays
<1>7. CallsInv'
  <2>1. CallOK(t)'
    BY <1>1, <1>2, <1>4 DEF CallOK
  <2>2. QED
    BY <1>1, <1>6, <2>1, CallsFrame
<1>8. FdsInv'
  BY <1>1, <1>4, FdsFrame DEF kernel
<1>9. OnceInv'
  BY <1>2, <1>4, OnceStarts
<1>10. OwnersInv'
  <2>1. lsession[t] = 0
    BY <1>4 DEF Inv, OwnersInv
  <2>2. QED
    BY <1>1, <1>4, <2>1, OwnersFrame DEF sdp
<1>11. SessionsInv'
  <2>1. op[t] \notin SdpOps
    BY <1>4 DEF SdpOps
  <2>2. QED
    BY <1>1, <1>2, <1>4, <1>6, <1>7, <2>1, SessionsFrame DEF Stays
<1>12. \A u \in Threads : SteadyOK(u)'
  <2> SUFFICES ASSUME NEW u \in Threads, steady'[u] PROVE SteadyOK(u)'
    BY DEF SteadyOK
  <2>1. CASE u = t
    BY <1>2, <1>4, <2>1 DEF SteadyOK
  <2>2. CASE u # t
    <3>1. /\ steady[u] /\ file[on[u]] # file[s] /\ op'[u] = op[u] /\ on'[u] = on[u]
          /\ timed'[u] = timed[u]
      BY <1>2, <1>4, <2>2
    <3>2. SteadyOK(u) /\ CallOK(u) /\ file' = file
      BY <1>1 DEF Inv, TimeoutsInv, CallsInv, kernel
    <3>3. on[u] \in Objects /\ timeout'[on[u]] = timeout[on[u]]
      BY <1>1, <3>1, <3>2 DEF SteadyOK, CallOK, Inv, TypeOK
    <3>4. UnderWay(on[u], SetsTimeout)' => UnderWay(on[u], SetsTimeout)
      BY <1>4, <3>1, <3>2 DEF UnderWay
    <3>5. QED
      BY <3>1, <3>2, <3>3, <3>4 DEF SteadyOK
  <2>3. QED
    BY <2>1, <2>2
<1>13. TimeoutHolds'
  BY <1>1, <1>4, HoldsFrame DEF kernel
<1>14. ASSUME NEW x \in Objects, Alone(x)' PROVE TimeoutOK(x)'
  <2>1. Alone(x) /\ x \notin overlapped' /\ file' = file /\ nonblock' = nonblock /\ fds' = fds
    BY <1>1, <1>4, <1>14 DEF Alone, Shared, kernel
  <2>2. CASE x = s
    <3>1. \A u \in Threads : SetsOf(u, s)' => u = t
      BY <1>2, <1>4, <2>1, <2>2 DEF SetsOf, UnderWay, Configures
    <3>2. UnderWay(s, SetsTimeout)'
      BY <1>2, <1>4 DEF UnderWay
    <3>3. timeout'[s] = v
      BY <1>1 DEF Inv, TypeOK
    <3>4. QED
      BY <1>2, <1>4, <2>2, <3>1, <3>2, <3>3 DEF TimeoutOK, SetsOf
  <2>3. CASE x # s
    <3>1. timeout'[x] = timeout[x] /\ fd' = fd
      BY <1>1, <2>3 DEF Inv, TypeOK
    <3>2. \A u \in Threads : /\ SetsOf(u, x)' <=> SetsOf(u, x)
                             /\ SetsOf(u, x) => Stays(u)
      BY <1>4, <1>6, <2>3 DEF SetsOf, SetsTimeout, Stays
    <3>3. QED
      BY <1>4, <1>7, <1>14, <2>1, <3>1, <3>2, AloneFrame DEF Stays, Alone
  <2>4. QED
    BY <2>2, <2>3
<1>15. QED
  BY <1>5, <1>7, <1>8, <1>9, <1>10, <1>11, <1>12, <1>13, <1>14 DEF Inv, TimeoutsInv

\* A call that sets the timeout has done so, or could not.
LEMMA SetsEnd ==
  ASSUME Inv, NEW t \in Threads, op[t] \in SetsTimeout, pc[t] = "syscall", Ends(t),
         UNCHANGED <<object, file, fds, ready, sdp>>,
         overlapped \subseteq overlapped', overlapped' \subseteq Objects,
         nonblock' \in [Objects -> BOOLEAN], calls' \in Nat,
         \A s \in Objects : Alone(s)' => TimeoutOK(s)'
  PROVE  Inv'
<1>1. /\ pc'[t] = "idle" /\ op'[t] = "none" /\ on'[t] = "none"
      /\ lsession'[t] = 0 /\ timed'[t] = FALSE /\ steady'[t] = FALSE
  BY EndsIs DEF Inv
<1>2. \A u \in Threads \ {t} : Stays(u)
  BY EndsIs DEF Inv, Stays
<1>3. op[t] \notin SdpOps /\ op'[t] \notin SdpOps /\ op'[t] \notin Configures
  BY <1>1 DEF SetsTimeout, SdpOps, Configures
<1>4. TypeOK'
  BY EndsIs DEF Inv, TypeOK, object, sdp
<1>5. CallsInv'
  <2>1. CallOK(t)'
    BY <1>1 DEF CallOK
  <2>2. QED
    BY <1>2, <2>1, CallsFrame DEF object
<1>6. FdsInv'
  BY <1>1, <1>2, FdsFrame DEF Stays, object
<1>7. OnceInv'
  BY <1>2, <1>3, OnceFrame DEF Stays
<1>8. OwnersInv'
  BY <1>1, <1>2, OwnersFrame DEF Stays, object, sdp
<1>9. SessionsInv'
  BY <1>2, <1>3, <1>5, SessionsFrame DEF Stays, object
<1>10. \A u \in Threads : SteadyOK(u)'
  <2>1. \A u \in Threads : steady[u] => op[u] # "none"
    BY DEF Inv, TimeoutsInv, SteadyOK
  <2>2. /\ \A u \in Threads : op'[u] \in SetsTimeout => op[u] \in SetsTimeout /\ on'[u] = on[u]
        /\ \A u \in Threads : steady'[u] => u # t
    BY <1>1, <1>2, <1>3 DEF Stays, Configures
  <2>3. QED
    BY <1>2, <2>1, <2>2, SteadyFrame DEF Stays, object
<1>11. TimeoutHolds'
  BY <1>1, <1>2, HoldsFrame DEF Stays
<1>12. QED
  BY <1>4, <1>5, <1>6, <1>7, <1>8, <1>9, <1>10, <1>11 DEF Inv, TimeoutsInv

\* It has read the descriptor that its object has.
LEMMA SetsItsOwn ==
  ASSUME Inv, NEW t \in Threads, NEW s \in Objects, Alone(s), SetsOf(t, s), pc[t] = "syscall",
         NEW d \in Fds, fds[d] = file[s]
  PROVE  lfd[t] = d /\ fd[s] = d /\ FileOf(t) = file[s]
<1>1. lfd[t] = fd[s]
  BY DEF Inv, TimeoutsInv, TimeoutOK, SetsOf
<1>2. fds[d] \in Objects
  BY OnlyOfItsFile
<1>3. CASE \E x \in Objects : fd[x] = d
  <2>1. PICK x \in Objects : fd[x] = d
    BY <1>3
  <2>2. file[x] = file[s]
    BY <2>1, NamesAre DEF Inv, FdsInv, ClosesItsOwn
  <2>3. QED
    BY <1>1, <2>1, <2>2, OnlyOfItsFile, NamesAre DEF FileOf
<1>4. CASE \E u \in Threads : Closes(u, d)
  <2>1. PICK u \in Threads : Closes(u, d)
    BY <1>4
  <2>2. CallOK(u) /\ pc[u] = "closing" /\ lfd[u] = d
    BY <2>1 DEF Inv, CallsInv, Closes
  <2>3. op[u] = "close" /\ on[u] \in Objects
    BY <2>2 DEF CallOK
  <2>4. file[on[u]] = file[s]
    BY <2>2 DEF Inv, FdsInv, ClosesItsOwn
  <2>5. on[u] = s
    BY <2>3, <2>4, OnlyOfItsFile
  <2>6. u = t
    BY <2>3, <2>5 DEF Inv, OnceInv, SetsOf, Configures, Alone
  <2>7. QED
    BY <2>2, <2>6
<1>5. QED
  BY <1>2, <1>3, <1>4 DEF Inv, FdsInv

LEMMA InternalSetBlockingInv ==
  ASSUME Inv, NEW t \in Threads, InternalSetBlocking(t)
  PROVE  Inv'
<1> DEFINE f == FileOf(t)
<1>1. /\ pc[t] = "syscall" /\ op[t] \in SetsTimeout /\ f \in Files /\ Ends(t)
      /\ nonblock' = [nonblock EXCEPT ![f] = op[t] = "unblock"]
      /\ overlapped' = overlapped \cup {u \in Objects : file[on[t]] # f /\ file[u] = f}
      /\ UNCHANGED <<object, file, fds, ready, sdp, calls>>
  BY DEF InternalSetBlocking
<1>2. f \in Objects /\ CallOK(t) /\ on[t] \in Objects
  BY <1>1, NamesAre DEF Files, Inv, TypeOK, CallsInv, CallOK, SetsTimeout
<1> HIDE DEF f
<1>3. /\ nonblock' \in [Objects -> BOOLEAN] /\ nonblock'[f] = (op[t] = "unblock")
      /\ \A g \in Objects \ {f} : nonblock'[g] = nonblock[g]
  BY <1>1, <1>2 DEF Inv, TypeOK
<1>4. /\ pc'[t] = "idle" /\ op'[t] = "none" /\ on'[t] = "none"
      /\ \A u \in Threads \ {t} : Stays(u)
  BY <1>1, EndsIs DEF Inv, Stays
<1>5. CallsInv'
  <2>1. CallOK(t)'
    BY <1>4, <1>1, EndsIs DEF CallOK, Inv
  <2>2. QED
    BY <1>1, <1>4, <2>1, CallsFrame DEF object
<1>6. ASSUME NEW s \in Objects, Alone(s)' PROVE TimeoutOK(s)'
  <2>1. /\ Alone(s) /\ s \notin overlapped' /\ file[s] \in Objects
        /\ UNCHANGED <<fd, timeout, file, fds>>
    BY <1>1, <1>6, OnlyOfItsFile DEF Alone, Shared, object
  <2>2. CASE on[t] = s
    <3>1. SetsOf(t, s)
      BY <1>1, <2>2 DEF SetsOf
    <3>2. /\ \A u \in Threads : SetsOf(u, s)' => SetsOf(u, s) /\ Stays(u)
          /\ TimeoutOK(s)
      BY <1>4, <2>1 DEF SetsOf, SetsTimeout, Stays, Inv, TimeoutsInv
    <3>3. ASSUME NEW d \in Fds, fds[d] = file[s], timeout[s] # "none" PROVE nonblock'[file[s]]
      <4>1. f = file[s]
        BY <1>1, <2>1, <3>1, <3>3, SetsItsOwn DEF f
      <4>2. op[t] = "unblock"
        BY <1>1, <3>1, <3>2, <3>3 DEF TimeoutOK, SetsOf, SetsTimeout
      <4>3. QED
        BY <1>3, <4>1, <4>2
    <3>4. QED
      BY <2>1, <3>2, <3>3 DEF TimeoutOK, SetsOf, Stays
  <2>3. CASE on[t] # s
    <3>1. f # file[s]
      BY <1>1, <1>2, <2>1, <2>3, OnlyOfItsFile
    <3>2. nonblock'[file[s]] = nonblock[file[s]]
      BY <1>3, <2>1, <3>1
    <3>3. \A u \in Threads : /\ SetsOf(u, s)' <=> SetsOf(u, s)
                             /\ SetsOf(u, s) => Stays(u)
      BY <1>4, <2>3, NamesAre DEF SetsOf, Stays
    <3>4. QED
      BY <1>1, <1>5, <1>6, <2>1, <3>2, <3>3, AloneFrame DEF Stays, Alone
  <2>4. QED
    BY <2>2, <2>3
<1>7. overlapped \subseteq overlapped' /\ overlapped' \subseteq Objects /\ calls' \in Nat
  BY <1>1 DEF Inv, TypeOK
<1>8. QED
  BY <1>1, <1>3, <1>6, <1>7, SetsEnd

LEMMA CallFailsInv ==
  ASSUME Inv, NEW t \in Threads, CallFails(t)
  PROVE  Inv'
<1>1. Ends(t) /\ UNCHANGED <<object, kernel, sdp, past>>
  BY DEF CallFails
<1>2. CASE op[t] \in Transferring \cup {"listen"}
  BY <1>1, <1>2, QuietEndsInv DEF Quiet
<1>3. CASE pc[t] = "syscall" /\ op[t] \in SetsTimeout /\ FileOf(t) \notin Files
  <2>1. /\ pc'[t] = "idle" /\ op'[t] = "none" /\ on'[t] = "none"
        /\ \A u \in Threads \ {t} : Stays(u)
    BY <1>1, EndsIs DEF Inv, Stays
  <2>2. CallsInv'
    <3>1. CallOK(t)'
      BY <1>1, <2>1, EndsIs DEF CallOK, Inv
    <3>2. QED
      BY <1>1, <2>1, <3>1, CallsFrame DEF object
  <2>3. ASSUME NEW s \in Objects, Alone(s)' PROVE TimeoutOK(s)'
    <3>1. /\ Alone(s) /\ file[s] \in Files
          /\ UNCHANGED <<fd, timeout, file, fds, nonblock, overlapped>>
      BY <1>1, <2>3, OnlyOfItsFile DEF Alone, Shared, object, kernel, past, Files
    <3>2. CASE on[t] = s
      <4>1. SetsOf(t, s)
        BY <1>3, <3>2 DEF SetsOf
      <4>2. \A d \in Fds : fds[d] # file[s]
        BY <1>3, <3>1, <4>1, SetsItsOwn
      <4>3. /\ \A u \in Threads : SetsOf(u, s)' => SetsOf(u, s) /\ Stays(u)
            /\ TimeoutOK(s)
        BY <2>1, <3>1 DEF SetsOf, SetsTimeout, Stays, Inv, TimeoutsInv
      <4>4. QED
        BY <3>1, <4>2, <4>3 DEF TimeoutOK, SetsOf, Stays
    <3>3. CASE on[t] # s
      <4>1. \A u \in Threads : /\ SetsOf(u, s)' <=> SetsOf(u, s)
                               /\ SetsOf(u, s) => Stays(u)
        BY <2>1, <3>3, NamesAre DEF SetsOf, Stays
      <4>2. QED
        BY <2>2, <2>3, <3>1, <4>1, AloneFrame DEF Stays, Alone
    <3>4. QED
      BY <3>2, <3>3
  <2>4. /\ UNCHANGED <<object, file, fds, ready, sdp>> /\ overlapped' = overlapped
        /\ overlapped \subseteq Objects /\ nonblock' \in [Objects -> BOOLEAN] /\ calls' \in Nat
    BY <1>1 DEF kernel, past, Inv, TypeOK
  <2>5. QED
    BY <1>1, <1>3, <2>3, <2>4, SetsEnd
<1>4. QED
  BY <1>2, <1>3 DEF CallFails

-----------------------------------------------------------------------------
(***************************************************************************)
(* close, sdp_advertise_service and sdp_stop_advertising.                  *)
(***************************************************************************)
\* What a step has to leave of a socket for its session to stay as it should be.
LEMMA SessionFrame ==
  ASSUME Inv, NEW s \in Objects, s \notin overlapped', overlapped \subseteq overlapped',
         session'[s] = session[s], handle'[s] = handle[s],
         session[s] # 0 => sessions'[session[s]] = sessions[session[s]],
         \A n \in Sessions : sessions'[n] = "registered" /\ owner'[n] = s =>
                             sessions[n] = "registered" /\ owner[n] = s,
         \A t \in Threads : /\ At(t, s, "stopped")' <=> At(t, s, "stopped")
                            /\ At(t, s, "registered") => At(t, s, "registered")'
                            /\ At(t, s, "sdp_register")' =>
                                 At(t, s, "sdp_register") /\ lsession'[t] = lsession[t]
                            /\ At(t, s, "sdp_connect")' =>
                                 At(t, s, "sdp_connect") \/ ~handle[s] \/ session[s] = 0
                            /\ on'[t] = s /\ op'[t] = "advertise" => fd'[s] # 0,
         fd[s] # 0 \/ Closing(s) => fd'[s] # 0 \/ Closing(s)'
  PROVE  SessionOK(s)'
<1>1. SessionOK(s)
  BY DEF Inv, SessionsInv
<1>2. \A t \in Threads : At(t, s, "sdp_register") => session[s] # 0
  BY <1>1 DEF SessionOK, At, Inv, OwnersInv
<1>3. session'[s] # 0 /\ sessions'[session'[s]] = "freed" => \E t \in Threads : At(t, s, "stopped")'
  BY <1>1 DEF SessionOK
<1>4. ASSUME NEW n \in Sessions, sessions'[n] = "registered", owner'[n] = s
      PROVE  /\ n = session'[s]
             /\ handle'[s] \/ \E t \in Threads : At(t, s, "registered")'
             /\ fd'[s] # 0 \/ Closing(s)'
  BY <1>1, <1>4 DEF SessionOK
<1>5. ASSUME NEW t \in Threads
      PROVE  /\ At(t, s, "sdp_connect")' => ~handle'[s] \/ session'[s] = 0
             /\ At(t, s, "sdp_register")' =>
                  lsession'[t] = session'[s] /\ sessions'[session'[s]] = "open"
             /\ At(t, s, "stopped")' => session'[s] = 0 \/ sessions'[session'[s]] = "freed"
             /\ on'[t] = s /\ op'[t] = "advertise" => fd'[s] # 0
  BY <1>1, <1>2 DEF SessionOK
<1>6. QED
  BY <1>3, <1>4, <1>5 DEF SessionOK

\* A call of one of them begins.
LEMMA SdpBegins ==
  ASSUME Inv, NEW t \in Threads, NEW s \in Objects, NEW o \in SdpOps,
         NEW where \in Places \ SdpPlaces, where # "blocked", NEW d \in Fds \cup {0},
         Starts(t, s, o, where, d, 0), CallOK(t)', FdsInv',
         fd' = fd \/ (o = "close" /\ fd' = [fd EXCEPT ![s] = 0]),
         o = "advertise" => fd[s] # 0,
         UNCHANGED <<alive, timeout, listening, session, handle, kernel, sdp>>
  PROVE  Inv'
<1>0. /\ o \in Ops /\ o \in Configures /\ o \notin SetsTimeout /\ o # "none"
      /\ 0 \in 0..MaxChunks /\ where \in Places
  BY NamesAre DEF SdpOps, Ops, Configures, SetsTimeout
<1>1. /\ alive[s] /\ pc[t] = "idle" /\ op[t] = "none" /\ on[t] = "none" /\ ~timed[t]
      /\ pc'[t] = where /\ op'[t] = o /\ on'[t] = s
      /\ \A u \in Threads \ {t} : /\ pc'[u] = pc[u] /\ op'[u] = op[u] /\ on'[u] = on[u]
                                  /\ lfd'[u] = lfd[u]
      /\ \A u \in Threads : steady'[u] = IF u = t THEN ~UnderWay(s, SetsTimeout)
                              ELSE steady[u] /\ (o \in SetsTimeout => file[on[u]] # file[s])
      /\ UNCHANGED <<at, lsession, timed>>
      /\ overlapped \subseteq overlapped'
      /\ o \in Configures /\ UnderWay(s, Configures) => s \in overlapped'
  BY <1>0, StartsIs
<1>2. UNCHANGED <<alive, timeout, listening, session, handle, file, fds, nonblock, ready>>
      /\ UNCHANGED sdp
  BY DEF kernel
<1>3. fd' \in [Objects -> Fds \cup {0}] /\ \A x \in Objects : x # s => fd'[x] = fd[x]
  BY DEF Inv, TypeOK
<1>4. TypeOK'
  <2>1. /\ overlapped' \subseteq Objects /\ calls' \in Nat
        /\ pc' \in [Threads -> Places] /\ op' \in [Threads -> Ops \cup {"none"}]
        /\ on' \in [Threads -> Objects \cup {"none"}] /\ lfd' \in [Threads -> Fds \cup {0}]
        /\ left' \in [Threads -> 0..MaxChunks] /\ steady' \in [Threads -> BOOLEAN]
    BY <1>0, StartsIs
  <2>2. QED
    BY <1>1, <1>2, <1>3, <2>1 DEF Inv, TypeOK, sdp
<1>5. \A u \in Threads \ {t} : Stays(u)
  BY <1>1 DEF Stays
<1>6. CallsInv'
  BY <1>2, <1>5, CallsFrame
<1>7. OnceInv'
  BY <1>1, OnceStarts
<1>8. OwnersInv'
  <2>1. lsession[t] = 0 /\ pc'[t] # "sdp_register"
    BY <1>1 DEF Inv, OwnersInv, SdpPlaces
  <2>2. QED
    BY <1>1, <1>2, <2>1, OwnersFrame DEF sdp
\* Nobody else configures s, unless that is noted.
<1>9. s \notin overlapped' => \A u \in Threads : on[u] = s => op[u] \notin Configures
  BY <1>0, <1>1 DEF UnderWay
<1>10. ASSUME NEW x \in Objects, x \notin overlapped' PROVE SessionOK(x)'
  <2>1. SessionOK(x)
    BY <1>1, <1>10 DEF Inv, SessionsInv
  <2>2. \A u \in Threads, w \in SdpPlaces : At(u, x, w)' <=> At(u, x, w)
    <3>1. pc[t] \notin SdpPlaces /\ pc'[t] \notin SdpPlaces
      BY <1>1 DEF SdpPlaces
    <3>2. QED
      BY <1>1, <3>1 DEF At
  <2>3. Closing(x) => Closing(x)'
    BY <1>1 DEF Closing, Busy
  <2>4. fd[x] # 0 => fd'[x] # 0 \/ Closing(x)'
    BY <1>1, <1>3 DEF Closing, Busy
  <2>5. \A u \in Threads : on'[u] = x /\ op'[u] = "advertise" => fd'[x] # 0
    <3> SUFFICES ASSUME NEW u \in Threads, on'[u] = x, op'[u] = "advertise" PROVE fd'[x] # 0
      OBVIOUS
    <3>1. CASE u = t
      BY <1>1, <3>1
    <3>2. CASE u # t
      <4>1. on[u] = x /\ op[u] = "advertise" /\ "advertise" \in Configures
        BY <1>1, <3>2 DEF Configures
      <4>2. fd[x] # 0 /\ x # s
        BY <1>9, <1>10, <2>1, <4>1 DEF SessionOK
      <4>3. QED
        BY <1>3, <4>2
    <3>3. QED
      BY <3>1, <3>2
  <2>6. QED
    BY <1>1, <1>2, <1>10, <2>2, <2>3, <2>4, <2>5, SessionFrame DEF SdpPlaces, sdp
<1>11. SessionsInv'
  BY <1>1, <1>2, <1>10 DEF SessionsInv, SessionsAreAlive, Inv, sdp
<1>12. TimeoutsInv'
  <2>1. \A u \in Threads : steady[u] => op[u] # "none"
    BY DEF Inv, TimeoutsInv, SteadyOK
  <2>2. \A u \in Threads : SteadyOK(u)'
    BY <1>0, <1>2, SteadyStarts
  <2>3. TimeoutHolds'
    BY <1>1, <1>2, HoldsFrame
  <2>4. \A u \in Threads : \A x : /\ SetsOf(u, x)' <=> SetsOf(u, x)
                                  /\ SetsOf(u, x) => Stays(u)
    BY <1>0, <1>1, <1>5 DEF SetsOf, SetsTimeout, Stays
  <2>5. ASSUME NEW x \in Objects, Alone(x)' PROVE TimeoutOK(x)'
    <3>1. file[x] # "none" /\ x \notin overlapped'
      BY <1>2, <2>5 DEF Alone
    <3>2. \A u \in Threads : SetsOf(u, x) => fd'[x] = fd[x]
      BY <1>3, <1>9, <3>1 DEF SetsOf, Configures
    <3>3. QED
      BY <1>1, <1>2, <1>6, <2>4, <2>5, <3>1, <3>2, AloneFrame DEF Stays
  <2>6. QED
    BY <2>2, <2>3, <2>5 DEF TimeoutsInv
<1>13. QED
  BY <1>4, <1>6, <1>7, <1>8, <1>11, <1>12 DEF Inv

LEMMA CloseInv ==
  ASSUME Inv, NEW t \in Threads, NEW s \in Objects, Close(t, s)
  PROVE  Inv'
<1> DEFINE where == IF fd[s] # 0 THEN "closing" ELSE "closed"
<1>1. /\ Starts(t, s, "close", where, fd[s], 0)
      /\ fd' = [fd EXCEPT ![s] = 0]
      /\ UNCHANGED <<alive, timeout, listening, session, handle, kernel, sdp>>
  BY DEF Close
<1>2. /\ "close" \in SdpOps /\ "close" \in Ops /\ where \in Places \ SdpPlaces
      /\ where # "blocked" /\ fd[s] \in Fds \cup {0} /\ 0 \in 0..MaxChunks /\ where \in Places
  BY NamesAre DEF SdpOps, Ops, Configures, Places, SdpPlaces, Inv, TypeOK
<1>3. where = "closing" <=> fd[s] # 0
  OBVIOUS
<1>4. where \in {"closing", "closed"}
  OBVIOUS
<1> HIDE DEF where
<1>5. /\ alive[s] /\ pc[t] = "idle" /\ ~timed[t] /\ timed' = timed
      /\ pc'[t] = where /\ op'[t] = "close" /\ on'[t] = s /\ lfd'[t] = fd[s]
      /\ \A u \in Threads \ {t} : pc'[u] = pc[u] /\ on'[u] = on[u] /\ lfd'[u] = lfd[u]
  BY <1>1, <1>2, StartsIs
<1>6. CallOK(t)'
  BY <1>1, <1>4, <1>5 DEF CallOK
<1>7. FdsInv'
  <2>1. /\ fd'[s] = 0 /\ \A x \in Objects \ {s} : fd'[x] = fd[x]
        /\ UNCHANGED <<alive, file, fds>>
    BY <1>1 DEF Inv, TypeOK, kernel
  <2>2. /\ \A u \in Threads \ {t} : \A d : Closes(u, d)' <=> Closes(u, d)
        /\ \A d : Closes(t, d)' <=> fd[s] # 0 /\ d = fd[s]
    BY <1>3, <1>5 DEF Closes
  <2>3. ClosesItsOwn'
    BY <1>3, <1>5, <2>1 DEF Inv, FdsInv, ClosesItsOwn
  <2>4. \A u \in Threads : ~Closes(u, 0)'
    BY <2>2 DEF Inv, FdsInv
  <2>5. \A x, y \in Objects : fd'[x] # 0 /\ fd'[x] = fd'[y] => x = y
    BY <2>1 DEF Inv, FdsInv
  <2>6. ASSUME NEW u \in Threads, NEW x \in Objects PROVE ~Closes(u, fd[x])'
    <3>1. CASE x = s
      BY <2>1, <2>4, <3>1 DEF Closes
    <3>2. CASE x # s /\ u = t
      BY <1>3, <1>5, <2>1, <3>2 DEF Inv, FdsInv, Closes
    <3>3. CASE x # s /\ u # t
      BY <1>5, <2>1, <3>3 DEF Inv, FdsInv, Closes
    <3>4. QED
      BY <3>1, <3>2, <3>3
  <2>7. ASSUME NEW u \in Threads, NEW v \in Threads, Closes(u, lfd[v])', pc'[v] = "closing"
        PROVE  u = v
    <3>1. CASE u # t /\ v # t
      BY <1>5, <2>7, <3>1 DEF Inv, FdsInv, Closes
    <3>2. CASE u = t /\ v # t
      BY <1>3, <1>5, <2>7, <3>2 DEF Inv, FdsInv, Closes
    <3>3. CASE u # t /\ v = t
      BY <1>3, <1>5, <2>7, <3>3 DEF Inv, FdsInv, Closes
    <3>4. QED
      BY <3>1, <3>2, <3>3
  <2>8. ASSUME NEW d \in Fds, fds[d] \in Objects
        PROVE  (\E x \in Objects : fd'[x] = d) \/ \E u \in Threads : Closes(u, d)'
    <3>1. CASE \E x \in Objects : fd[x] = d
      BY <2>1, <2>2, <3>1, NamesAre
    <3>2. CASE \E u \in Threads : Closes(u, d)
      BY <1>5, <2>2, <3>2 DEF Closes
    <3>3. QED
      BY <2>8, <3>1, <3>2 DEF Inv, FdsInv
  <2>9. \A x \in Objects : /\ alive'[x] => file'[x] # "none"
                           /\ fd'[x] # 0 => alive'[x]
                           /\ file'[x] # "none" => file'[file'[x]] = file'[x]
    BY <2>1 DEF Inv, FdsInv
  <2>10. QED
    BY <2>1, <2>3, <2>4, <2>5, <2>6, <2>7, <2>8, <2>9 DEF FdsInv
<1>8. QED
  BY <1>1, <1>2, <1>6, <1>7, SdpBegins

LEMMA CallsOfSdp ==
  ASSUME Inv, NEW t \in Threads, NEW s \in Objects, Advertise(t, s) \/ StopAdvertising(t, s)
  PROVE  Inv'
<1>1. /\ "advertise" \in SdpOps /\ "stop" \in SdpOps /\ "advertise" \in Ops /\ "stop" \in Ops
      /\ {"getsockname", "stopping"} \subseteq Places \ SdpPlaces
      /\ {"getsockname", "stopping"} \subseteq Places
      /\ 0 \in Fds \cup {0} /\ 0 \in 0..MaxChunks
  BY NamesAre DEF SdpOps, Ops, Configures, Places, SdpPlaces
<1>2. ASSUME NEW o \in {"advertise", "stop"}, NEW where \in {"getsockname", "stopping"},
             o = "advertise" <=> where = "getsockname", o = "advertise" => fd[s] # 0,
             Starts(t, s, o, where, 0, 0), UNCHANGED <<object, kernel, sdp>>
      PROVE  Inv'
  <2>1. o \in SdpOps /\ o \in Ops /\ where \in Places \ SdpPlaces /\ where \in Places
        /\ where # "blocked" /\ where # "closing"
    BY <1>1
  <2>2. /\ alive[s] /\ pc[t] = "idle" /\ ~timed[t] /\ timed' = timed
        /\ pc'[t] = where /\ op'[t] = o /\ on'[t] = s
        /\ \A u \in Threads \ {t} : pc'[u] = pc[u] /\ on'[u] = on[u] /\ lfd'[u] = lfd[u]
    BY <1>1, <1>2, <2>1, StartsIs
  <2>3. CallOK(t)'
    BY <1>2, <2>2 DEF CallOK, object
  <2>4. FdsInv'
    BY <1>2, <2>1, <2>2, FdsFrame DEF object, kernel
  <2>5. UNCHANGED <<alive, fd, timeout, listening, session, handle>>
    BY <1>2 DEF object
  <2>6. QED
    BY <1>1, <1>2, <2>1, <2>3, <2>4, <2>5, SdpBegins
<1>3. QED
  BY <1>2 DEF Advertise, StopAdvertising

\* A step of one of them that closes no descriptor and notes no overlap: it
\* ends the call, or goes on to where.
LEMMA SdpStep ==
  ASSUME Inv, NEW t \in Threads, op[t] \in SdpOps, pc[t] # "closing",
         Ends(t) \/ (/\ pc'[t] \notin {"closing", "blocked"} /\ CallOK(t)'
                     /\ UNCHANGED <<op, on, lfd, at, timed, steady>>
                     /\ \A u \in Threads \ {t} : pc'[u] = pc[u] /\ lsession'[u] = lsession[u]),
         UNCHANGED <<alive, fd, timeout, file, fds, nonblock, overlapped>>
  PROVE  /\ CallsInv' /\ FdsInv' /\ OnceInv' /\ TimeoutsInv'
         /\ \A u \in Threads \ {t} : Stays(u)
<1>1. \A u \in Threads \ {t} : Stays(u)
  BY EndsIs DEF Inv, Stays
<1>2. \/ /\ pc'[t] = "idle" /\ op'[t] = "none" /\ on'[t] = "none"
         /\ timed'[t] = FALSE /\ steady'[t] = FALSE
      \/ /\ pc'[t] \notin {"closing", "blocked"} /\ CallOK(t)'
         /\ UNCHANGED <<op, on, lfd, at, timed, steady>>
  BY EndsIs DEF Inv
<1>3. pc'[t] \notin {"closing", "blocked"} /\ CallOK(t)'
  BY <1>2 DEF CallOK
<1>4. op[t] # "none" /\ op[t] \notin SetsTimeout
  BY DEF SdpOps, SetsTimeout
<1>5. CallsInv'
  BY <1>1, <1>3, CallsFrame
<1>6. FdsInv'
  BY <1>1, <1>3, FdsFrame DEF Stays
<1>7. OnceInv'
  BY <1>1, <1>2, OnceFrame DEF Stays, Configures, SetsTimeout
<1>8. TimeoutsInv'
  <2>1. TimeoutHolds'
    BY <1>1, <1>3, HoldsFrame DEF Stays
  <2>2. Passes(t)
    BY <1>2, <1>4 DEF Passes, SetsTimeout
  <2>3. QED
    BY <1>1, <1>5, <2>1, <2>2, TimeoutsFrame
<1>9. QED
  BY <1>1, <1>5, <1>6, <1>7, <1>8

\* The other calls under way are not of the same socket, but where noted.
LEMMA NoOther ==
  ASSUME Inv, NEW t \in Threads, op[t] \in SdpOps, on[t] \notin overlapped
  PROVE  \A u \in Threads \ {t} :
           /\ on[u] = on[t] => op[u] \notin SdpOps
           /\ \A w \in SdpPlaces : ~At(u, on[t], w)
<1> SUFFICES ASSUME NEW u \in Threads \ {t}, on[u] = on[t]
             PROVE  op[u] \notin SdpOps /\ pc[u] \notin SdpPlaces
  BY DEF At
<1>1. op[t] \in Configures
  BY DEF SdpOps, Configures
<1>2. op[u] \notin Configures
  BY <1>1 DEF Inv, OnceInv
<1>3. CallOK(u)
  BY DEF Inv, CallsInv
<1>4. QED
  BY <1>2, <1>3 DEF CallOK, Configures, SdpOps, SdpPlaces

\* What a thread at t does to another socket than its own: nothing.
LEMMA OtherSocket ==
  ASSUME Inv, NEW t \in Threads, NEW s \in Objects, s # on[t], s \notin overlapped,
         \A u \in Threads \ {t} : Stays(u), on'[t] # s,
         UNCHANGED <<fd, overlapped>>,
         session'[s] = session[s], handle'[s] = handle[s],
         session[s] # 0 => sessions'[session[s]] = sessions[session[s]],
         \A n \in Sessions : sessions'[n] = "registered" /\ owner'[n] = s =>
                             sessions[n] = "registered" /\ owner[n] = s
  PROVE  SessionOK(s)'
<1>1. \A u \in Threads : \A w : At(u, s, w)' <=> At(u, s, w)
  BY DEF At, Stays
<1>2. \A u \in Threads : At(u, s, "sdp_register") => lsession'[u] = lsession[u]
  BY DEF At, Stays
<1>3. \A u \in Threads : on'[u] = s /\ op'[u] = "advertise" => on[u] = s /\ op[u] = "advertise"
  BY DEF Stays
<1>4. Closing(s) => Closing(s)'
  BY DEF Closing, Busy, Stays
<1>5. \A u \in Threads : on[u] = s /\ op[u] = "advertise" => fd[s] # 0
  BY DEF Inv, SessionsInv, SessionOK
<1>6. QED
  BY <1>1, <1>2, <1>3, <1>4, <1>5, SessionFrame

LEMMA CloseFdInv ==
  ASSUME Inv, NEW t \in Threads, CloseFd(t)
  PROVE  Inv'
<1>1. /\ pc[t] = "closing" /\ fds' = [fds EXCEPT ![lfd[t]] = "free"] /\ Goes(t, "closed")
      /\ UNCHANGED <<object, file, nonblock, ready, sdp, past>>
  BY DEF CloseFd
<1>2. CallOK(t) /\ op[t] = "close" /\ "closed" \in Places
  BY <1>1 DEF Inv, CallsInv, CallOK, Places
<1>3. lfd[t] \in Fds
  BY <1>1 DEF Inv, TypeOK, FdsInv, Closes
<1>4. /\ pc'[t] = "closed" /\ \A u \in Threads \ {t} : pc'[u] = pc[u]
      /\ UNCHANGED thread
  BY <1>1 DEF Goes, Moves, Inv, TypeOK
<1>5. /\ fds'[lfd[t]] = "free" /\ \A d \in Fds \ {lfd[t]} : fds'[d] = fds[d]
  BY <1>1, <1>3 DEF Inv, TypeOK
<1>6. TypeOK'
  BY <1>1, <1>2, <1>3 DEF Inv, TypeOK, Goes, Moves, object, sdp, thread, past
<1>7. \A u \in Threads \ {t} : Stays(u)
  BY <1>4 DEF Stays, thread
<1>8. CallsInv'
  <2>1. CallOK(t)'
    BY <1>1, <1>2, <1>4 DEF CallOK, object, thread
  <2>2. QED
    BY <1>1, <1>7, <2>1, CallsFrame DEF object
<1>9. FdsInv'
  <2>1. UNCHANGED <<alive, fd, file, on, lfd>>
    BY <1>1, <1>4 DEF object, thread
  <2>2. /\ \A s \in Objects : fd[s] # lfd[t]
        /\ \A u \in Threads \ {t} : pc[u] = "closing" => lfd[u] # lfd[t] /\ lfd[u] \in Fds
    BY <1>1 DEF Inv, TypeOK, FdsInv, Closes
  <2>3. ClosesItsOwn'
    <3>1. \A s \in Objects : fd'[s] # 0 => fds'[fd'[s]] = file'[s]
      BY <1>5, <2>1, <2>2 DEF Inv, TypeOK, FdsInv, ClosesItsOwn
    <3>2. \A u \in Threads : pc'[u] = "closing" => fds'[lfd'[u]] = file'[on'[u]]
      BY <1>4, <1>5, <2>1, <2>2 DEF Inv, FdsInv, ClosesItsOwn
    <3>3. QED
      BY <3>1, <3>2 DEF ClosesItsOwn
  <2>4. \A u \in Threads : \A d : Closes(u, d)' <=> u # t /\ Closes(u, d)
    BY <1>4, <2>1 DEF Closes
  <2>5. \A u \in Threads : ~Closes(u, 0)'
    BY <2>4 DEF Inv, FdsInv
  <2>6. \A u \in Threads, s \in Objects : ~Closes(u, fd[s])'
    BY <1>4, <2>1 DEF Inv, FdsInv, Closes
  <2>7. \A u, v \in Threads : Closes(u, lfd[v])' /\ pc'[v] = "closing" => u = v
    BY <1>4, <2>1 DEF Inv, FdsInv, Closes
  <2>8. \A d \in Fds : fds'[d] \in Objects =>
          (\E s \in Objects : fd'[s] = d) \/ \E u \in Threads : Closes(u, d)'
    <3> SUFFICES ASSUME NEW d \in Fds, fds'[d] \in Objects, \A s \in Objects : fd[s] # d
                 PROVE  \E u \in Threads : Closes(u, d)'
      BY <2>1
    <3>1. d # lfd[t] /\ fds[d] \in Objects
      BY <1>5, NamesAre
    <3>2. PICK u \in Threads : Closes(u, d)
      BY <3>1 DEF Inv, FdsInv
    <3>3. u # t
      BY <3>1, <3>2 DEF Closes
    <3>4. QED
      BY <2>4, <3>2, <3>3
  <2>9. QED
    BY <2>1, <2>3, <2>5, <2>6, <2>7, <2>8 DEF Inv, FdsInv
<1>10. OnceInv'
  BY <1>1, <1>4, OnceFrame DEF thread, past
<1>11. OwnersInv'
  BY <1>1, <1>4, OwnersFrame DEF object, sdp, thread
<1>12. SessionsInv'
  BY <1>1, <1>4, <1>8, SessionsFrame DEF object, past, thread, SdpPlaces
<1>13. TimeoutsInv'
  <2>1. TimeoutHolds'
    BY <1>1, <1>4, HoldsFrame DEF past, thread
  <2>2. Passes(t)
    BY <1>2, <1>4 DEF Passes, thread, SetsTimeout
  <2>3. \A d \in Fds : fds'[d] = fds[d] \/ fds'[d] \notin Objects
    BY <1>5, NamesAre
  <2>4. QED
    BY <1>1, <1>7, <1>8, <2>1, <2>2, <2>3, TimeoutsFrame DEF object, past
<1>14. QED
  BY <1>6, <1>8, <1>9, <1>10, <1>11, <1>12, <1>13 DEF Inv

\* The session of a socket is freed: no other changes, and it is a use of one
\* freed before only if calls have overlapped.
LEMMA FreesIs ==
  ASSUME Inv, NEW s \in Objects, FreesSession(session[s]),
         s \in overlapped \/ \A t \in Threads : ~At(t, s, "stopped")
  PROVE  /\ \A n \in Sessions : sessions'[n] = IF n = session[s] THEN "freed" ELSE sessions[n]
         /\ owner' = owner /\ misused' \subseteq overlapped
         /\ sessions' \in [Sessions -> {"unused", "open", "registered", "freed"}]
         /\ misused' \subseteq Objects \cup {"none"}
         /\ \A x \in Objects \ {s} : session[x] # 0 => session[x] # session[s]
         /\ \A n \in Sessions : sessions'[n] = "unused" <=> sessions[n] = "unused"
<1>1. /\ \A n \in Sessions : sessions'[n] = IF n = session[s] THEN "freed" ELSE sessions[n]
      /\ owner' = owner /\ sessions' \in [Sessions -> {"unused", "open", "registered", "freed"}]
      /\ misused' = misused \cup {owner[m] : m \in {k \in Sessions : k = session[s] /\ sessions[k] = "freed"}}
  BY DEF FreesSession, Inv, TypeOK
<1>2. misused \subseteq overlapped /\ overlapped \subseteq Objects
  BY DEF Inv, TypeOK, SessionsInv, SessionsAreAlive
<1>3. ASSUME NEW k \in Sessions, k = session[s], sessions[k] = "freed" PROVE owner[k] \in overlapped
  <2>1. session[s] # 0
    BY <1>3, NamesAre
  <2>2. owner[k] = s
    BY <1>3, <2>1 DEF Inv, OwnersInv
  <2>3. s \in overlapped
    BY <1>3, <2>1 DEF Inv, SessionsInv, SessionOK
  <2>4. QED
    BY <2>2, <2>3
<1>4. misused' \subseteq overlapped
  BY <1>1, <1>2, <1>3
<1>5. \A x \in Objects \ {s} : session[x] # 0 => session[x] # session[s]
  BY DEF Inv, OwnersInv
<1>6. \A n \in Sessions : sessions'[n] = "unused" <=> sessions[n] = "unused"
  BY <1>1, NamesAre DEF Inv, OwnersInv
<1>7. QED
  BY <1>1, <1>2, <1>4, <1>5, <1>6

\* Its service, if it had one, is gone then.
LEMMA NoServiceOf ==
  ASSUME Inv, NEW s \in Objects \ overlapped, owner' = owner,
         \A n \in Sessions : sessions'[n] = IF n = session[s] THEN "freed" ELSE sessions[n]
  PROVE  \A n \in Sessions : ~(sessions'[n] = "registered" /\ owner'[n] = s)
BY DEF Inv, SessionsInv, SessionOK

LEMMA CloseSessionInv ==
  ASSUME Inv, NEW t \in Threads, NEW s, s = on[t], CloseSession(t)
  PROVE  Inv'
<1>1. /\ pc[t] = "closed" /\ FreesSession(session[s])
      /\ session' = [session EXCEPT ![s] = 0]
      /\ handle' = [handle EXCEPT ![s] = session[s] = 0 /\ @]
      /\ Ends(t) /\ UNCHANGED <<alive, fd, timeout, listening, kernel, past>>
  BY DEF CloseSession
<1>2. CallOK(t) /\ op[t] = "close" /\ s \in Objects /\ op[t] \in SdpOps
  BY <1>1 DEF Inv, CallsInv, CallOK, SdpOps
<1>3. s \in overlapped \/ \A u \in Threads : ~At(u, s, "stopped")
  BY <1>1, <1>2, NoOther DEF At, SdpPlaces
<1>4. /\ \A n \in Sessions : sessions'[n] = IF n = session[s] THEN "freed" ELSE sessions[n]
      /\ owner' = owner /\ misused' \subseteq overlapped
      /\ sessions' \in [Sessions -> {"unused", "open", "registered", "freed"}]
      /\ misused' \subseteq Objects \cup {"none"}
      /\ \A x \in Objects \ {s} : session[x] # 0 => session[x] # session[s]
      /\ \A n \in Sessions : sessions'[n] = "unused" <=> sessions[n] = "unused"
  BY <1>1, <1>2, <1>3, FreesIs
<1>5. /\ session'[s] = 0 /\ \A x \in Objects \ {s} : session'[x] = session[x] /\ handle'[x] = handle[x]
      /\ session' \in [Objects -> Sessions \cup {0}] /\ handle' \in [Objects -> BOOLEAN]
  BY <1>1, <1>2 DEF Inv, TypeOK
<1>6. TypeOK'
  BY <1>1, <1>4, <1>5, EndsIs DEF Inv, TypeOK, kernel, past
<1>7. /\ CallsInv' /\ FdsInv' /\ OnceInv' /\ TimeoutsInv' /\ \A u \in Threads \ {t} : Stays(u)
  BY <1>1, <1>2, SdpStep DEF kernel, past
<1>8. /\ op'[t] = "none" /\ on'[t] = "none" /\ lsession'[t] = 0 /\ pc'[t] = "idle"
  BY <1>1, EndsIs DEF Inv
<1>9. OwnersInv'
  BY <1>2, <1>4, <1>5, <1>7, <1>8 DEF Inv, OwnersInv, Stays, TypeOK
<1>10. ASSUME NEW x \in Objects, x \notin overlapped PROVE SessionOK(x)'
  <2>1. CASE x = s
    <3>1. \A n \in Sessions : ~(sessions'[n] = "registered" /\ owner'[n] = s)
      BY <1>4, <1>10, <2>1, NoServiceOf
    <3>2. \A u \in Threads \ {t} : on[u] = s => op[u] # "advertise" /\ pc[u] \notin SdpPlaces
      BY <1>2, <1>10, <2>1, NoOther DEF At, SdpOps
    <3>3. \A u \in Threads : on'[u] = s => op'[u] # "advertise" /\ pc'[u] \notin SdpPlaces
      BY <1>2, <1>7, <1>8, <3>2, NamesAre DEF Stays
    <3>4. \A u \in Threads : /\ ~At(u, s, "sdp_connect")' /\ ~At(u, s, "sdp_register")'
                             /\ ~At(u, s, "stopped")'
      BY <3>3 DEF At, SdpPlaces
    <3>5. QED
      BY <1>5, <2>1, <3>1, <3>3, <3>4 DEF SessionOK
  <2>2. CASE x # s
    <3>1. on'[t] # x
      BY <1>8, NamesAre
    <3>2. session[x] # 0 => sessions'[session[x]] = sessions[session[x]]
      BY <1>4, <2>2 DEF Inv, TypeOK
    <3>3. QED
      BY <1>1, <1>4, <1>5, <1>7, <1>10, <2>2, <3>1, <3>2, OtherSocket DEF past
  <2>3. QED
    BY <2>1, <2>2
<1>11. SessionsInv'
  BY <1>1, <1>4, <1>10 DEF SessionsInv, SessionsAreAlive, past
<1>12. QED
  BY <1>6, <1>7, <1>9, <1>11 DEF Inv

LEMMA StopSessionInv ==
  ASSUME Inv, NEW t \in Threads, NEW s, s = on[t], StopSession(t)
  PROVE  Inv'
<1>1. /\ pc[t] = "stopping" /\ FreesSession(session[s]) /\ Goes(t, "stopped")
      /\ UNCHANGED <<object, kernel, past>>
  BY DEF StopSession
<1>2. CallOK(t) /\ op[t] = "stop" /\ s \in Objects /\ op[t] \in SdpOps /\ "stopped" \in Places
  BY <1>1 DEF Inv, CallsInv, CallOK, SdpOps, Places
<1>3. s \in overlapped \/ \A u \in Threads : ~At(u, s, "stopped")
  BY <1>1, <1>2, NoOther DEF At, SdpPlaces
<1>4. /\ \A n \in Sessions : sessions'[n] = IF n = session[s] THEN "freed" ELSE sessions[n]
      /\ owner' = owner /\ misused' \subseteq overlapped
      /\ sessions' \in [Sessions -> {"unused", "open", "registered", "freed"}]
      /\ misused' \subseteq Objects \cup {"none"}
      /\ \A x \in Objects \ {s} : session[x] # 0 => session[x] # session[s]
      /\ \A n \in Sessions : sessions'[n] = "unused" <=> sessions[n] = "unused"
  BY <1>1, <1>2, <1>3, FreesIs
<1>5. /\ pc'[t] = "stopped" /\ \A u \in Threads \ {t} : pc'[u] = pc[u]
      /\ UNCHANGED thread /\ UNCHANGED <<session, handle>>
  BY <1>1 DEF Goes, Moves, Inv, TypeOK, object
<1>6. TypeOK'
  BY <1>1, <1>2, <1>4 DEF Inv, TypeOK, Goes, Moves, object, kernel, thread, past
<1>7. /\ CallsInv' /\ FdsInv' /\ OnceInv' /\ TimeoutsInv' /\ \A u \in Threads \ {t} : Stays(u)
  <2>1. CallOK(t)'
    BY <1>1, <1>2, <1>5 DEF CallOK, object, thread
  <2>2. QED
    BY <1>1, <1>2, <1>5, <2>1, SdpStep DEF object, kernel, thread, past
<1>8. OwnersInv'
  BY <1>4, <1>5 DEF Inv, OwnersInv, thread, TypeOK
<1>9. ASSUME NEW x \in Objects, x \notin overlapped PROVE SessionOK(x)'
  <2>1. CASE x = s
    <3>1. \A n \in Sessions : ~(sessions'[n] = "registered" /\ owner'[n] = s)
      BY <1>4, <1>9, <2>1, NoServiceOf
    <3>2. \A u \in Threads \ {t} : on[u] = s => op[u] # "advertise" /\ pc[u] \notin SdpPlaces
      BY <1>2, <1>9, <2>1, NoOther DEF At, SdpOps
    <3>3. At(t, s, "stopped")' /\ \A w : At(t, s, w)' => w = "stopped"
      BY <1>5 DEF At, thread
    <3>4. session'[s] # 0 => sessions'[session'[s]] = "freed"
      BY <1>2, <1>4, <1>5 DEF Inv, TypeOK
    <3>5. \A u \in Threads : /\ ~At(u, s, "sdp_connect")' /\ ~At(u, s, "sdp_register")'
                             /\ on'[u] = s => op'[u] # "advertise"
      BY <1>2, <1>5, <3>2 DEF thread, At, SdpPlaces
    <3>6. QED
      BY <2>1, <3>1, <3>3, <3>4, <3>5 DEF SessionOK
  <2>2. CASE x # s
    <3>1. on'[t] # x
      BY <1>5, <2>2 DEF thread
    <3>2. session[x] # 0 => sessions'[session[x]] = sessions[session[x]]
      BY <1>4, <2>2 DEF Inv, TypeOK
    <3>3. QED
      BY <1>1, <1>4, <1>5, <1>7, <1>9, <2>2, <3>1, <3>2, OtherSocket DEF object, past
  <2>3. QED
    BY <2>1, <2>2
<1>10. SessionsInv'
  BY <1>1, <1>4, <1>9 DEF SessionsInv, SessionsAreAlive, past
<1>11. QED
  BY <1>6, <1>7, <1>8, <1>10 DEF Inv

LEMMA NoteStoppedInv ==
  ASSUME Inv, NEW t \in Threads, NEW s, s = on[t], NoteStopped(t)
  PROVE  Inv'
<1>1. /\ pc[t] = "stopped" /\ Ends(t)
      /\ session' = [session EXCEPT ![s] = 0] /\ handle' = [handle EXCEPT ![s] = FALSE]
      /\ UNCHANGED <<alive, fd, timeout, listening, kernel, sdp, past>>
  BY DEF NoteStopped
<1>2. CallOK(t) /\ op[t] = "stop" /\ s \in Objects /\ op[t] \in SdpOps /\ At(t, s, "stopped")
  BY <1>1 DEF Inv, CallsInv, CallOK, SdpOps, At
<1>3. /\ session'[s] = 0 /\ \A x \in Objects \ {s} : session'[x] = session[x] /\ handle'[x] = handle[x]
      /\ session' \in [Objects -> Sessions \cup {0}] /\ handle' \in [Objects -> BOOLEAN]
  BY <1>1, <1>2 DEF Inv, TypeOK
<1>4. TypeOK'
  BY <1>1, <1>3, EndsIs DEF Inv, TypeOK, kernel, sdp, past
<1>5. /\ CallsInv' /\ FdsInv' /\ OnceInv' /\ TimeoutsInv' /\ \A u \in Threads \ {t} : Stays(u)
  BY <1>1, <1>2, SdpStep DEF kernel, past
<1>6. /\ op'[t] = "none" /\ on'[t] = "none" /\ lsession'[t] = 0 /\ pc'[t] = "idle"
  BY <1>1, EndsIs DEF Inv
<1>7. OwnersInv'
  BY <1>1, <1>2, <1>3, <1>5, <1>6 DEF Inv, OwnersInv, Stays, TypeOK, sdp
<1>8. ASSUME NEW x \in Objects, x \notin overlapped PROVE SessionOK(x)'
  <2>1. CASE x = s
    <3>1. \A n \in Sessions : ~(sessions[n] = "registered" /\ owner[n] = s)
      BY <1>2, <1>8, <2>1, NamesAre DEF Inv, SessionsInv, SessionOK
    <3>2. \A u \in Threads \ {t} : on[u] = s => op[u] # "advertise" /\ pc[u] \notin SdpPlaces
      BY <1>2, <1>8, <2>1, NoOther DEF At, SdpOps
    <3>3. \A u \in Threads : on'[u] = s => op'[u] # "advertise" /\ pc'[u] \notin SdpPlaces
      BY <1>2, <1>5, <1>6, <3>2, NamesAre DEF Stays
    <3>4. \A u \in Threads : /\ ~At(u, s, "sdp_connect")' /\ ~At(u, s, "sdp_register")'
                             /\ ~At(u, s, "stopped")'
      BY <3>3 DEF At, SdpPlaces
    <3>5. QED
      BY <1>1, <1>3, <2>1, <3>1, <3>3, <3>4 DEF SessionOK, sdp
  <2>2. CASE x # s
    <3>1. on'[t] # x
      BY <1>6, NamesAre
    <3>2. QED
      BY <1>1, <1>3, <1>5, <1>8, <2>2, <3>1, OtherSocket DEF past, sdp
  <2>3. QED
    BY <2>1, <2>2
<1>9. SessionsInv'
  BY <1>1, <1>8 DEF Inv, SessionsInv, SessionsAreAlive, past, sdp
<1>10. QED
  BY <1>4, <1>5, <1>7, <1>9 DEF Inv

\* sdp_advertise_service ends with an error.
LEMMA AdvertiseEnds ==
  ASSUME Inv, NEW t \in Threads, op[t] = "advertise", pc[t] # "registered", Ends(t),
         UNCHANGED <<object, kernel, sessions, owner, past>>, misused' \subseteq overlapped
  PROVE  Inv'
<1>1. misused' \subseteq Objects \cup {"none"}
  BY DEF Inv, TypeOK
<1>2. TypeOK'
  BY <1>1, EndsIs DEF Inv, TypeOK, object, kernel, past
<1>3. op[t] \in SdpOps /\ pc[t] # "closing" /\ pc[t] # "stopped"
  BY DEF SdpOps, Inv, CallsInv, CallOK
<1>4. /\ CallsInv' /\ FdsInv' /\ OnceInv' /\ TimeoutsInv' /\ \A u \in Threads \ {t} : Stays(u)
  BY <1>3, SdpStep DEF object, kernel, past
<1>5. /\ op'[t] = "none" /\ on'[t] = "none" /\ lsession'[t] = 0 /\ pc'[t] = "idle"
  BY EndsIs DEF Inv
<1>6. OwnersInv'
  BY <1>4, <1>5, OwnersFrame DEF Stays, object
<1>7. ASSUME NEW x \in Objects, x \notin overlapped PROVE SessionOK(x)'
  <2>1. on'[t] # x
    BY <1>5, NamesAre
  <2>2. \A u \in Threads : /\ At(u, x, "stopped")' <=> At(u, x, "stopped")
                           /\ At(u, x, "registered") => At(u, x, "registered")'
                           /\ At(u, x, "sdp_register")' =>
                                At(u, x, "sdp_register") /\ lsession'[u] = lsession[u]
                           /\ At(u, x, "sdp_connect")' => At(u, x, "sdp_connect")
                           /\ on'[u] = x /\ op'[u] = "advertise" =>
                                on[u] = x /\ op[u] = "advertise"
    BY <1>3, <1>4, <2>1 DEF At, Stays
  <2>3. Closing(x) => Closing(x)'
    BY <1>4 DEF Closing, Busy, Stays
  <2>4. \A u \in Threads : on[u] = x /\ op[u] = "advertise" => fd[x] # 0
    BY <1>7 DEF Inv, SessionsInv, SessionOK
  <2>5. QED
    BY <1>7, <2>2, <2>3, <2>4, SessionFrame DEF object, past
<1>8. SessionsInv'
  BY <1>7 DEF SessionsInv, SessionsAreAlive, past
<1>9. QED
  BY <1>2, <1>4, <1>6, <1>8 DEF Inv

LEMMA GetSockNameInv ==
  ASSUME Inv, NEW t \in Threads, NEW s, s = on[t], GetSockName(t)
  PROVE  Inv'
<1>1. pc[t] = "getsockname" /\ UNCHANGED <<object, kernel, sdp, past>>
  BY DEF GetSockName
<1>2. CallOK(t) /\ op[t] = "advertise" /\ s \in Objects /\ op[t] \in SdpOps
      /\ misused \subseteq overlapped /\ "sdp_connect" \in Places
  BY <1>1 DEF Inv, CallsInv, CallOK, SdpOps, SessionsInv, SessionsAreAlive, Places
<1>3. CASE Ends(t)
  BY <1>1, <1>2, <1>3, AdvertiseEnds DEF sdp
<1>4. CASE ~(fd[s] = 0 \/ (handle[s] /\ session[s] # 0)) /\ Goes(t, "sdp_connect")
  <2>1. /\ pc'[t] = "sdp_connect" /\ \A u \in Threads \ {t} : pc'[u] = pc[u]
        /\ UNCHANGED thread
    BY <1>4 DEF Goes, Moves, Inv, TypeOK
  <2>2. TypeOK'
    BY <1>1, <1>2, <1>4 DEF Inv, TypeOK, Goes, Moves, object, kernel, sdp, thread, past
  <2>3. CallOK(t)'
    BY <1>1, <1>2, <2>1 DEF CallOK, object, thread
  <2>4. /\ CallsInv' /\ FdsInv' /\ OnceInv' /\ TimeoutsInv' /\ \A u \in Threads \ {t} : Stays(u)
    BY <1>1, <1>2, <2>1, <2>3, SdpStep DEF object, kernel, thread, past
  <2>5. OwnersInv'
    BY <1>1, <2>1, OwnersFrame DEF object, sdp, thread
  <2>6. ASSUME NEW x \in Objects, x \notin overlapped PROVE SessionOK(x)'
    <3>1. \A u \in Threads : /\ At(u, x, "stopped")' <=> At(u, x, "stopped")
                             /\ At(u, x, "registered") => At(u, x, "registered")'
                             /\ At(u, x, "sdp_register")' =>
                                  At(u, x, "sdp_register") /\ lsession'[u] = lsession[u]
                             /\ At(u, x, "sdp_connect")' =>
                                  At(u, x, "sdp_connect") \/ ~handle[x] \/ session[x] = 0
      BY <1>1, <1>4, <2>1 DEF At, thread
    <3>2. Closing(x) => Closing(x)'
      BY <2>1 DEF Closing, Busy, thread
    <3>3. \A u \in Threads : on'[u] = x /\ op'[u] = "advertise" => fd'[x] # 0
      BY <1>1, <2>1, <2>6 DEF Inv, SessionsInv, SessionOK, thread, object
    <3>4. QED
      BY <1>1, <2>6, <3>1, <3>2, <3>3, SessionFrame DEF object, sdp, past
  <2>7. SessionsInv'
    BY <1>1, <1>2, <2>6 DEF SessionsInv, SessionsAreAlive, past, sdp
  <2>8. QED
    BY <2>2, <2>4, <2>5, <2>7 DEF Inv
<1>5. QED
  BY <1>3, <1>4 DEF GetSockName

\* The new session replaces one that has no service, or is being stopped.
LEMMA SdpConnectInv ==
  ASSUME Inv, NEW t \in Threads, NEW s, s = on[t], SdpConnect(t)
  PROVE  Inv'
<1>1. /\ pc[t] = "sdp_connect"
      /\ UNCHANGED <<alive, fd, timeout, listening, handle, kernel, misused, past>>
  BY DEF SdpConnect
<1>2. /\ CallOK(t) /\ op[t] = "advertise" /\ s \in Objects /\ op[t] \in SdpOps /\ alive[s]
      /\ misused \subseteq overlapped /\ "sdp_register" \in Places /\ At(t, s, "sdp_connect")
  BY <1>1 DEF Inv, CallsInv, CallOK, SdpOps, SessionsInv, SessionsAreAlive, Places, At
<1>3. CASE Ends(t) /\ UNCHANGED <<session, sessions, owner>>
  BY <1>1, <1>2, <1>3, AdvertiseEnds DEF object
<1>4. ASSUME NEW n \in Sessions, \A m \in Sessions : sessions[m] = "unused" <=> m >= n,
             sessions' = [sessions EXCEPT ![n] = "open"], owner' = [owner EXCEPT ![n] = s],
             session' = [session EXCEPT ![s] = n], lsession' = [lsession EXCEPT ![t] = n],
             Moves(t, "sdp_register"), UNCHANGED <<op, on, lfd, at, left, timed, steady>>
      PROVE  Inv'
  <2>1. sessions[n] = "unused" /\ n # 0
    BY <1>4, NamesAre DEF Sessions
  <2>2. /\ pc'[t] = "sdp_register" /\ \A u \in Threads \ {t} : pc'[u] = pc[u]
        /\ lsession'[t] = n /\ \A u \in Threads \ {t} : lsession'[u] = lsession[u]
        /\ session'[s] = n /\ \A x \in Objects \ {s} : session'[x] = session[x]
        /\ sessions'[n] = "open" /\ \A m \in Sessions \ {n} : sessions'[m] = sessions[m]
        /\ owner'[n] = s /\ \A m \in Sessions \ {n} : owner'[m] = owner[m]
    BY <1>2, <1>4 DEF Moves, Inv, TypeOK
  <2>3. TypeOK'
    BY <1>1, <1>2, <1>4 DEF Inv, TypeOK, Moves, kernel, past
  <2>4. CallOK(t)'
    BY <1>1, <1>2, <1>4, <2>2 DEF CallOK
  <2>5. /\ CallsInv' /\ FdsInv' /\ OnceInv' /\ TimeoutsInv' /\ \A u \in Threads \ {t} : Stays(u)
    BY <1>1, <1>2, <1>4, <2>2, <2>4, SdpStep DEF kernel, past
  <2>6. /\ \A x \in Objects : session[x] # 0 => session[x] \in Sessions \ {n}
        /\ \A u \in Threads : lsession[u] # 0 => lsession[u] \in Sessions \ {n}
    BY <2>1 DEF Inv, OwnersInv, TypeOK
  <2>7. OwnersInv'
    <3>1. \A x \in Objects : session'[x] # 0 =>
            owner'[session'[x]] = x /\ sessions'[session'[x]] # "unused"
      BY <2>2, <2>6 DEF Inv, OwnersInv
    <3>2. \A u \in Threads : lsession'[u] # 0 =>
            /\ op'[u] = "advertise" /\ owner'[lsession'[u]] = on'[u]
            /\ sessions'[lsession'[u]] # "unused"
      BY <1>2, <1>4, <2>2, <2>6 DEF Inv, OwnersInv
    <3>3. \A u \in Threads : pc'[u] = "sdp_register" => lsession'[u] # 0
      BY <2>1, <2>2 DEF Inv, OwnersInv
    <3>4. \A m \in Sessions : sessions'[m] # "unused" => owner'[m] \in Objects
      BY <1>2, <2>2 DEF Inv, OwnersInv
    <3>5. QED
      BY <3>1, <3>2, <3>3, <3>4 DEF OwnersInv
  <2>8. ASSUME NEW x \in Objects, x \notin overlapped PROVE SessionOK(x)'
    <3>1. CASE x = s
      <4>1. SessionOK(s)
        BY <2>8, <3>1 DEF Inv, SessionsInv
      <4>2. \A u \in Threads \ {t} : on[u] = s => op[u] # "advertise" /\ pc[u] \notin SdpPlaces
        BY <1>2, <2>8, <3>1, NoOther DEF At, SdpOps
      <4>3. \A m \in Sessions : ~(sessions'[m] = "registered" /\ owner'[m] = s)
        <5> SUFFICES ASSUME NEW m \in Sessions \ {n}, sessions[m] = "registered", owner[m] = s
                     PROVE  FALSE
          BY <2>2
        <5>1. m = session[s] /\ session[s] # 0
          BY <4>1, NamesAre DEF SessionOK
        <5>2. handle[s] \/ \E u \in Threads : At(u, s, "registered")
          BY <4>1 DEF SessionOK
        <5>3. \A u \in Threads : ~At(u, s, "registered")
          BY <1>1, <4>2 DEF At, SdpPlaces
        <5>4. ~handle[s]
          BY <1>2, <4>1, <5>1 DEF SessionOK
        <5>5. QED
          BY <5>2, <5>3, <5>4
      <4>4. \A u \in Threads : /\ ~At(u, s, "sdp_connect")' /\ ~At(u, s, "stopped")'
                               /\ At(u, s, "sdp_register")' => u = t
        BY <1>4, <2>2, <4>2 DEF At, SdpPlaces
      <4>5. \A u \in Threads : on'[u] = s /\ op'[u] = "advertise" => fd'[s] # 0
        BY <1>1, <1>4, <4>1 DEF SessionOK
      <4>6. QED
        BY <2>2, <3>1, <4>3, <4>4, <4>5 DEF SessionOK
    <3>2. CASE x # s
      BY <1>1, <1>2, <1>4, <2>2, <2>5, <2>6, <2>8, <3>2, OtherSocket DEF past
    <3>3. QED
      BY <3>1, <3>2
  <2>9. SessionsInv'
    BY <1>1, <1>2, <2>8 DEF SessionsInv, SessionsAreAlive, past
  <2>10. QED
    BY <2>3, <2>5, <2>7, <2>9 DEF Inv
<1>5. QED
  BY <1>1, <1>3, <1>4 DEF SdpConnect

LEMMA SdpRegisterInv ==
  ASSUME Inv, NEW t \in Threads, NEW s, s = on[t], NEW n, n = lsession[t], SdpRegister(t)
  PROVE  Inv'
<1>1. /\ pc[t] = "sdp_register"
      /\ misused' = IF sessions[n] = "freed" THEN misused \cup {owner[n]} ELSE misused
      /\ UNCHANGED <<object, kernel, owner, past>>
  BY DEF SdpRegister
<1>2. /\ CallOK(t) /\ op[t] = "advertise" /\ s \in Objects /\ op[t] \in SdpOps /\ alive[s]
      /\ misused \subseteq overlapped /\ "registered" \in Places /\ At(t, s, "sdp_register")
  BY <1>1 DEF Inv, CallsInv, CallOK, SdpOps, SessionsInv, SessionsAreAlive, Places, At
<1>3. n \in Sessions /\ owner[n] = s /\ n # 0
  BY <1>1 DEF Inv, OwnersInv, TypeOK
<1>4. s \in overlapped \/ (SessionOK(s) /\ n = session[s] /\ sessions[n] = "open")
  BY <1>2 DEF Inv, SessionsInv, SessionOK
<1>5. misused' \subseteq overlapped
  BY <1>1, <1>2, <1>3, <1>4
<1>6. CASE Ends(t) /\ UNCHANGED sessions
  BY <1>1, <1>2, <1>5, <1>6, AdvertiseEnds
<1>7. CASE sessions' = [sessions EXCEPT ![n] = "registered"] /\ Goes(t, "registered")
  <2>1. /\ pc'[t] = "registered" /\ \A u \in Threads \ {t} : pc'[u] = pc[u]
        /\ sessions'[n] = "registered" /\ \A m \in Sessions \ {n} : sessions'[m] = sessions[m]
        /\ UNCHANGED thread
    BY <1>3, <1>7 DEF Goes, Moves, Inv, TypeOK
  <2>2. misused' \subseteq Objects \cup {"none"}
    BY <1>1, <1>5 DEF Inv, TypeOK
  <2>3. TypeOK'
    BY <1>1, <1>2, <1>3, <1>7, <2>2
       DEF Inv, TypeOK, Goes, Moves, object, kernel, thread, past
  <2>4. CallOK(t)'
    BY <1>1, <1>2, <2>1 DEF CallOK, object, thread
  <2>5. /\ CallsInv' /\ FdsInv' /\ OnceInv' /\ TimeoutsInv' /\ \A u \in Threads \ {t} : Stays(u)
    BY <1>1, <1>2, <2>1, <2>4, SdpStep DEF object, kernel, thread, past
  <2>6. OwnersInv'
    <3>1. UNCHANGED <<session, owner, op, on, lsession>>
      BY <1>1, <2>1 DEF object, thread
    <3>2. \A m \in Sessions : sessions[m] # "unused" <=> sessions'[m] # "unused"
      BY <1>1, <1>3, <2>1 DEF Inv, OwnersInv
    <3>3. \A u \in Threads : pc'[u] = "sdp_register" => pc[u] = "sdp_register"
      BY <2>1
    <3>4. QED
      BY <3>1, <3>2, <3>3 DEF Inv, OwnersInv, TypeOK
  <2>7. ASSUME NEW x \in Objects, x \notin overlapped PROVE SessionOK(x)'
    <3>1. CASE x = s
      <4>1. SessionOK(s) /\ n = session[s] /\ sessions[n] = "open"
        BY <1>4, <2>7, <3>1
      <4>2. \A u \in Threads \ {t} : on[u] = s => op[u] # "advertise" /\ pc[u] \notin SdpPlaces
        BY <1>2, <2>7, <3>1, NoOther DEF At, SdpOps
      <4>3. \A u \in Threads : /\ ~At(u, s, "sdp_connect")' /\ ~At(u, s, "sdp_register")'
                               /\ ~At(u, s, "stopped")'
        BY <2>1, <4>2 DEF At, SdpPlaces, thread
      <4>4. fd'[s] # 0 /\ session'[s] = n /\ At(t, s, "registered")'
        BY <1>1, <1>2, <2>1, <4>1 DEF SessionOK, object, thread, At
      <4>5. \A m \in Sessions : sessions'[m] = "registered" /\ owner'[m] = s => m = n
        BY <1>1, <2>1, <4>1 DEF SessionOK
      <4>6. QED
        BY <2>1, <3>1, <4>3, <4>4, <4>5 DEF SessionOK
    <3>2. CASE x # s
      <4>1. on'[t] # x
        BY <2>1, <3>2 DEF thread
      <4>2. session[x] # 0 => session[x] \in Sessions \ {n}
        BY <1>3, <3>2 DEF Inv, OwnersInv, TypeOK
      <4>3. \A m \in Sessions : sessions'[m] = "registered" /\ owner'[m] = x =>
                                sessions[m] = "registered" /\ owner[m] = x
        BY <1>1, <1>3, <2>1, <3>2
      <4>4. QED
        BY <1>1, <2>1, <2>5, <2>7, <3>2, <4>1, <4>2, <4>3, OtherSocket DEF object, past
    <3>3. QED
      BY <3>1, <3>2
  <2>8. SessionsInv'
    BY <1>1, <1>5, <2>7 DEF SessionsInv, SessionsAreAlive, past
  <2>9. QED
    BY <2>3, <2>5, <2>6, <2>8 DEF Inv
<1>8. QED
  BY <1>6, <1>7 DEF SdpRegister

LEMMA NoteHandleInv ==
  ASSUME Inv, NEW t \in Threads, NEW s, s = on[t], NoteHandle(t)
  PROVE  Inv'
<1>1. /\ pc[t] = "registered" /\ Ends(t) /\ handle' = [handle EXCEPT ![s] = TRUE]
      /\ UNCHANGED <<alive, fd, timeout, listening, session, kernel, sdp, past>>
  BY DEF NoteHandle
<1>2. CallOK(t) /\ op[t] = "advertise" /\ s \in Objects /\ op[t] \in SdpOps
  BY <1>1 DEF Inv, CallsInv, CallOK, SdpOps
<1>3. /\ handle'[s] /\ \A x \in Objects \ {s} : handle'[x] = handle[x]
      /\ handle' \in [Objects -> BOOLEAN]
  BY <1>1, <1>2 DEF Inv, TypeOK
<1>4. TypeOK'
  BY <1>1, <1>3, EndsIs DEF Inv, TypeOK, kernel, sdp, past
<1>5. /\ CallsInv' /\ FdsInv' /\ OnceInv' /\ TimeoutsInv' /\ \A u \in Threads \ {t} : Stays(u)
  BY <1>1, <1>2, SdpStep DEF kernel, past
<1>6. /\ op'[t] = "none" /\ on'[t] = "none" /\ lsession'[t] = 0 /\ pc'[t] = "idle"
  BY <1>1, EndsIs DEF Inv
<1>7. OwnersInv'
  BY <1>1, <1>5, <1>6, OwnersFrame DEF Stays, sdp
<1>8. ASSUME NEW x \in Objects, x \notin overlapped PROVE SessionOK(x)'
  <2>1. CASE x = s
    <3>1. SessionOK(s)
      BY <1>8, <2>1 DEF Inv, SessionsInv
    <3>2. \A u \in Threads \ {t} : on[u] = s => op[u] \notin SdpOps /\ pc[u] \notin SdpPlaces
      BY <1>2, <1>8, <2>1, NoOther DEF At, SdpOps
    <3>3. \A u \in Threads : on'[u] = s => op'[u] # "advertise" /\ pc'[u] \notin SdpPlaces
      BY <1>2, <1>5, <1>6, <3>2, NamesAre DEF Stays, SdpOps
    <3>4. \A u \in Threads : /\ ~At(u, s, "sdp_connect")' /\ ~At(u, s, "sdp_register")'
                             /\ ~At(u, s, "stopped")' /\ ~At(u, s, "stopped")
      BY <1>1, <3>2, <3>3 DEF At, SdpPlaces
    <3>5. fd'[s] # 0
      BY <1>1, <1>2, <3>1 DEF SessionOK
    <3>6. QED
      BY <1>1, <1>3, <2>1, <3>1, <3>3, <3>4, <3>5 DEF SessionOK, sdp
  <2>2. CASE x # s
    <3>1. on'[t] # x
      BY <1>6, NamesAre
    <3>2. QED
      BY <1>1, <1>3, <1>5, <1>8, <2>2, <3>1, OtherSocket DEF past, sdp
  <2>3. QED
    BY <2>1, <2>2
<1>9. SessionsInv'
  BY <1>1, <1>8 DEF Inv, SessionsInv, SessionsAreAlive, past, sdp
<1>10. QED
  BY <1>4, <1>5, <1>7, <1>9 DEF Inv

-----------------------------------------------------------------------------
(***************************************************************************)
(* Objects that go, and the other end.                                     *)
(***************************************************************************)
LEMMA DeallocInv ==
  ASSUME Inv, NEW s \in Objects, Dealloc(s)
  PROVE  Inv'
<1>1. /\ alive[s] /\ \A t \in Threads : on[t] # s
      /\ alive' = [alive EXCEPT ![s] = FALSE] /\ fd' = [fd EXCEPT ![s] = 0]
      /\ fds' = [d \in Fds |-> IF d = fd[s] THEN "free" ELSE fds[d]]
      /\ FreesSession(session[s])
      /\ session' = [session EXCEPT ![s] = 0] /\ handle' = [handle EXCEPT ![s] = FALSE]
      /\ UNCHANGED <<timeout, listening, file, nonblock, ready, pc, thread, past>>
  BY DEF Dealloc, Busy
<1>2. \A t \in Threads : \A w : ~At(t, s, w)
  BY <1>1 DEF At
<1>3. /\ \A n \in Sessions : sessions'[n] = IF n = session[s] THEN "freed" ELSE sessions[n]
      /\ owner' = owner /\ misused' \subseteq overlapped
      /\ sessions' \in [Sessions -> {"unused", "open", "registered", "freed"}]
      /\ misused' \subseteq Objects \cup {"none"}
      /\ \A x \in Objects \ {s} : session[x] # 0 => session[x] # session[s]
      /\ \A n \in Sessions : sessions'[n] = "unused" <=> sessions[n] = "unused"
  BY <1>1, <1>2, FreesIs
<1>4. /\ ~alive'[s] /\ fd'[s] = 0 /\ session'[s] = 0
      /\ \A x \in Objects \ {s} : /\ alive'[x] = alive[x] /\ fd'[x] = fd[x]
                                  /\ session'[x] = session[x] /\ handle'[x] = handle[x]
      /\ \A d \in Fds : fds'[d] = IF d = fd[s] THEN "free" ELSE fds[d]
      /\ UNCHANGED <<timeout, file, nonblock>> /\ overlapped' = overlapped
      /\ UNCHANGED <<pc, op, on, lfd, at, lsession, timed, steady>>
  BY <1>1 DEF Inv, TypeOK, thread, past
<1>5. TypeOK'
  <2>1. fds' \in [Fds -> Objects \cup {"free", "other"}]
    BY <1>1 DEF Inv, TypeOK
  <2>2. alive' \in [Objects -> BOOLEAN] /\ fd' \in [Objects -> Fds \cup {0}]
        /\ session' \in [Objects -> Sessions \cup {0}] /\ handle' \in [Objects -> BOOLEAN]
    BY <1>1 DEF Inv, TypeOK
  <2>3. QED
    BY <1>1, <1>3, <2>1, <2>2 DEF Inv, TypeOK, thread, past
<1>6. \A t \in Threads : Stays(t)
  BY <1>4 DEF Stays
<1>7. CallsInv'
  <2>1. \A x \in Objects : alive[x] /\ ~alive'[x] => \A t \in Threads : on[t] # x
    BY <1>1, <1>4
  <2>2. QED
    BY <1>6, <2>1, CallsFrame
<1>8. FdsInv'
  <2>1. \A x \in Objects \ {s} : fd[x] # 0 => fd[x] # fd[s]
    BY DEF Inv, FdsInv
  <2>2. \A t \in Threads : pc[t] = "closing" => lfd[t] # fd[s] /\ lfd[t] \in Fds
    BY DEF Inv, TypeOK, FdsInv, Closes
  <2>3. ClosesItsOwn'
    <3>1. \A x \in Objects : fd'[x] # 0 => fds'[fd'[x]] = file'[x]
      BY <1>4, <2>1 DEF Inv, TypeOK, FdsInv, ClosesItsOwn
    <3>2. \A t \in Threads : pc'[t] = "closing" => fds'[lfd'[t]] = file'[on'[t]]
      BY <1>4, <2>2 DEF Inv, FdsInv, ClosesItsOwn
    <3>3. QED
      BY <3>1, <3>2 DEF ClosesItsOwn
  <2>4. \A x \in Objects : /\ alive'[x] => file'[x] # "none"
                           /\ fd'[x] # 0 => alive'[x]
                           /\ file'[x] # "none" => file'[file'[x]] = file'[x]
    BY <1>4 DEF Inv, FdsInv
  <2>5. \A t \in Threads : \A d : Closes(t, d)' <=> Closes(t, d)
    BY <1>4 DEF Closes
  <2>6. \A t \in Threads : ~Closes(t, 0)'
    BY <2>5 DEF Inv, FdsInv
  <2>7. \A x, y \in Objects : fd'[x] # 0 /\ fd'[x] = fd'[y] => x = y
    BY <1>4 DEF Inv, FdsInv
  <2>8. ASSUME NEW t \in Threads, NEW x \in Objects PROVE ~Closes(t, fd[x])'
    <3>1. ~Closes(t, 0) /\ ~Closes(t, fd[x])
      BY DEF Inv, FdsInv
    <3>2. fd'[x] = 0 \/ fd'[x] = fd[x]
      BY <1>4
    <3>3. QED
      BY <1>4, <3>1, <3>2 DEF Closes
  <2>9. \A t, u \in Threads : Closes(t, lfd[u])' /\ pc'[u] = "closing" => t = u
    BY <1>4 DEF Inv, FdsInv, Closes
  <2>10. ASSUME NEW d \in Fds, fds'[d] \in Objects
         PROVE  (\E x \in Objects : fd'[x] = d) \/ \E t \in Threads : Closes(t, d)'
    <3>1. d # fd[s] /\ fds[d] \in Objects
      BY <1>4, <2>10, NamesAre
    <3>2. CASE \E x \in Objects : fd[x] = d
      BY <1>4, <3>1, <3>2
    <3>3. CASE \E t \in Threads : Closes(t, d)
      BY <2>5, <3>3
    <3>4. QED
      BY <3>1, <3>2, <3>3 DEF Inv, FdsInv
  <2>11. QED
    BY <2>3, <2>4, <2>6, <2>7, <2>8, <2>9, <2>10 DEF FdsInv
<1>9. OnceInv'
  BY <1>4, OnceFrame
<1>10. OwnersInv'
  BY <1>3, <1>4 DEF Inv, OwnersInv, TypeOK
<1>11. ASSUME NEW x \in Objects, x \notin overlapped PROVE SessionOK(x)'
  <2>1. CASE x = s
    <3>1. \A n \in Sessions : ~(sessions'[n] = "registered" /\ owner'[n] = s)
      BY <1>3, <1>11, <2>1, NoServiceOf
    <3>2. \A t \in Threads : /\ ~At(t, s, "sdp_connect")' /\ ~At(t, s, "sdp_register")'
                             /\ ~At(t, s, "stopped")' /\ on'[t] # s
      BY <1>1, <1>4 DEF At
    <3>3. QED
      BY <1>4, <2>1, <3>1, <3>2 DEF SessionOK
  <2>2. CASE x # s
    <3>1. session[x] # 0 => sessions'[session[x]] = sessions[session[x]]
      BY <1>3, <2>2 DEF Inv, TypeOK
    <3>2. \A t \in Threads : \A w : At(t, x, w)' <=> At(t, x, w)
      BY <1>4 DEF At
    <3>3. Closing(x)' <=> Closing(x)
      BY <1>4 DEF Closing, Busy
    <3>4. \A t \in Threads : on[t] = x /\ op[t] = "advertise" => fd[x] # 0
      BY <1>11 DEF Inv, SessionsInv, SessionOK
    <3>5. \A n \in Sessions : sessions'[n] = "registered" /\ owner'[n] = x =>
                              sessions[n] = "registered" /\ owner[n] = x
      BY <1>3
    <3>6. QED
      BY <1>4, <1>11, <2>2, <3>1, <3>2, <3>3, <3>4, <3>5, SessionFrame
  <2>3. QED
    BY <2>1, <2>2
<1>12. SessionsInv'
  BY <1>3, <1>4, <1>11 DEF SessionsInv, SessionsAreAlive
<1>13. TimeoutsInv'
  <2>1. TimeoutHolds'
    BY <1>4, HoldsFrame
  <2>2. \A d \in Fds : fds'[d] = fds[d] \/ fds'[d] \notin Objects
    BY <1>4, NamesAre
  <2>3. \A x \in Objects, t \in Threads : SetsOf(t, x) => fd'[x] = fd[x]
    BY <1>1, <1>4 DEF SetsOf
  <2>4. QED
    BY <1>4, <1>6, <1>7, <2>1, <2>2, <2>3, TimeoutsFrame
<1>14. QED
  BY <1>5, <1>7, <1>8, <1>9, <1>10, <1>12, <1>13 DEF Inv

\* A step that leaves the threads and the objects, and a descriptor that was
\* free, or opened for another file.
LEMMA ElseInv ==
  ASSUME Inv, \/ \E s \in Objects : Arrives(s)
              \/ \E d \in Fds : OtherOpens(d)
              \/ UNCHANGED vars
  PROVE  Inv'
<1>1. /\ UNCHANGED <<object, file, nonblock, sdp, pc, thread, past>>
      /\ \/ fds' = fds
         \/ \E d \in Fds : fds[d] = "free" /\ fds' = [fds EXCEPT ![d] = "other"]
      /\ ready' \in [Objects -> BOOLEAN]
  <2>1. ready \in [Objects -> BOOLEAN]
    BY DEF Inv, TypeOK
  <2>2. ASSUME NEW s \in Objects, Arrives(s)
        PROVE  /\ UNCHANGED <<object, file, fds, nonblock, sdp, pc, thread, past>>
               /\ ready' \in [Objects -> BOOLEAN]
    BY <2>1, <2>2 DEF Arrives
  <2>3. ASSUME NEW d \in Fds, OtherOpens(d)
        PROVE  /\ UNCHANGED <<object, file, nonblock, ready, sdp, pc, thread, past>>
               /\ fds[d] = "free" /\ fds' = [fds EXCEPT ![d] = "other"]
    BY <2>3 DEF OtherOpens, Lowest
  <2>4. CASE UNCHANGED vars
    BY <2>1, <2>4 DEF vars, kernel
  <2>5. QED
    BY <2>1, <2>2, <2>3, <2>4
<1>2. /\ UNCHANGED <<alive, fd, timeout, listening, session, handle, file, nonblock>>
      /\ UNCHANGED <<sdp, pc, op, on, lfd, at, lsession, left, timed, steady>>
      /\ UNCHANGED <<overlapped, calls>>
  BY <1>1 DEF object, thread, past
<1>3. \A d \in Fds : fds'[d] = fds[d] \/ (fds[d] = "free" /\ fds'[d] = "other")
  BY <1>1 DEF Inv, TypeOK
<1>4. TypeOK'
  <2>1. fds' \in [Fds -> Objects \cup {"free", "other"}]
    BY <1>1 DEF Inv, TypeOK
  <2>2. QED
    BY <1>1, <1>2, <2>1 DEF Inv, TypeOK, sdp
<1>5. \A t \in Threads : Stays(t)
  BY <1>2 DEF Stays
<1>6. CallsInv'
  BY <1>2, <1>5, CallsFrame
<1>7. FdsInv'
  <2>1. \A s \in Objects : fd[s] # 0 => fds'[fd[s]] = fds[fd[s]]
    <3> SUFFICES ASSUME NEW s \in Objects, fd[s] # 0 PROVE fds[fd[s]] # "free" /\ fd[s] \in Fds
      BY <1>3
    <3>1. fds[fd[s]] = file[s] /\ file[s] # "none" /\ fd[s] \in Fds
      BY DEF Inv, TypeOK, FdsInv, ClosesItsOwn
    <3>2. QED
      BY <3>1, NamesAre DEF Inv, TypeOK
  <2>2. \A t \in Threads : pc[t] = "closing" => fds'[lfd[t]] = fds[lfd[t]]
    <3> SUFFICES ASSUME NEW t \in Threads, pc[t] = "closing"
                 PROVE  fds[lfd[t]] # "free" /\ lfd[t] \in Fds
      BY <1>3
    <3>1. fds[lfd[t]] = file[on[t]] /\ lfd[t] \in Fds
      BY DEF Inv, TypeOK, FdsInv, ClosesItsOwn, Closes
    <3>2. CallOK(t) /\ on[t] \in Objects /\ alive[on[t]]
      BY DEF Inv, CallsInv, CallOK
    <3>3. file[on[t]] \in Objects
      BY <3>2 DEF Inv, TypeOK, FdsInv
    <3>4. QED
      BY <3>1, <3>3, NamesAre
  <2>3. ClosesItsOwn'
    BY <1>2, <2>1, <2>2 DEF Inv, FdsInv, ClosesItsOwn
  <2>4. \A d \in Fds : fds'[d] \in Objects => fds[d] \in Objects
    BY <1>3, NamesAre
  <2>5. \A t \in Threads : \A d : Closes(t, d)' <=> Closes(t, d)
    BY <1>2 DEF Closes
  <2>6. QED
    BY <1>2, <2>3, <2>4, <2>5 DEF Inv, FdsInv
<1>8. OnceInv'
  BY <1>2, OnceFrame
<1>9. OwnersInv'
  BY <1>2, OwnersFrame DEF sdp
<1>10. SessionsInv'
  BY <1>2, <1>6, SessionsFrame
<1>11. TimeoutsInv'
  <2>1. TimeoutHolds'
    BY <1>2, HoldsFrame
  <2>2. \A d \in Fds : fds'[d] = fds[d] \/ fds'[d] \notin Objects
    BY <1>3, NamesAre
  <2>3. QED
    BY <1>2, <1>5, <1>6, <2>1, <2>2, TimeoutsFrame
<1>12. QED
  BY <1>4, <1>6, <1>7, <1>8, <1>9, <1>10, <1>11 DEF Inv

-----------------------------------------------------------------------------
(***************************************************************************)
(* The theorems.                                                           *)
(***************************************************************************)
LEMMA InitInv ==
  ASSUME Init
  PROVE  Inv
<1>1. PICK s \in Objects :
        /\ alive = [o \in Objects |-> o = s]
        /\ fd = [o \in Objects |-> IF o = s THEN 1 ELSE 0]
        /\ timeout = [o \in Objects |-> DefaultTimeout]
        /\ \E l \in BOOLEAN : listening = [o \in Objects |-> o = s /\ l]
        /\ session = [o \in Objects |-> 0] /\ handle = [o \in Objects |-> FALSE]
        /\ file = [o \in Objects |-> IF o = s THEN s ELSE "none"]
        /\ fds = [d \in Fds |-> IF d = 1 THEN s ELSE "free"]
        /\ nonblock = [o \in Objects |-> o = s /\ DefaultTimeout # "none"]
  BY DEF Init
<1>2. /\ ready = [o \in Objects |-> FALSE]
      /\ sessions = [n \in Sessions |-> "unused"] /\ owner = [n \in Sessions |-> "none"]
      /\ pc = [t \in Threads |-> "idle"] /\ op = [t \in Threads |-> "none"]
      /\ on = [t \in Threads |-> "none"] /\ lfd = [t \in Threads |-> 0]
      /\ at = [t \in Threads |-> "none"] /\ lsession = [t \in Threads |-> 0]
      /\ left = [t \in Threads |-> 0] /\ timed = [t \in Threads |-> FALSE]
      /\ steady = [t \in Threads |-> FALSE]
      /\ misused = {} /\ overlapped = {} /\ calls = 0
  BY DEF Init
<1>3. TypeOK
  <2>1. 0 \in 0..MaxChunks /\ 0 \in Nat
    BY NamesAre
  <2>2. listening \in [Objects -> BOOLEAN]
    BY <1>1
  <2>3. QED
    BY <1>1, <1>2, <2>1, <2>2, NamesAre DEF TypeOK, Places
<1>4. /\ alive[s] /\ fd[s] = 1 /\ file[s] = s /\ fds[1] = s /\ session[s] = 0
      /\ nonblock[s] = (DefaultTimeout # "none")
      /\ \A o \in Objects \ {s} : ~alive[o] /\ fd[o] = 0 /\ file[o] = "none" /\ session[o] = 0
      /\ \A o \in Objects : timeout[o] = DefaultTimeout
      /\ \A d \in Fds \ {1} : fds[d] = "free"
  BY <1>1, NamesAre
<1>5. /\ \A t \in Threads : /\ pc[t] = "idle" /\ op[t] = "none" /\ on[t] = "none"
                            /\ lsession[t] = 0 /\ ~timed[t] /\ ~steady[t]
      /\ \A n \in Sessions : sessions[n] = "unused"
  BY <1>2
<1>6. CallsInv
  BY <1>5 DEF CallsInv, CallOK
<1>7. FdsInv
  BY <1>4, <1>5, NamesAre DEF FdsInv, ClosesItsOwn, Closes
<1>8. OnceInv
  BY <1>5 DEF OnceInv, Configures, SetsTimeout
<1>9. OwnersInv
  BY <1>4, <1>5 DEF OwnersInv
<1>10. SessionsInv
  BY <1>2, <1>4, <1>5 DEF SessionsInv, SessionOK, SessionsAreAlive, At
<1>11. TimeoutsInv
  <2>1. \A t \in Threads : SteadyOK(t)
    BY <1>5 DEF SteadyOK
  <2>2. \A o \in Objects : Alone(o) => o = s
    BY <1>4 DEF Alone
  <2>3. TimeoutOK(s)
    BY <1>4, <1>5, NamesAre DEF TimeoutOK, SetsTimeout
  <2>4. TimeoutHolds
    BY <1>5 DEF TimeoutHolds
  <2>5. QED
    BY <2>1, <2>2, <2>3, <2>4 DEF TimeoutsInv
<1>12. QED
  BY <1>3, <1>6, <1>7, <1>8, <1>9, <1>10, <1>11 DEF Inv

LEMMA StepInv ==
  ASSUME Inv, [Next]_vars
  PROVE  Inv'
<1>1. ASSUME NEW t \in Threads, Continue(t) PROVE Inv'
  <2>1. CASE Select(t)
    BY <2>1, SelectInv
  <2>2. CASE SelectReady(t)
    BY <2>2, SelectReadyInv
  <2>3. CASE SelectTimesOut(t)
    BY <2>3, SelectTimesOutInv
  <2>4. CASE Load(t)
    BY <2>4, LoadInv
  <2>5. CASE CallFails(t)
    BY <2>5, CallFailsInv
  <2>6. CASE CallWouldBlock(t)
    BY <2>6, CallWouldBlockInv
  <2>7. CASE CallBlocks(t)
    BY <2>7, CallBlocksInv
  <2>8. CASE CallTransfers(t)
    BY <2>8, CallTransfersInv
  <2>9. CASE CallAccepts(t)
    BY <2>9, CallAcceptsInv
  <2>10. CASE InternalSetBlocking(t)
    BY <2>10, InternalSetBlockingInv
  <2>11. CASE CallListens(t)
    BY <2>11, CallListensInv
  <2>12. CASE NoteListening(t)
    BY <2>12, NoteListeningInv
  <2>13. CASE CloseFd(t)
    BY <2>13, CloseFdInv
  <2>14. CASE CloseSession(t)
    BY <2>14, CloseSessionInv
  <2>15. CASE GetSockName(t)
    BY <2>15, GetSockNameInv
  <2>16. CASE SdpConnect(t)
    BY <2>16, SdpConnectInv
  <2>17. CASE SdpRegister(t)
    BY <2>17, SdpRegisterInv
  <2>18. CASE NoteHandle(t)
    BY <2>18, NoteHandleInv
  <2>19. CASE StopSession(t)
    BY <2>19, StopSessionInv
  <2>20. CASE NoteStopped(t)
    BY <2>20, NoteStoppedInv
  <2>21. QED
    BY <1>1, <2>1, <2>2, <2>3, <2>4, <2>5, <2>6, <2>7, <2>8, <2>9, <2>10, <2>11, <2>12,
       <2>13, <2>14, <2>15, <2>16, <2>17, <2>18, <2>19, <2>20 DEF Continue
<1>2. ASSUME NEW t \in Threads, NEW s \in Objects, Call(t, s) PROVE Inv'
  BY <1>2, CallsBegin, SetTimeoutInv, CloseInv, CallsOfSdp DEF Call
<1>3. ASSUME NEW s \in Objects, Dup(s) \/ Dealloc(s) PROVE Inv'
  BY <1>3, DupInv, DeallocInv
<1>4. QED
  BY <1>1, <1>2, <1>3, ElseInv DEF Next

\* The inductive invariant holds of every behaviour.
THEOREM Invariance == Spec => []Inv
<1>1. Init => Inv
  BY InitInv
<1>2. Inv /\ [Next]_vars => Inv'
  BY StepInv
<1>3. QED
  BY <1>1, <1>2, PTL DEF Spec

\* The fields of the objects, the kernel's tables and the locals of the threads
\* have their types, whatever the threads call.
THEOREM TypeCorrect == Spec => []TypeOK
<1>1. Inv => TypeOK
  BY DEF Inv
<1>2. QED
  BY <1>1, Invariance, PTL

\* sock_close and sock_dealloc close each descriptor once, and never one that
\* the kernel has given to another file by then.
THEOREM OwnDescriptors == Spec => []ClosesItsOwn
<1>1. Inv => ClosesItsOwn
  BY DEF Inv, FdsInv
<1>2. QED
  BY <1>1, Invariance, PTL

\* What sdp_advertise_service registered is unregistered when the socket is
\* closed or goes, unless calls that configure the socket have overlapped.
THEOREM ServicesEnd == Spec => []ServiceEndsWithSocket
<1>1. Inv => ServiceEndsWithSocket
  <2> SUFFICES ASSUME Inv, NEW n \in Sessions, sessions[n] = "registered",
                      owner[n] \notin overlapped
               PROVE  fd[owner[n]] # 0 \/ Closing(owner[n])
    BY DEF ServiceEndsWithSocket
  <2>1. owner[n] \in Objects
    BY DEF Inv, OwnersInv
  <2>2. QED
    BY <2>1 DEF Inv, SessionsInv, SessionOK
<1>2. QED
  BY <1>1, Invariance, PTL

\* The session of such a socket is never used after it was freed, nor freed
\* twice.
THEOREM LiveSessions == Spec => []SessionsAreAlive
<1>1. Inv => SessionsAreAlive
  BY DEF Inv, SessionsInv
<1>2. QED
  BY <1>1, Invariance, PTL

\* A call that has waited in internal_select does not go on to wait in the
\* kernel, where no timeout ends it, but in the cases TimeoutHolds names.
THEOREM TimeoutsHold == Spec => []TimeoutHolds
<1>1. Inv => TimeoutHolds
  BY DEF Inv, TimeoutsInv
<1>2. QED
  BY <1>1, Invariance, PTL

=============================================================================

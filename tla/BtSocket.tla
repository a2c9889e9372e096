------------------------------ MODULE BtSocket ------------------------------
(***************************************************************************)
(* The socket objects of the _bluetooth extension module, called by        *)
(* several threads.                                                        *)
(*                                                                         *)
(* A method runs under the interpreter lock except between                 *)
(* Py_BEGIN_ALLOW_THREADS and Py_END_ALLOW_THREADS, where other threads    *)
(* run and the fields of the object are read without it.  A step is what   *)
(* runs without giving up the lock, or one such read or system call.  A    *)
(* call that returns an error at once leaves all as it was and is no step. *)
(*                                                                         *)
(* Calls configure a socket when they set its timeout, close it, advertise *)
(* a service or stop to: nothing orders two of them that overlap.          *)
(***************************************************************************)
EXTENDS Naturals, FiniteSets

CONSTANTS
  Threads, Objects,
  DefaultTimeout,  \* defaulttimeout: of sockets that are created
  MaxFd,           \* bound: descriptors of the process
  MaxSessions,     \* bound: SDP sessions ever opened
  MaxChunks,       \* bound: calls of send in one sendall
  MaxCalls         \* bound: calls of the socket methods

Timeouts == {"none", "zero", "some"}
Fds      == 1..MaxFd      \* 0 stands for the descriptor -1
Sessions == 1..MaxSessions

ASSUME SocketAssumption == /\ {"none", "free", "other"} \cap Objects = {}
                           /\ DefaultTimeout \in Timeouts
                           /\ MaxFd \in Nat \ {0}
                           /\ MaxSessions \in Nat
                           /\ MaxChunks \in Nat \ {0}
                           /\ MaxCalls \in Nat

VARIABLES
  \* the fields of the objects
  alive,      \* the object exists
  fd,         \* sock_fd
  timeout,    \* sock_timeout: negative, zero or positive
  listening,  \* is_listening_socket
  session,    \* sdp_session, 0 for NULL
  handle,     \* sdp_record_handle is not 0
  \* the kernel and the SDP daemon
  file,       \* the file an object was made for, named by its first object
  fds,        \* the descriptors of the process
  nonblock,   \* O_NONBLOCK of each file
  ready,      \* what is waited for at a file is there
  sessions,   \* the state of each SDP session
  owner,      \* the object each session was opened for
  \* the threads
  pc, op, on,  \* where a thread is in which method of which object
  lfd,         \* the descriptor it has read
  at,          \* the file it waits for
  lsession,    \* the session it has opened
  left,        \* what is left to send
  \* history
  timed,      \* the call has waited in select
  steady,     \* no timeout was changed at its file during the call
  overlapped, \* those of a file of which calls that configure it overlapped, or
              \* one that was to configure another file took effect
  misused,    \* the objects of which a session was used after it was freed
  calls

object  == <<alive, fd, timeout, listening, session, handle>>
kernel  == <<file, fds, nonblock, ready>>
sdp     == <<sessions, owner, misused>>
thread  == <<op, on, lfd, at, lsession, left, timed, steady>>
past    == <<overlapped, calls>>
vars    == <<object, kernel, sdp, pc, thread, past>>

Files == {file[s] : s \in Objects} \ {"none"}

\* The kernel gives out the lowest free descriptor.
Lowest(d) == /\ d \in Fds /\ fds[d] = "free"
             /\ \A e \in Fds : e < d => fds[e] # "free"

Busy(t, s) == on[t] = s

Init == \E s \in Objects :
  /\ alive = [o \in Objects |-> o = s]
  /\ fd = [o \in Objects |-> IF o = s THEN 1 ELSE 0]
  /\ timeout = [o \in Objects |-> DefaultTimeout]
  /\ \E l \in BOOLEAN : listening = [o \in Objects |-> o = s /\ l]
  /\ session = [o \in Objects |-> 0]
  /\ handle = [o \in Objects |-> FALSE]
  /\ file = [o \in Objects |-> IF o = s THEN s ELSE "none"]
  /\ fds = [d \in Fds |-> IF d = 1 THEN s ELSE "free"]
  /\ nonblock = [o \in Objects |-> o = s /\ DefaultTimeout # "none"]
  /\ ready = [o \in Objects |-> FALSE]
  /\ sessions = [n \in Sessions |-> "unused"]
  /\ owner = [n \in Sessions |-> "none"]
  /\ pc = [t \in Threads |-> "idle"]
  /\ op = [t \in Threads |-> "none"]
  /\ on = [t \in Threads |-> "none"]
  /\ lfd = [t \in Threads |-> 0]
  /\ at = [t \in Threads |-> "none"]
  /\ lsession = [t \in Threads |-> 0]
  /\ left = [t \in Threads |-> 0]
  /\ timed = [t \in Threads |-> FALSE]
  /\ steady = [t \in Threads |-> FALSE]
  /\ misused = {}
  /\ overlapped = {}
  /\ calls = 0

-----------------------------------------------------------------------------
(***************************************************************************)
(* Calls.                                                                  *)
(***************************************************************************)
Transfers == {"transfer", "accept"}
SetsTimeout == {"block", "unblock"}
Configures == SetsTimeout \cup {"close", "advertise", "stop"}

\* A call under way that is one of ops, of s or another object of the same file.
UnderWay(s, ops) == \E t \in Threads : op[t] \in ops /\ file[on[t]] = file[s]

\* Thread t calls method o of s, with n pieces to transfer.
Starts(t, s, o, where, d, n) ==
  /\ pc[t] = "idle" /\ alive[s] /\ calls < MaxCalls
  /\ pc' = [pc EXCEPT ![t] = where]
  /\ op' = [op EXCEPT ![t] = o]
  /\ on' = [on EXCEPT ![t] = s]
  /\ lfd' = [lfd EXCEPT ![t] = d]
  /\ left' = [left EXCEPT ![t] = n]
  /\ steady' = [u \in Threads |->
                  IF u = t THEN ~UnderWay(s, SetsTimeout)
                  ELSE steady[u] /\ (o \in SetsTimeout => file[on[u]] # file[s])]
  /\ overlapped' = IF o \in Configures /\ UnderWay(s, Configures)
                   THEN overlapped \cup {u \in Objects : file[u] = file[s]} ELSE overlapped
  /\ calls' = calls + 1
  /\ UNCHANGED <<at, lsession, timed>>

\* It goes on, or returns.
Moves(t, where) == pc' = [pc EXCEPT ![t] = where]
Goes(t, where)  == Moves(t, where) /\ UNCHANGED thread

Ends(t) ==
  /\ Moves(t, "idle")
  /\ op' = [op EXCEPT ![t] = "none"]
  /\ on' = [on EXCEPT ![t] = "none"]
  /\ lfd' = [lfd EXCEPT ![t] = 0]
  /\ at' = [at EXCEPT ![t] = "none"]
  /\ lsession' = [lsession EXCEPT ![t] = 0]
  /\ left' = [left EXCEPT ![t] = 0]
  /\ timed' = [timed EXCEPT ![t] = FALSE]
  /\ steady' = [steady EXCEPT ![t] = FALSE]

\* A new object for descriptor d of file f.  It does not ask whether the file
\* blocks: it sets the default timeout.
NewSocket(o, d, f) ==
  /\ file[o] = "none" /\ Lowest(d)
  /\ alive' = [alive EXCEPT ![o] = TRUE]
  /\ fd' = [fd EXCEPT ![o] = d]
  /\ timeout' = [timeout EXCEPT ![o] = DefaultTimeout]
  /\ file' = [file EXCEPT ![o] = f]
  /\ fds' = [fds EXCEPT ![d] = f]
  /\ nonblock' = [nonblock EXCEPT ![f] = nonblock[f] \/ DefaultTimeout # "none"]
  /\ UNCHANGED <<listening, session, handle>>

\* sdp_close; a session that was freed is used again.
FreesSession(n) ==
  /\ sessions' = [m \in Sessions |-> IF m = n THEN "freed" ELSE sessions[m]]
  /\ misused' = misused \cup {owner[m] : m \in {k \in Sessions : k = n /\ sessions[k] = "freed"}}
  /\ UNCHANGED owner

\* The object goes with its last reference, which every call under way holds.
Dealloc(s) ==
  /\ alive[s]
  /\ \A t \in Threads : ~Busy(t, s)
  /\ alive' = [alive EXCEPT ![s] = FALSE]
  /\ fd' = [fd EXCEPT ![s] = 0]
  /\ fds' = [d \in Fds |-> IF d = fd[s] THEN "free" ELSE fds[d]]
  /\ FreesSession(session[s])
  /\ session' = [session EXCEPT ![s] = 0]
  /\ handle' = [handle EXCEPT ![s] = FALSE]
  /\ UNCHANGED <<timeout, listening, file, nonblock, ready, pc, thread, past>>

-----------------------------------------------------------------------------
(***************************************************************************)
(* recv, recvfrom, send, sendto and sendall, which transfer; accept and    *)
(* connect.  Which way they transfer is left out.                          *)
(***************************************************************************)
Transfer(t, s) == \E o \in Transfers, n \in 1..MaxChunks :
  /\ n > 1 => o = "transfer"
  /\ Starts(t, s, o, "select", 0, n)
  /\ UNCHANGED <<object, kernel, sdp>>

Connect(t, s) ==
  /\ Starts(t, s, "connect", "load", 0, 1)
  /\ UNCHANGED <<object, kernel, sdp>>

\* internal_select: only with a timeout, and only if the socket is not closed.
\* A select that fails counts as ready.
Select(t) ==
  LET s == on[t]
      waits == timeout[s] = "some" /\ fd[s] # 0 /\ fds[fd[s]] \in Files
  IN  /\ pc[t] = "select"
      /\ \/ /\ waits
            /\ Moves(t, "wait")
            /\ at' = [at EXCEPT ![t] = fds[fd[s]]]
            /\ timed' = [timed EXCEPT ![t] = TRUE]
            /\ UNCHANGED <<op, on, lfd, lsession, left, steady>>
         \/ ~waits /\ Goes(t, "load")
      /\ UNCHANGED <<object, kernel, sdp, past>>

\* The select waits at the file it was called for.
SelectReady(t) ==
  /\ pc[t] = "wait"
  /\ ready[at[t]]
  /\ Goes(t, "load")
  /\ UNCHANGED <<object, kernel, sdp, past>>

\* After a timeout connect tries once more, the others raise.
SelectTimesOut(t) ==
  /\ pc[t] = "wait"
  /\ IF op[t] = "reconnect" THEN Goes(t, "load") ELSE Ends(t)
  /\ UNCHANGED <<object, kernel, sdp, past>>

\* The argument of the system call is read from the object, ...
Load(t) ==
  /\ pc[t] = "load"
  /\ lfd' = [lfd EXCEPT ![t] = fd[on[t]]]
  /\ Moves(t, "syscall")
  /\ UNCHANGED <<op, on, at, lsession, left, timed, steady>>
  /\ UNCHANGED <<object, kernel, sdp, past>>

\* ... and the call acts on the file that has this descriptor by now.
FileOf(t) == IF lfd[t] = 0 THEN "free" ELSE fds[lfd[t]]

Transferring == Transfers \cup {"connect", "reconnect"}

\* It fails, or acts on a file that is none of the sockets.  Setting the flag
\* of a file does not fail.
CallFails(t) ==
  /\ \/ pc[t] \in {"syscall", "blocked"} /\ op[t] \in Transferring \cup {"listen"}
     \/ pc[t] = "syscall" /\ op[t] \in SetsTimeout /\ FileOf(t) \notin Files
  /\ Ends(t)
  /\ UNCHANGED <<object, kernel, sdp, past>>

\* The file is not ready and does not block.
CallWouldBlock(t) ==
  /\ pc[t] = "syscall" /\ op[t] \in Transferring
  /\ FileOf(t) \in Files
  /\ ~ready[FileOf(t)] /\ nonblock[FileOf(t)]
  /\ IF op[t] = "connect" /\ timeout[on[t]] = "some"
     THEN /\ Moves(t, "select")
          /\ op' = [op EXCEPT ![t] = "reconnect"]
          /\ UNCHANGED <<on, lfd, at, lsession, left, timed, steady>>
     ELSE Ends(t)
  /\ UNCHANGED <<object, kernel, sdp, past>>

CallBlocks(t) ==
  /\ pc[t] = "syscall" /\ op[t] \in Transferring
  /\ FileOf(t) \in Files
  /\ ~ready[FileOf(t)] /\ ~nonblock[FileOf(t)]
  /\ Moves(t, "blocked")
  /\ at' = [at EXCEPT ![t] = FileOf(t)]
  /\ UNCHANGED <<op, on, lfd, lsession, left, timed, steady>>
  /\ UNCHANGED <<object, kernel, sdp, past>>

\* The file the call acts on: that of a call that blocks stays.
Acting(t, f) == \/ pc[t] = "syscall" /\ f = FileOf(t) /\ f \in Files
                \/ pc[t] = "blocked" /\ f = at[t]

\* Data is taken or sent, of which there may be more; sendall goes on while
\* something is left.
CallTransfers(t) == \E f \in Files :
  /\ Acting(t, f) /\ ready[f]
  /\ op[t] \in Transferring \ {"accept"}
  /\ \E r \in BOOLEAN : ready' = [ready EXCEPT ![f] = r]
  /\ IF left[t] > 1
     THEN /\ Moves(t, "select")
          /\ left' = [left EXCEPT ![t] = left[t] - 1]
          /\ UNCHANGED <<op, on, lfd, at, lsession, timed, steady>>
     ELSE Ends(t)
  /\ UNCHANGED <<object, file, fds, nonblock, sdp, past>>

\* A connection is taken and gets a descriptor, or fails.
CallAccepts(t) == \E f \in Files :
  /\ Acting(t, f) /\ ready[f]
  /\ op[t] = "accept"
  /\ \E r \in BOOLEAN : ready' = [ready EXCEPT ![f] = r]
  /\ \/ \E o \in Objects, d \in Fds : NewSocket(o, d, o)
     \/ UNCHANGED <<object, file, fds, nonblock>>
  /\ Ends(t)
  /\ UNCHANGED <<sdp, past>>

-----------------------------------------------------------------------------
(***************************************************************************)
(* setblocking, settimeout, listen, dup.                                   *)
(***************************************************************************)

\* The field is set first, the file follows without the lock.
SetTimeout(t, s) == \E v \in Timeouts :
  /\ Starts(t, s, IF v = "none" THEN "block" ELSE "unblock", "load", 0, 0)
  /\ timeout' = [timeout EXCEPT ![s] = v]
  /\ UNCHANGED <<alive, fd, listening, session, handle, kernel, sdp>>

\* Mutation of InternalSetBlocking: the file is left as it is.
InternalSetBlockingNot(t) ==
  /\ pc[t] = "syscall" /\ op[t] \in SetsTimeout
  /\ Ends(t)
  /\ UNCHANGED <<object, kernel, sdp, past>>

\* internal_setblocking, with the value the method was called with.  A close
\* may have given the descriptor to another file by now.
InternalSetBlocking(t) ==
  /\ pc[t] = "syscall" /\ op[t] \in SetsTimeout
  /\ FileOf(t) \in Files
  /\ nonblock' = [nonblock EXCEPT ![FileOf(t)] = op[t] = "unblock"]
  /\ overlapped' = overlapped \cup {u \in Objects : file[on[t]] # FileOf(t) /\ file[u] = FileOf(t)}
  /\ Ends(t)
  /\ UNCHANGED <<object, file, fds, ready, sdp, calls>>

Listen(t, s) ==
  /\ Starts(t, s, "listen", "load", 0, 0)
  /\ UNCHANGED <<object, kernel, sdp>>

CallListens(t) ==
  /\ pc[t] = "syscall" /\ op[t] = "listen"
  /\ FileOf(t) # "free"
  /\ Goes(t, "listened")
  /\ UNCHANGED <<object, kernel, sdp, past>>

NoteListening(t) ==
  /\ pc[t] = "listened"
  /\ listening' = [listening EXCEPT ![on[t]] = TRUE]
  /\ Ends(t)
  /\ UNCHANGED <<alive, fd, timeout, session, handle, kernel, sdp, past>>

\* No other thread can see the new object before dup returns.
Dup(s) ==
  /\ alive[s] /\ fd[s] # 0
  /\ \E o \in Objects, d \in Fds : NewSocket(o, d, fds[fd[s]])
  /\ UNCHANGED <<ready, sdp, pc, thread, past>>

-----------------------------------------------------------------------------
(***************************************************************************)
(* close.                                                                  *)
(***************************************************************************)

\* Mutation of Close: the field keeps the descriptor.
CloseKeeps(t, s) ==
  /\ Starts(t, s, "close", IF fd[s] # 0 THEN "closing" ELSE "closed", fd[s], 0)
  /\ UNCHANGED <<object, kernel, sdp>>

\* The field is cleared before the descriptor is closed without the lock.
Close(t, s) ==
  /\ Starts(t, s, "close", IF fd[s] # 0 THEN "closing" ELSE "closed", fd[s], 0)
  /\ fd' = [fd EXCEPT ![s] = 0]
  /\ UNCHANGED <<alive, timeout, listening, session, handle, kernel, sdp>>

CloseFd(t) ==
  /\ pc[t] = "closing"
  /\ fds' = [fds EXCEPT ![lfd[t]] = "free"]
  /\ Goes(t, "closed")
  /\ UNCHANGED <<object, file, nonblock, ready, sdp, past>>

\* Mutations of CloseSession: the session is left open; its field is kept.
CloseSessionNot(t) ==
  /\ pc[t] = "closed"
  /\ Ends(t)
  /\ UNCHANGED <<object, kernel, sdp, past>>

CloseSessionKept(t) ==
  /\ pc[t] = "closed"
  /\ FreesSession(session[on[t]])
  /\ Ends(t)
  /\ UNCHANGED <<object, kernel, past>>

\* Then the session, with the lock.
CloseSession(t) ==
  LET s == on[t]
  IN  /\ pc[t] = "closed"
      /\ FreesSession(session[s])
      /\ session' = [session EXCEPT ![s] = 0]
      /\ handle' = [handle EXCEPT ![s] = session[s] = 0 /\ @]
      /\ Ends(t)
      /\ UNCHANGED <<alive, fd, timeout, listening, kernel, past>>

-----------------------------------------------------------------------------
(***************************************************************************)
(* sdp_advertise_service, sdp_stop_advertising.                            *)
(***************************************************************************)

\* The socket is checked, ...
Advertise(t, s) ==
  /\ ~handle[s] /\ listening[s] /\ fd[s] # 0
  /\ Starts(t, s, "advertise", "getsockname", 0, 0)
  /\ UNCHANGED <<object, kernel, sdp>>

\* ... its name asked for without the lock, the record looked at again, ...
GetSockName(t) ==
  LET s == on[t]
  IN  /\ pc[t] = "getsockname"
      /\ IF fd[s] = 0 \/ (handle[s] /\ session[s] # 0) THEN Ends(t) ELSE Goes(t, "sdp_connect")
      /\ UNCHANGED <<object, kernel, sdp, past>>

\* ... a session opened without the lock and kept with it, ...
SdpConnect(t) ==
  /\ pc[t] = "sdp_connect"
  /\ \/ \E n \in Sessions :
          /\ \A m \in Sessions : sessions[m] = "unused" <=> m >= n
          /\ sessions' = [sessions EXCEPT ![n] = "open"]
          /\ owner' = [owner EXCEPT ![n] = on[t]]
          /\ session' = [session EXCEPT ![on[t]] = n]
          /\ lsession' = [lsession EXCEPT ![t] = n]
          /\ Moves(t, "sdp_register")
          /\ UNCHANGED <<op, on, lfd, at, left, timed, steady>>
     \/ Ends(t) /\ UNCHANGED <<session, sessions, owner>>
  /\ UNCHANGED <<alive, fd, timeout, listening, handle, kernel, misused, past>>

\* ... the record registered without the lock, ...
SdpRegister(t) ==
  LET n == lsession[t]
  IN  /\ pc[t] = "sdp_register"
      /\ \/ /\ sessions[n] = "open"
            /\ sessions' = [sessions EXCEPT ![n] = "registered"]
            /\ Goes(t, "registered")
         \/ /\ Ends(t)
            /\ UNCHANGED sessions
      /\ misused' = IF sessions[n] = "freed" THEN misused \cup {owner[n]} ELSE misused
      /\ UNCHANGED <<object, kernel, owner, past>>

\* ... and its handle kept.
NoteHandle(t) ==
  /\ pc[t] = "registered"
  /\ handle' = [handle EXCEPT ![on[t]] = TRUE]
  /\ Ends(t)
  /\ UNCHANGED <<alive, fd, timeout, listening, session, kernel, sdp, past>>

StopAdvertising(t, s) ==
  /\ session[s] # 0
  /\ Starts(t, s, "stop", "stopping", 0, 0)
  /\ UNCHANGED <<object, kernel, sdp>>

\* The session is closed without the lock, ...
StopSession(t) ==
  /\ pc[t] = "stopping"
  /\ FreesSession(session[on[t]])
  /\ Goes(t, "stopped")
  /\ UNCHANGED <<object, kernel, past>>

\* ... and forgotten with it.
NoteStopped(t) ==
  /\ pc[t] = "stopped"
  /\ session' = [session EXCEPT ![on[t]] = 0]
  /\ handle' = [handle EXCEPT ![on[t]] = FALSE]
  /\ Ends(t)
  /\ UNCHANGED <<alive, fd, timeout, listening, kernel, sdp, past>>

-----------------------------------------------------------------------------
\* The other end (external), and the rest of the program: it opens a file.
Arrives(f) ==
  /\ f \in Files /\ ~ready[f]
  /\ ready' = [ready EXCEPT ![f] = TRUE]
  /\ UNCHANGED <<object, file, fds, nonblock, sdp, pc, thread, past>>

OtherOpens(d) ==
  /\ Lowest(d)
  /\ \A e \in Fds : fds[e] # "other"
  /\ fds' = [fds EXCEPT ![d] = "other"]
  /\ UNCHANGED <<object, file, nonblock, ready, sdp, pc, thread, past>>

Call(t, s) == \/ Transfer(t, s) \/ Connect(t, s) \/ SetTimeout(t, s) \/ Listen(t, s)
              \/ Close(t, s) \/ Advertise(t, s) \/ StopAdvertising(t, s)

Continue(t) == \/ Select(t) \/ SelectReady(t) \/ SelectTimesOut(t) \/ Load(t)
               \/ CallFails(t) \/ CallWouldBlock(t) \/ CallBlocks(t)
               \/ CallTransfers(t) \/ CallAccepts(t)
               \/ InternalSetBlocking(t) \/ CallListens(t) \/ NoteListening(t)
               \/ CloseFd(t) \/ CloseSession(t)
               \/ GetSockName(t) \/ SdpConnect(t) \/ SdpRegister(t) \/ NoteHandle(t)
               \/ StopSession(t) \/ NoteStopped(t)

Next == \/ \E t \in Threads : Continue(t) \/ \E s \in Objects : Call(t, s)
        \/ \E s \in Objects : Dup(s) \/ Dealloc(s) \/ Arrives(s)
        \/ \E d \in Fds : OtherOpens(d)

Spec == Init /\ [][Next]_vars

-----------------------------------------------------------------------------
(***************************************************************************)
(* Properties.                                                             *)
(***************************************************************************)

\* A descriptor is closed once, and never one that belongs to another file by
\* then: whoever is to close it still owns it.
ClosesItsOwn ==
  /\ \A s \in Objects : fd[s] # 0 => fds[fd[s]] = file[s]
  /\ \A t \in Threads : pc[t] = "closing" => fds[lfd[t]] = file[on[t]]

Closing(s) == \E t \in Threads : Busy(t, s) /\ op[t] = "close"

\* No service outlives its socket: what was advertised is unregistered when the
\* socket is closed, unless calls that configure it have overlapped.
ServiceEndsWithSocket ==
  \A n \in Sessions : sessions[n] = "registered" /\ owner[n] \notin overlapped =>
    fd[owner[n]] # 0 \/ Closing(owner[n])

\* No session of such a socket is used after it was freed, or freed twice.
SessionsAreAlive == misused \subseteq overlapped

Shared(f) == \E s, u \in Objects : s # u /\ file[s] = f /\ file[u] = f

\* A call that has waited in select does not go on to wait in the kernel, for
\* which there is no limit, though another thread took what it was waiting for;
\* unless the timeout was changed meanwhile, two changes have overlapped, one
\* of a socket that was closed meanwhile reached this one, which has got its
\* descriptor, or another object shares the file.
TimeoutHolds ==
  \A t \in Threads : timed[t] /\ steady[t] /\ pc[t] = "blocked" /\ at[t] = file[on[t]]
    => on[t] \in overlapped \/ Shared(file[on[t]])
=============================================================================

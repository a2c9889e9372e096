----------------------------- MODULE OBEXCalls -----------------------------
(***************************************************************************)
(* OBEXClient, sendfile and recvfile of lightblue.obex: the blocking calls *)
(* on top of the client and the server of LightAquaBlue, which modules     *)
(* OBEXClient and OBEXServer have in detail.                               *)
(*                                                                         *)
(* Two programs, each with a thread that makes calls and runs the event    *)
(* loop in them: one sends requests, by the methods of one OBEXClient or   *)
(* by sendfile, to the other, which receives files, one recvfile after the *)
(* other.  A file takes Parts packets where it is read to its end.         *)
(*                                                                         *)
(* recvfile compares dest with types.FileType, which Python 3 has not: it  *)
(* raises before it listens (NoFileType).  What is behind that line is     *)
(* modelled as if the interpreter had that type.                           *)
(***************************************************************************)
EXTENDS Naturals, Sequences

CONSTANTS
  MaxRequests,   \* bound: requests that are sent
  Parts,         \* packets of a file
  PutSources,    \* bound: the kinds of files that put is given but by sendfile
  NoFileType     \* whether the interpreter of recvfile lacks types.FileType

\* The reader encodes what it reads.  "octets" have no such method, so that it
\* raises: a file that sendfile has opened.  "exact" is text of one octet for a
\* character, read short only at its end.  Of other text the octets beyond the
\* length asked for are lost, and a read that is short before the end ends the
\* Put: "inexact".
Sources == {"octets", "exact", "inexact"}

ASSUME CallsAssumption ==
  /\ MaxRequests \in Nat /\ Parts \in Nat \ {0}
  /\ PutSources \subseteq Sources /\ NoFileType \in BOOLEAN

VARIABLES
  \* The program that sends.
  call,          \* the call that waits, or "idle"
  conn,          \* __client is not None
  busy, error, answer,  \* __busy, __error, __response
  pending,       \* the request LightAquaBlue's client is at, 0 for none
  made,          \* requests so far
  script,        \* the step sendfile is at, or how it ended; "none" before
  source,        \* the kind of file that put reads
  put,           \* resp: what put returned to sendfile
  \* The channel.
  up, request, response,
  \* The program that receives.
  stage,         \* of recvfile: accept, the waits of run, how it ended
  gotfile, gotdisconnect, disconnected, fault,   \* fault: __error is not None
  file,          \* what was written: parts of files, whole or cut
  received       \* history: the Puts whose file was written whole

waiting  == <<busy, error, answer>>
channel  == <<up, request, response>>
sender   == <<call, conn, waiting, pending, made, script, source, put>>
receiver == <<stage, gotfile, gotdisconnect, disconnected, fault, file, received>>
vars     == <<sender, channel, receiver>>

Ops      == {"Connect", "Disconnect", "Put", "Delete", "Get", "SetPath"}
NoAnswer == [req |-> 0, code |-> "none"]
NoPacket == [req |-> 0, op |-> "none", part |-> 0, last |-> FALSE, whole |-> FALSE]

Init ==
  /\ call = "idle" /\ conn = FALSE /\ busy = FALSE /\ error = "none"
  /\ answer = NoAnswer /\ pending = 0 /\ made = 0 /\ script = "none"
  /\ source \in PutSources /\ put = NoAnswer
  /\ up = FALSE /\ request = NoPacket /\ response = "none"
  /\ stage = "idle" /\ gotfile = FALSE /\ gotdisconnect = FALSE
  /\ disconnected = FALSE /\ fault = FALSE /\ file = <<>> /\ received = {}

-----------------------------------------------------------------------------
(***************************************************************************)
(* OBEXClient.                                                             *)
(***************************************************************************)
ChannelCloses == up' = FALSE /\ request' = NoPacket /\ response' = "none"

\* __closetransport: with the client of LightAquaBlue its request is gone.
CloseTransport == conn' = FALSE /\ pending' = 0 /\ ChannelCloses

\* Mutation of Reset: __busy keeps its value.
ResetKeepsBusy == busy' = busy /\ error' = "none" /\ answer' = NoAnswer

Reset == busy' = TRUE /\ error' = "none" /\ answer' = NoAnswer

\* What a header is and what is given for it: _headersdicttoset takes a text
\* or a time for Unicode and byte sequences, an int for the others.
Sendable(form, value) == value \in (IF form \in {"unicode", "bytes"}
                                    THEN {"str", "datetime"} ELSE {"int"})
Forms  == {"unicode", "bytes", "byte", "quad"}
Values == {"str", "datetime", "int", "buffer"}

\* sendfile connects, puts, and disconnects whatever came of the Put; it raises
\* what connect and put raise, and when the answer to the Put is not OK.
Advance(resp) ==
  /\ script' = CASE script = "connect"    -> IF resp = NoAnswer THEN "raised" ELSE "put"
                 [] script = "put"        -> "disconnect"
                 [] script = "disconnect" -> IF put.code = "OK" THEN "returned" ELSE "raised"
                 [] OTHER                 -> script
  /\ put' = IF script = "put" THEN resp ELSE put

SendFile ==
  /\ script \in {"none", "returned", "raised"}
  /\ call = "idle" /\ ~conn /\ made < MaxRequests
  /\ script' = "connect" /\ source' \in Sources /\ put' = NoAnswer
  /\ UNCHANGED <<call, conn, waiting, pending, made, channel, receiver>>

MayCall(op) ==
  /\ call = "idle"
  /\ op = CASE script = "none" -> op
            [] script = "connect" -> "Connect" [] script = "put" -> "Put"
            [] script = "disconnect" -> "Disconnect" [] OTHER -> "none"

\* Part k of request r goes out: for a Put, what reading the file gives.
SendsPart(r, op, k) ==
  \E last, whole \in BOOLEAN :
    /\ request' = [req |-> r, op |-> op, part |-> k, last |-> last, whole |-> whole]
    /\ k = Parts => last
    /\ (op = "Put" /\ source = "inexact") \/ (whole /\ (last => k = Parts))

\* The request is begun and the call waits.  LightAquaBlue's client takes one
\* request at a time; a Connect opens the channel.
Starts(op) ==
  /\ MayCall(op)
  /\ made < MaxRequests
  /\ pending = 0 /\ request = NoPacket /\ response = "none"
  /\ IF op = "Connect" THEN ~up ELSE conn /\ up
  /\ op = "Put" => source # "octets"
  /\ \E form \in Forms, value \in Values : Sendable(form, value)
  /\ Reset
  /\ call' = op /\ conn' = TRUE
  /\ made' = made + 1 /\ pending' = made'
  /\ SendsPart(made', op, 1)
  /\ UNCHANGED <<up, response, script, source, put, receiver>>

\* It is not begun, because the client or the session refuses it: an error is
\* raised, and connect and disconnect close the channel, also one that is in use.
StartFails(op) ==
  /\ MayCall(op)
  /\ op = "Connect" \/ conn
  /\ Reset
  /\ IF op \in {"Connect", "Disconnect"} THEN CloseTransport
                                         ELSE UNCHANGED <<conn, pending, channel>>
  /\ Advance(NoAnswer)
  /\ UNCHANGED <<call, made, source, receiver>>

\* The headers cannot be converted, or reading the file for the first packet
\* raises: connect leaves the new client.
HeadersRaise(op) ==
  /\ MayCall(op)
  /\ op = "Connect" \/ conn
  /\ op = "Put" \/ \E form \in Forms, value \in Values : ~Sendable(form, value)
  /\ Reset
  /\ IF op = "Disconnect" THEN CloseTransport
                          ELSE conn' = TRUE /\ UNCHANGED <<pending, channel>>
  /\ Advance(NoAnswer)
  /\ UNCHANGED <<call, made, source, receiver>>

\* __checkconnected raises; connect does where the device is off; sendfile has
\* no headers for put where the file object has no name.
NotMade(op) ==
  /\ MayCall(op) /\ script # "none"
  /\ ~conn \/ op = "Put"
  /\ Advance(NoAnswer)
  /\ UNCHANGED <<call, conn, waiting, pending, made, source, channel, receiver>>

CallEnds(resp) ==
  /\ call' = "idle"
  /\ error' = "none" /\ answer' = NoAnswer   \* read by no later call
  /\ Advance(resp)
  /\ UNCHANGED <<busy, made, source, receiver>>

\* The wait is over.
Returns ==
  /\ call # "idle" /\ ~busy
  /\ LET raises == error # "ok" IN
       /\ IF call = "Disconnect" \/ (call = "Connect" /\ (raises \/ answer.code # "OK"))
          THEN CloseTransport ELSE UNCHANGED <<conn, pending, channel>>
       /\ CallEnds(IF raises THEN NoAnswer ELSE answer)

\* KeyboardInterrupt in the wait: the request goes on.
Interrupted ==
  /\ call # "idle"
  /\ IF call = "Disconnect" THEN CloseTransport ELSE UNCHANGED <<conn, pending, channel>>
  /\ CallEnds(NoAnswer)

-----------------------------------------------------------------------------
(***************************************************************************)
(* The client of LightAquaBlue, in the event loop of any wait.             *)
(***************************************************************************)
\* Mutation of Finished: where closing raises, nothing after it is done.
FinishedRaises(err) == IF err = "dead" THEN UNCHANGED <<busy, error>>
                                       ELSE busy' = FALSE /\ error' = err

Finished(err) == busy' = FALSE /\ error' = err

\* _finishedrequest.
FinishedRequest(err, resp) ==
  /\ Finished(err) /\ answer' = resp
  /\ UNCHANGED <<call, made, script, source, put, receiver>>

GoesOn ==
  /\ pending # 0 /\ up /\ response = "Continue"
  /\ response' = "none"
  /\ SendsPart(pending, "Put", request.part + 1)
  /\ UNCHANGED <<sender, up, receiver>>

Finishes ==
  /\ pending # 0 /\ up /\ response \notin {"none", "Continue"}
  /\ FinishedRequest("ok", [req |-> pending, code |-> response])
  /\ pending' = 0
  /\ request' = NoPacket /\ response' = "none"
  /\ UNCHANGED <<conn, up>>

\* The channel is gone, or could not be opened.
Dies ==
  /\ pending # 0 /\ ~up
  /\ FinishedRequest("dead", NoAnswer)
  /\ CloseTransport

\* The next packet cannot be made or sent, though the channel is up.
GivesUp ==
  /\ pending # 0 /\ up /\ response = "Continue"
  /\ FinishedRequest("failed", NoAnswer)
  /\ pending' = 0
  /\ request' = NoPacket /\ response' = "none"
  /\ UNCHANGED <<conn, up>>

\* Reading the file fails: the exception leaves the event loop, and with it the
\* wait, and the request where it is.
ReadRaises ==
  /\ pending # 0 /\ up /\ response = "Continue"
  /\ request' = NoPacket /\ response' = "none"
  /\ IF call = "idle" THEN UNCHANGED <<sender, receiver>>
                      ELSE CallEnds(NoAnswer) /\ UNCHANGED <<conn, pending>>
  /\ UNCHANGED up

ClientSteps == GoesOn \/ Finishes \/ Dies \/ GivesUp \/ ReadRaises

-----------------------------------------------------------------------------
(***************************************************************************)
(* recvfile, and BBOBEXObjectPushServer.                                   *)
(***************************************************************************)
LinkDies == up /\ ChannelCloses /\ UNCHANGED <<sender, receiver>>

RecvFile ==
  /\ stage \in {"idle", "returned", "raised"} /\ ~up
  /\ stage' = IF NoFileType THEN "raised" ELSE "accept"
  /\ gotfile' = FALSE /\ gotdisconnect' = FALSE
  /\ disconnected' = FALSE /\ fault' = FALSE
  /\ file' = <<>>
  /\ UNCHANGED <<sender, channel, received>>

\* accept returns with the channel, and run begins.
Accepts ==
  /\ stage = "accept" /\ request # NoPacket /\ ~up
  /\ up' = TRUE /\ stage' = "waiting"
  /\ UNCHANGED <<sender, request, response, gotfile, gotdisconnect, disconnected,
                 fault, file, received>>

Running == stage \in {"waiting", "closing", "closed"}

\* Mutation of ErrorOccurred: the error is not kept.
ErrorUnnoticed == UNCHANGED fault

ErrorOccurred == fault' = TRUE

\* The answer goes out, or the session finds the channel gone.
Serves(op) == Running /\ up /\ request.op = op /\ response = "none"
Answers(code) == response' = code /\ UNCHANGED <<up, request>>
CannotAnswer  == ChannelCloses /\ ErrorOccurred

ServeOther ==
  /\ \/ Serves("Connect") /\ Answers("OK") /\ UNCHANGED fault
     \/ \E op \in {"Delete", "Get", "SetPath"} :
          Serves(op) /\ Answers("NotImplemented") /\ UNCHANGED fault
     \/ \E op \in Ops \ {"Put", "Disconnect"} : Serves(op) /\ CannotAnswer
  /\ UNCHANGED <<sender, stage, gotfile, gotdisconnect, disconnected, file, received>>

ServeDisconnect ==
  /\ Serves("Disconnect")
  /\ gotdisconnect' = TRUE
  /\ \/ Answers("OK") /\ disconnected' = TRUE /\ UNCHANGED fault
     \/ CannotAnswer /\ UNCHANGED disconnected
  /\ UNCHANGED <<sender, stage, gotfile, file, received>>

Part(r, k) == [req |-> r, part |-> k, whole |-> TRUE]
\* What a packet brings.
Piece(p)   == [req |-> p.req, part |-> p.part, whole |-> p.whole]

\* All of the file of request r is in f, one part after the other.
Whole(f, r) == \E i \in 0..Len(f) : /\ i + Parts <= Len(f)
                                    /\ \A k \in 1..Parts : f[i + k] = Part(r, k)

\* Mutation of Write: that writing failed is not seen.
WriteBlindly(code) == /\ file' \in {file, Append(file, Piece(request))}
                      /\ response' = code
                      /\ UNCHANGED fault

\* The stream writes to the file, or says that it cannot.
Write(code) ==
  \/ /\ file' = Append(file, Piece(request))
     /\ response' = code /\ UNCHANGED fault
  \/ /\ UNCHANGED file
     /\ response' = "InternalError" /\ ErrorOccurred

\* A Put that was answered, but for Continue, has been handled: gotfile is set
\* also where it was not written.
ServePut ==
  /\ Serves("Put")
  /\ \/ /\ Write(IF request.last THEN "OK" ELSE "Continue")
        /\ gotfile' = (gotfile \/ response' # "Continue")
        /\ received' = received \cup {r \in {request.req} : Whole(file', r)}
        /\ UNCHANGED <<up, request>>
     \/ /\ CannotAnswer
        /\ file' \in {file, Append(file, Piece(request))}
        /\ UNCHANGED <<gotfile, received>>
  /\ UNCHANGED <<sender, stage, gotdisconnect, disconnected>>

\* An error event of the session, or the channel was closed.
LinkLost ==
  /\ Running /\ ~up /\ ~fault
  /\ ErrorOccurred
  /\ UNCHANGED <<sender, channel, stage, gotfile, gotdisconnect, disconnected,
                 file, received>>

ServerSteps == ServeOther \/ ServeDisconnect \/ ServePut \/ LinkLost

\* run returns where there was a file, and the connection is closed; where it
\* raises, it is not.
RunEndsHere ==
  /\ stage' = IF gotfile THEN "returned" ELSE "raised"
  /\ IF gotfile THEN ChannelCloses ELSE UNCHANGED channel

GoesOnTo(s) == stage' = s /\ UNCHANGED channel

\* The waits of run, one after the other: the second has a timeout of three
\* seconds, the others have none.
Run ==
  /\ \/ stage = "waiting" /\ (fault \/ gotfile) /\ IF fault THEN RunEndsHere ELSE GoesOnTo("closing")
     \/ stage = "closing" /\ gotdisconnect /\ GoesOnTo("closed")
     \/ stage = "closing" /\ RunEndsHere
     \/ stage = "closed" /\ disconnected /\ RunEndsHere
  /\ UNCHANGED <<sender, gotfile, gotdisconnect, disconnected, fault, file, received>>

RunInterrupted ==
  /\ Running
  /\ stage' = "raised"
  /\ UNCHANGED <<sender, channel, gotfile, gotdisconnect, disconnected, fault, file, received>>

-----------------------------------------------------------------------------
Next ==
  \/ SendFile \/ Returns \/ Interrupted \/ ClientSteps
  \/ \E op \in Ops : Starts(op) \/ StartFails(op) \/ HeadersRaise(op) \/ NotMade(op)
  \/ LinkDies \/ RecvFile \/ Accepts \/ ServerSteps \/ Run \/ RunInterrupted

\* Events are taken and waits look at what they brought.
Fairness == WF_vars(Returns) /\ WF_vars(ClientSteps) /\ WF_vars(ServerSteps) /\ WF_vars(Run)

Spec == Init /\ [][Next]_vars /\ Fairness

-----------------------------------------------------------------------------
\* A wait is over only with the outcome of the request its call has made, also
\* after calls that were interrupted and left theirs (__reset, _done).
AnswerIsOwn ==
  call # "idle" /\ ~busy => /\ error # "none"
                            /\ error = "ok" => answer.req = made

\* A file that sendfile has sent without an error was written whole by the
\* program that receives (the answer to the Put, from the stream to sendfile),
\* if it is text of one octet for a character that is read short only at its end.
SentIsReceived == script = "returned" /\ source = "exact" => put.req \in received

\* Once a Put was handled, an error occurred or the channel is gone, run ends;
\* not so where the answer to a Disconnect could not be sent (the third wait).
RunEnds ==
  Running /\ (gotfile \/ fault \/ ~up) ~> ~Running \/ (stage = "closed" /\ ~disconnected)

\* A call ends, unless the program that receives has left its recvfile by an
\* exception: it neither answers nor closes the channel.
CallsEnd == call # "idle" ~> call = "idle" \/ (stage = "raised" /\ up)

-----------------------------------------------------------------------------
(***************************************************************************)
(* What the documentation says.                                            *)
(***************************************************************************)
\* "a filename or file-like object, containing the data to be sent": what
\* sendfile has sent is that data, whatever it is.
SentIsTheFile == script = "returned" => put.req \in received

\* "a filename or file-like object, to which the received data will be written":
\* recvfile raises only when a client has connected.
RecvFileReceives == [][stage' = "raised" => Running]_vars

\* "only raise OBEXError if file was not received": a recvfile that returns
\* has received a file (run of BBOBEXObjectPushServer).
ReturnedHasFile == stage = "returned" => \E r \in 1..MaxRequests : Whole(file, r)
=============================================================================

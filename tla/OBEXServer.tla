----------------------------- MODULE OBEXServer -----------------------------
(***************************************************************************)
(* BBBluetoothOBEXServer and the BBOBEXRequestHandler classes of           *)
(* LightAquaBlue: one server at its end of a session.                      *)
(*                                                                         *)
(* A session event is handled to its end before the next one: one packet   *)
(* is one step, with the delegate's answers as choices in it.  A code the  *)
(* delegate sets with setResponseCodeForCurrentRequest, in a callback or   *)
(* between two packets, is the "Refused" among the codes a step can answer *)
(* with.                                                                   *)
(*                                                                         *)
(* The client is any that keeps to OBEX: it waits for the answer to a      *)
(* packet, goes on or aborts after Continue, and ends on any other code.   *)
(* It may also stop in the middle, and abort when no answer comes.         *)
(***************************************************************************)
EXTENDS OBEXLink

CONSTANTS
  MaxPackets,    \* bound: packets with a body in a request
  SetsCodeLate   \* the delegate sets a response code when it is told of data sent

ASSUME PacketsAssumption == MaxPackets \in Nat
ASSUME DelegateAssumption == SetsCodeLate \in BOOLEAN

VARIABLES
  running,   \* mSession is set
  handler,   \* mCurrentRequestHandler
  peer,      \* the client: the request it makes and how far it has come
  taken,     \* packets of the present Put that were written whole to its stream
  cut,       \* the stream took only a part of a packet of it
  fate,      \* the stream of each request, as the delegate knows it
  headers,   \* the requests whose headers the delegate was last asked about
  notice,    \* the kind of the present request as the delegate was told its end
  error,     \* errorOccurred was called during the present request
  raised,    \* reading the delegate's stream failed: no answer was sent
  aborted    \* the client has aborted a request

history == <<taken, cut, fate, headers, notice, error, raised, aborted>>
vars    == <<link, running, handler, peer, history>>

\* A handler: its class, mDefinitelyIsPut, the request whose stream is in
\* mOutputStream or mInputStream (0 if none) and the requests whose headers are
\* in mPreviousRequestHeaders.
Handler   == [type : Ops, definitely : BOOLEAN, stream : 0..MaxRequests,
              previous : SUBSET Requests]

\* handlerForEventType
NewHandler(type) == [type |-> type, definitely |-> FALSE, stream |-> 0, previous |-> {}]
NoHandler        == NewHandler("none")

Peer == [state : {"idle", "busy", "aborting"}, op : Ops \cup {"none"},
         req : 0..MaxRequests, final : BOOLEAN, given : 0..MaxPackets]

Init == /\ LinkInit
        /\ running = TRUE
        /\ handler = NoHandler
        /\ peer = [state |-> "idle", op |-> "none", req |-> 0,
                   final |-> FALSE, given |-> 0]
        /\ taken = 0
        /\ cut = FALSE
        /\ fate = [r \in Requests |-> "none"]
        /\ headers = {}
        /\ notice = "none"
        /\ error = FALSE
        /\ raised = FALSE
        /\ aborted = FALSE

-----------------------------------------------------------------------------
(***************************************************************************)
(* The end of handling a packet.                                           *)
(***************************************************************************)

\* Mutation of Current: every packet gets a new handler.
CurrentIsNew == NewHandler(request.type)

\* The handler a request event goes to: the one there is, or a new one.
Current == IF handler = NoHandler THEN NewHandler(request.type) ELSE handler

\* What notifyRequestFinished tells the delegate has ended.
KindOf(h) == IF h.type = "Put" /\ ~h.definitely THEN "PutDelete" ELSE h.type

FateOf(h, f) == IF h.stream = 0 THEN fate ELSE [fate EXCEPT ![h.stream] = f]

Sends(code, body) == /\ linkUp
                     /\ response' = [code |-> code, body |-> body]
                     /\ UNCHANGED linkUp

\* The session finds the channel gone.
CannotSend == /\ linkUp' = FALSE
              /\ UNCHANGED response

\* The response is sent, and after a final one the delegate is notified and the
\* handler released; or the session refuses it (its headers cannot be encoded,
\* the channel is gone), the delegate gets an error and the handler is released.
Responds(h, code, body, err) ==
  /\ request' = NoPacket
  /\ \/ /\ Sends(code, body)
        /\ code = "Continue"
        /\ handler' = h
        /\ fate' = FateOf(h, "open")
        /\ error' = (error \/ err)
        /\ UNCHANGED notice
     \/ /\ Sends(code, body)
        /\ code # "Continue"
        /\ handler' = NoHandler
        /\ fate' = FateOf(h, "back")
        /\ error' = (error \/ err)
        /\ notice' = KindOf(h)
     \/ /\ CannotSend \/ UNCHANGED <<linkUp, response>>
        /\ handler' = NoHandler
        /\ fate' = FateOf(h, "failed")
        /\ error' = TRUE
        /\ UNCHANGED notice
  /\ UNCHANGED <<running, peer, raised, aborted>>

\* A request that cannot be read is answered with an error code; whether that
\* is sent is not looked at.
Rejects(h, code) ==
  /\ request' = NoPacket
  /\ Sends(code, FALSE) \/ CannotSend \/ UNCHANGED <<linkUp, response>>
  /\ handler' = NoHandler
  /\ fate' = FateOf(h, "back")
  /\ notice' = KindOf(h)
  /\ error' = TRUE
  /\ UNCHANGED <<running, peer, taken, cut, headers, raised, aborted>>

-----------------------------------------------------------------------------
(***************************************************************************)
(* handleSessionEvent: a request event.                                    *)
(***************************************************************************)

TypeFits == Current.type = request.type

Arrives(type) == /\ running
                 /\ request.type = type
                 /\ TypeFits
                 /\ request.parses

\* Mutation of HandleWrongType: such an event is not expected.
HandleWrongTypeMissing == FALSE

\* The handler of an earlier request finds an event of another type.
HandleWrongType ==
  /\ running
  /\ request.type \in Ops
  /\ ~TypeFits
  /\ Rejects(Current, "InternalError")

\* Mutation of HandleUnreadable: the handler is not released.
HandleUnreadableKeeps ==
  /\ running
  /\ request.type \in Ops
  /\ TypeFits
  /\ ~request.parses
  /\ request' = NoPacket
  /\ Sends("BadRequest", FALSE)
  /\ handler' = Current
  /\ error' = TRUE
  /\ UNCHANGED <<running, peer, taken, cut, fate, headers, notice, raised, aborted>>

HandleUnreadable ==
  /\ running
  /\ request.type \in Ops
  /\ TypeFits
  /\ ~request.parses
  /\ Rejects(Current, "BadRequest")

\* Connect, Disconnect and SetPath are answered at once: the delegate has no
\* method for it, accepts, denies or sets a code.
HandleSingle ==
  \E type \in SingleOps, code \in {"NotImplemented", "Success", "Forbidden", "Refused"} :
    /\ Arrives(type)
    /\ headers' = IF code = "NotImplemented" THEN headers ELSE {request.req}
    /\ Responds(Current, code, FALSE, FALSE)
    /\ UNCHANGED <<taken, cut>>

-----------------------------------------------------------------------------
(***************************************************************************)
(* Put and Put-Delete.                                                     *)
(***************************************************************************)
DefinitelyIsPut == Current.definitely \/ request.body

\* No body so far and more packets to come: the headers are kept.
HandlePutUndecided ==
  /\ Arrives("Put")
  /\ ~DefinitelyIsPut
  /\ ~request.final
  /\ Responds([Current EXCEPT !.previous = @ \cup {request.req}],
              "Continue", FALSE, FALSE)
  /\ UNCHANGED <<headers, taken, cut>>

HandlePutDelete ==
  /\ Arrives("Put")
  /\ ~DefinitelyIsPut
  /\ request.final
  /\ \/ /\ Responds(Current, "NotImplemented", FALSE, FALSE)
        /\ UNCHANGED headers
     \/ /\ headers' = Current.previous \cup {request.req}
        /\ \E code \in {"Success", "Forbidden", "Refused"} :
             Responds([Current EXCEPT !.previous = {}], code, FALSE, FALSE)
  /\ UNCHANGED <<taken, cut>>

PutHandler == [Current EXCEPT !.definitely = TRUE]

\* The Put handler after the delegate was asked for a stream.
AskedHandler(stream) == [type |-> "Put", definitely |-> TRUE, stream |-> stream,
                         previous |-> {}]

\* The delegate has no method for Put.
HandlePutNotImplemented ==
  /\ Arrives("Put")
  /\ DefinitelyIsPut
  /\ Current.stream = 0
  /\ Responds(PutHandler, "NotImplemented", FALSE, FALSE)
  /\ UNCHANGED <<headers, taken, cut>>

\* The delegate is asked and gives no stream, or one that is of no use.
HandlePutDenied ==
  /\ Arrives("Put")
  /\ DefinitelyIsPut
  /\ Current.stream = 0
  /\ headers' = Current.previous \cup {request.req}
  /\ \/ \E code \in {"Forbidden", "Refused"} :
          Responds(AskedHandler(0), code, FALSE, FALSE)
     \/ Responds(AskedHandler(0), "InternalError", FALSE, TRUE)
  /\ UNCHANGED <<taken, cut>>

\* Mutations of WritesBody: the last packet is not told from the others; the
\* result of writing is not looked at.
WritesBodyContinues(h) ==
  /\ taken' = IF request.body THEN taken + 1 ELSE taken
  /\ UNCHANGED cut
  /\ Responds(h, "Continue", FALSE, FALSE)

WritesBodyBlindly(h) ==
  /\ taken' \in {taken, taken + 1}
  /\ UNCHANGED cut
  /\ Responds(h, IF request.final THEN "Success" ELSE "Continue", FALSE, FALSE)

\* The body is written to the delegate's stream.  Only whether the stream
\* reports an error is looked at: one that takes a part of the body is not
\* given the rest, and the request goes on as if it had taken all.
WritesBody(h) ==
  \/ /\ request.body
     /\ UNCHANGED <<taken, cut>>
     /\ Responds(h, "InternalError", FALSE, TRUE)
  \/ /\ \/ taken' = (IF request.body THEN taken + 1 ELSE taken) /\ UNCHANGED cut
        \/ request.body /\ cut' = TRUE /\ UNCHANGED taken
     /\ \E code \in {IF request.final THEN "Success" ELSE "Continue", "Refused"} :
          Responds(h, code, FALSE, FALSE)

\* The delegate gives an open stream for the first body ...
HandlePutAccepted ==
  /\ Arrives("Put")
  /\ DefinitelyIsPut
  /\ Current.stream = 0
  /\ headers' = Current.previous \cup {request.req}
  /\ WritesBody(AskedHandler(request.req))

\* ... and the later ones go to it.
HandlePutContinued ==
  /\ Arrives("Put")
  /\ DefinitelyIsPut
  /\ Current.stream # 0
  /\ UNCHANGED headers
  /\ WritesBody(PutHandler)

-----------------------------------------------------------------------------
(***************************************************************************)
(* Get.                                                                    *)
(***************************************************************************)
HandleGetNotImplemented ==
  /\ Arrives("Get")
  /\ Current.stream = 0
  /\ Responds(Current, "NotImplemented", FALSE, FALSE)
  /\ UNCHANGED <<headers, taken, cut>>

HandleGetDenied ==
  /\ Arrives("Get")
  /\ Current.stream = 0
  /\ headers' = {request.req}
  /\ \/ \E code \in {"Forbidden", "Refused"} : Responds(Current, code, FALSE, FALSE)
     \/ Responds(Current, "InternalError", FALSE, TRUE)
  /\ UNCHANGED <<taken, cut>>

\* The chunk was sent and the delegate, told so, sets the code of the next
\* response: the server takes it for that of the one just sent, which ended it.
EndsLate(h) == /\ SetsCodeLate
               /\ request' = NoPacket
               /\ Sends("Continue", TRUE)
               /\ handler' = NoHandler
               /\ fate' = FateOf(h, "back")
               /\ notice' = KindOf(h)
               /\ UNCHANGED <<running, peer, error, raised, aborted>>

\* A read that fails raises an exception in setLength, with the handler in place
\* and nothing sent.
ReadRaises(h) == /\ request' = NoPacket
                 /\ handler' = h
                 /\ fate' = FateOf(h, "open")
                 /\ raised' = TRUE
                 /\ UNCHANGED <<linkUp, response, running, peer, notice, error, aborted>>

\* A chunk is read from the delegate's stream: one that fills the packet is
\* followed by another, a shorter one is the last; there may be no room for one.
ReadsChunk(h, codes) ==
  \/ \E code \in codes : Responds(h, code, TRUE, FALSE)
  \/ Responds(h, "InternalError", FALSE, TRUE)
  \/ EndsLate(h)
  \/ ReadRaises(h)

HandleGetAccepted ==
  /\ Arrives("Get")
  /\ Current.stream = 0
  /\ headers' = {request.req}
  /\ ReadsChunk([Current EXCEPT !.stream = request.req], {"Continue", "Success"})
  /\ UNCHANGED <<taken, cut>>

HandleGetContinued ==
  /\ Arrives("Get")
  /\ Current.stream # 0
  /\ ReadsChunk(Current, {"Continue", "Success", "Refused"})
  /\ UNCHANGED <<headers, taken, cut>>

-----------------------------------------------------------------------------
(***************************************************************************)
(* handleSessionEvent: Abort and Error.                                    *)
(***************************************************************************)

\* Mutation of AfterAbort: the handler keeps the stream.
AfterAbortKeepsStream(h) == [h EXCEPT !.definitely = FALSE]

\* A Put or Get handler forgets its stream; it is not released.
AfterAbort(h) == IF h.type \in {"Put", "Get"}
                 THEN [type |-> h.type, definitely |-> FALSE, stream |-> 0,
                       previous |-> h.previous]
                 ELSE h

HandleAbort ==
  /\ running
  /\ request.type = "Abort"
  /\ handler # NoHandler
  /\ request' = NoPacket
  /\ Sends("Success", FALSE) \/ CannotSend
  /\ handler' = AfterAbort(handler)
  /\ fate' = FateOf(handler, "back")
  /\ notice' = IF handler.type \in {"Put", "Get"} THEN handler.type ELSE notice
  /\ UNCHANGED <<running, peer, taken, cut, headers, error, raised, aborted>>

\* No request to abort: nothing is answered.
HandleIdleAbort ==
  /\ running
  /\ request.type = "Abort"
  /\ handler = NoHandler
  /\ request' = NoPacket
  /\ UNCHANGED <<linkUp, response, running, handler, peer, history>>

HandleError ==
  /\ running
  /\ ~linkUp
  /\ error' = TRUE
  /\ UNCHANGED <<link, running, handler, peer, taken, cut, fate, headers, notice,
                 raised, aborted>>

(***************************************************************************)
(* close, by the user or because the channel was closed.                   *)
(***************************************************************************)
Closes == /\ running
          /\ running' = FALSE
          /\ handler' = NoHandler
          /\ UNCHANGED <<link, peer, taken, cut, fate, headers, notice, raised, aborted>>

Close == Closes /\ UNCHANGED error

ChannelClosed == Closes /\ ~linkUp /\ error' = TRUE

HandleSessionEvent == \/ HandleWrongType
                      \/ HandleUnreadable
                      \/ HandleSingle
                      \/ HandlePutUndecided
                      \/ HandlePutDelete
                      \/ HandlePutNotImplemented
                      \/ HandlePutDenied
                      \/ HandlePutAccepted
                      \/ HandlePutContinued
                      \/ HandleGetNotImplemented
                      \/ HandleGetDenied
                      \/ HandleGetAccepted
                      \/ HandleGetContinued
                      \/ HandleAbort
                      \/ HandleIdleAbort

Server == HandleSessionEvent \/ HandleError \/ Close \/ ChannelClosed

-----------------------------------------------------------------------------
(***************************************************************************)
(* The client (external).                                                  *)
(***************************************************************************)
PeerStarts(op, body, final, parses) ==
  /\ peer.state = "idle"
  /\ peer.req < MaxRequests
  /\ op # "Put" => final /\ ~body
  /\ body => MaxPackets > 0
  /\ SendsRequest([type |-> op, req |-> peer.req + 1, body |-> body,
                   final |-> final, parses |-> parses])
  /\ peer' = [state |-> "busy", op |-> op, req |-> peer.req + 1,
              final |-> final, given |-> IF body THEN 1 ELSE 0]
  /\ taken' = 0
  /\ cut' = FALSE
  /\ headers' = {}
  /\ notice' = "none"
  /\ error' = FALSE
  /\ UNCHANGED <<running, handler, fate, raised, aborted>>

\* The next packet of a Put, the next demand of a Get.
PeerContinues(body, final) ==
  /\ peer.state = "busy"
  /\ response.code = "Continue"
  /\ \/ peer.op = "Put" /\ ~peer.final
     \/ peer.op = "Get" /\ final /\ ~body
  /\ body => peer.given < MaxPackets
  /\ SendsRequest([type |-> peer.op, req |-> peer.req, body |-> body,
                   final |-> final, parses |-> TRUE])
  /\ peer' = [state |-> "busy", op |-> peer.op, req |-> peer.req, final |-> final,
              given |-> IF body THEN peer.given + 1 ELSE peer.given]
  /\ UNCHANGED <<running, handler, history>>

\* The client aborts in place of its next packet, or because no answer comes.
PeerAborts ==
  /\ peer.state = "busy"
  /\ \/ response.code = "Continue"
     \/ request = NoPacket /\ response = NoResponse
  /\ SendsRequest([type |-> "Abort", req |-> peer.req, body |-> FALSE,
                   final |-> TRUE, parses |-> TRUE])
  /\ peer' = [peer EXCEPT !.state = "aborting"]
  /\ aborted' = TRUE
  /\ UNCHANGED <<running, handler, taken, cut, fate, headers, notice, error, raised>>

\* The client has taken Continue and, for now, does nothing more.
PeerStalls ==
  /\ peer.state = "busy"
  /\ response.code = "Continue"
  /\ response' = NoResponse
  /\ UNCHANGED <<linkUp, request, running, handler, peer, history>>

PeerEnds ==
  /\ peer.state # "idle"
  /\ response.code \in FinalCodes
  /\ response' = NoResponse
  /\ peer' = [peer EXCEPT !.state = "idle"]
  /\ UNCHANGED <<linkUp, request, running, handler, history>>

Client == \/ \E op \in Ops, body, final, parses \in BOOLEAN :
               PeerStarts(op, body, final, parses)
          \/ \E body, final \in BOOLEAN : PeerContinues(body, final)
          \/ PeerAborts
          \/ PeerStalls
          \/ PeerEnds

LinkBreaks == LinkDies /\ UNCHANGED <<running, handler, peer, history>>

Next == Server \/ Client \/ LinkBreaks

Spec == Init /\ [][Next]_vars

\* The run loop delivers the events that arrive.
FairSpec == Spec /\ WF_vars(HandleSessionEvent)

-----------------------------------------------------------------------------
(***************************************************************************)
(* Properties.                                                             *)
(***************************************************************************)

\* Each variable has its type.
TypeOK == /\ LinkOK
          /\ running \in BOOLEAN
          /\ handler \in Handler \cup {NoHandler}
          /\ peer \in Peer
          /\ taken \in Nat
          /\ cut \in BOOLEAN
          /\ fate \in [Requests -> {"none", "open", "back", "failed"}]
          /\ headers \subseteq Requests
          /\ notice \in Kinds \cup {"none"}
          /\ error \in BOOLEAN
          /\ raised \in BOOLEAN
          /\ aborted \in BOOLEAN

\* A stream the delegate opened is in use, or was given back to it with the
\* end of the request or with an error: none is dropped silently, also not by
\* an abort, unless the server was closed.
NoStreamForgotten ==
  running => \A r \in Requests : fate[r] = "open" => handler.stream = r

\* The handler holds the stream of the request that is going on and of no other:
\* the body of a request never goes to the stream of another one.
StreamIsOfRequest ==
  handler.stream # 0 => peer.state # "idle" /\ handler.stream = peer.req

\* Success ends a Put (with a body) only after every body packet the client sent
\* for it was written to the stream of the delegate and the stream was given
\* back.  (Written whole, unless the stream itself took a part of one and
\* reported no error: WritesBody does not notice that.)
PutSucceeds == /\ response.code = "Success"
               /\ peer.state = "busy"
               /\ peer.op = "Put"
               /\ peer.given > 0

NoFalseSuccess ==
  PutSucceeds => (taken = peer.given \/ cut) /\ fate[peer.req] = "back"

\* An Abort finds the request it aborts, so it is answered: only an error, of
\* which the delegate was told, can have ended the request before.
AbortFindsRequest ==
  running /\ request.type = "Abort" /\ ~error => handler # NoHandler

\* Until a request was aborted, the delegate is asked about the headers of the
\* present request only and told the end of a request of its type.
DelegateSeesRequest ==
  ~aborted => /\ headers \subseteq {peer.req}
              /\ notice \in {"none", peer.op, IF peer.op = "Put" THEN "PutDelete" ELSE "none"}

\* Every packet is answered, unless the delegate was told of an error, its
\* stream raised, or one side or the channel is gone.
EveryPacketAnswered ==
  (request # NoPacket)
    ~> (response # NoResponse \/ error \/ raised \/ ~running \/ ~linkUp)

(***************************************************************************)
(* What the documentation says and the code does not do.                   *)
(***************************************************************************)

\* "Called when the server finishes processing of a Get request": then the
\* client has not been told to go on with it.
GetNoticeMeansDone ==
  notice = "Get" /\ peer.state = "busy" => response.code # "Continue"

\* "Called when a Put request is received with the specified <requestHeaders>."
HeadersAreOfRequest == headers \subseteq {peer.req}
=============================================================================

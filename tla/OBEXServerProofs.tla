-------------------------- MODULE OBEXServerProofs --------------------------
(***************************************************************************)
(* Proofs about OBEXServer, for every number of requests and packets.      *)
(***************************************************************************)
EXTENDS OBEXServer, TLAPS

-----------------------------------------------------------------------------
(***************************************************************************)
(* Type correctness.                                                       *)
(***************************************************************************)
LEMMA CurrentType ==
  ASSUME TypeOK, request.type \in Ops
  PROVE  Current \in Handler
<1>1. 0 \in 0..MaxRequests
  BY RequestsAssumption
<1>2. NewHandler(request.type) \in Handler
  BY <1>1 DEF NewHandler, Handler
<1>3. QED
  BY <1>2 DEF TypeOK, Current

\* No operation is called as an Abort or the absence of a packet.
LEMMA OpsNames ==
  /\ "Abort" \notin Ops /\ "none" \notin Ops
  /\ Ops = {"Connect", "Disconnect", "SetPath", "Put", "Get"}
  BY DEF Ops, SingleOps

\* Bookkeeping of the streams keeps to the known requests.
LEMMA FateOfType ==
  ASSUME TypeOK, NEW h \in Handler \cup {NoHandler}, NEW f \in {"open", "back", "failed"}
  PROVE  FateOf(h, f) \in [Requests -> {"none", "open", "back", "failed"}]
<1>1. h.stream \in 0..MaxRequests
  BY RequestsAssumption DEF Handler, NoHandler, NewHandler
<1>2. h.stream # 0 => h.stream \in Requests
  BY <1>1, RequestsAssumption DEF Requests
<1>3. QED
  BY <1>2 DEF TypeOK, FateOf

LEMMA KindOfType ==
  ASSUME NEW h \in Handler
  PROVE  KindOf(h) \in Kinds
  BY DEF KindOf, Kinds, Handler

LEMMA RespondsType ==
  ASSUME TypeOK, NEW h \in Handler, NEW code \in Codes, NEW body \in BOOLEAN,
         NEW err \in BOOLEAN, Responds(h, code, body, err),
         taken' \in Nat, cut' \in BOOLEAN, headers' \subseteq Requests
  PROVE  TypeOK'
<1>1. \A f \in {"open", "back", "failed"} :
        FateOf(h, f) \in [Requests -> {"none", "open", "back", "failed"}]
  BY FateOfType
<1>2. KindOf(h) \in Kinds
  BY KindOfType
<1>3. [code |-> code, body |-> body] \in Response
  BY DEF Response
<1>4. LinkOK'
  BY <1>3 DEF Responds, Sends, CannotSend, LinkOK, TypeOK
<1>5. /\ fate' \in [Requests -> {"none", "open", "back", "failed"}]
      /\ handler' \in Handler \cup {NoHandler}
      /\ notice' \in Kinds \cup {"none"}
  BY <1>1, <1>2 DEF Responds, TypeOK
<1>6. error' \in BOOLEAN
  BY Zenon DEF Responds, TypeOK
<1>7. /\ UNCHANGED <<running, peer, raised, aborted>>
  BY DEF Responds
<1>8. QED
  BY <1>4, <1>5, <1>6, <1>7 DEF TypeOK

LEMMA RejectsType ==
  ASSUME TypeOK, NEW h \in Handler, NEW code \in Codes, Rejects(h, code)
  PROVE  TypeOK'
<1>1. FateOf(h, "back") \in [Requests -> {"none", "open", "back", "failed"}]
  BY FateOfType
<1>2. KindOf(h) \in Kinds
  BY KindOfType
<1>3. [code |-> code, body |-> FALSE] \in Response
  BY DEF Response
<1>4. LinkOK'
  BY <1>3 DEF Rejects, Sends, CannotSend, LinkOK, TypeOK
<1>5. QED
  BY <1>1, <1>2, <1>4 DEF Rejects, TypeOK

-----------------------------------------------------------------------------
\* A packet that arrives has a handler of its type and a request.
LEMMA ArrivesType ==
  ASSUME TypeOK, NEW type \in Ops, Arrives(type)
  PROVE  /\ Current \in Handler
         /\ Current.type = type
         /\ request.req \in Requests
         /\ request.type = type
         /\ request \in Packet
         /\ running
<1>1. request \in Packet
  BY OpsNames DEF Arrives, TypeOK, LinkOK, NoPacket
<1>2. QED
  BY <1>1, CurrentType DEF Arrives, TypeFits, Packet

LEMMA PutHandlerType ==
  ASSUME Current \in Handler
  PROVE  /\ PutHandler \in Handler
         /\ PutHandler.stream = Current.stream
         /\ PutHandler.type = Current.type
         /\ PutHandler.definitely
         /\ PutHandler.previous = Current.previous
  BY DEF PutHandler, Handler

LEMMA AskedHandlerType ==
  ASSUME NEW stream \in Requests \cup {0}
  PROVE  AskedHandler(stream) \in Handler
<1>1. stream \in 0..MaxRequests
  BY RequestsAssumption DEF Requests
<1>2. QED
  BY <1>1 DEF AskedHandler, Handler, Ops

LEMMA WritesBodyType ==
  ASSUME TypeOK, NEW h \in Handler, WritesBody(h), headers' \subseteq Requests
  PROVE  TypeOK'
<1>1. taken' \in Nat
  <2>1. taken' \in {taken, taken + 1} /\ taken \in Nat
    BY Zenon DEF WritesBody, TypeOK
  <2>2. QED
    BY <2>1
<1>c. cut' \in BOOLEAN
  BY Zenon DEF WritesBody, TypeOK
<1>2. CASE Responds(h, "InternalError", FALSE, TRUE)
  BY <1>1, <1>c, <1>2, RespondsType DEF Codes, FinalCodes
<1>3. CASE \E code \in {IF request.final THEN "Success" ELSE "Continue", "Refused"} :
             Responds(h, code, FALSE, FALSE)
  BY <1>1, <1>c, <1>3, RespondsType DEF Codes, FinalCodes
<1>4. QED
  BY <1>2, <1>3 DEF WritesBody

LEMMA ReadsChunkType ==
  ASSUME TypeOK, NEW h \in Handler, NEW codes \in SUBSET Codes, ReadsChunk(h, codes),
         headers' \subseteq Requests, UNCHANGED <<taken, cut>>
  PROVE  TypeOK'
<1>1. CASE \E code \in codes : Responds(h, code, TRUE, FALSE)
  BY <1>1, RespondsType DEF TypeOK
<1>2. CASE Responds(h, "InternalError", FALSE, TRUE)
  BY <1>2, RespondsType DEF Codes, FinalCodes, TypeOK
<1>3. CASE EndsLate(h)
  <2>1. FateOf(h, "back") \in [Requests -> {"none", "open", "back", "failed"}]
    BY FateOfType
  <2>2. KindOf(h) \in Kinds
    BY KindOfType
  <2>3. [code |-> "Continue", body |-> TRUE] \in Response
    BY DEF Response, Codes
  <2>4. LinkOK'
    BY <1>3, <2>3 DEF EndsLate, Sends, LinkOK, TypeOK
  <2>5. QED
    BY <1>3, <2>1, <2>2, <2>4 DEF EndsLate, TypeOK
<1>4. CASE ReadRaises(h)
  <2>1. FateOf(h, "open") \in [Requests -> {"none", "open", "back", "failed"}]
    BY FateOfType
  <2>2. QED
    BY <1>4, <2>1 DEF ReadRaises, TypeOK, LinkOK
<1>5. QED
  BY <1>1, <1>2, <1>3, <1>4 DEF ReadsChunk

LEMMA PutType ==
  ASSUME TypeOK,
         HandlePutUndecided \/ HandlePutDelete \/ HandlePutNotImplemented
           \/ HandlePutDenied \/ HandlePutAccepted \/ HandlePutContinued
  PROVE  TypeOK'
<1>1. Arrives("Put")
  BY DEF HandlePutUndecided, HandlePutDelete, HandlePutNotImplemented,
         HandlePutDenied, HandlePutAccepted, HandlePutContinued
<1>2. /\ Current \in Handler
      /\ request.req \in Requests
  BY <1>1, ArrivesType, OpsNames
<1>3. Current.previous \cup {request.req} \subseteq Requests
  BY <1>2 DEF Handler
<1>4. PutHandler \in Handler
  BY <1>2, PutHandlerType
<1>5. /\ taken \in Nat /\ cut \in BOOLEAN
      /\ headers \subseteq Requests
  BY DEF TypeOK
<1>6. CASE HandlePutUndecided
  <2>1. [Current EXCEPT !.previous = @ \cup {request.req}] \in Handler
    BY <1>2, <1>3 DEF Handler
  <2>2. QED
    BY <1>5, <1>6, <2>1, RespondsType DEF HandlePutUndecided, Codes
<1>7. CASE HandlePutDelete
  <2>1. [Current EXCEPT !.previous = {}] \in Handler
    BY <1>2 DEF Handler
  <2>2. taken' \in Nat /\ cut' \in BOOLEAN /\ headers' \subseteq Requests
    BY <1>3, <1>5, <1>7 DEF HandlePutDelete
  <2>3. QED
    BY <1>2, <1>7, <2>1, <2>2, RespondsType DEF HandlePutDelete, Codes, FinalCodes
<1>8. CASE HandlePutNotImplemented
  BY <1>4, <1>5, <1>8, RespondsType DEF HandlePutNotImplemented, Codes, FinalCodes
<1>9. CASE HandlePutDenied
  <2>1. AskedHandler(0) \in Handler
    BY AskedHandlerType
  <2>2. taken' \in Nat /\ cut' \in BOOLEAN /\ headers' \subseteq Requests
    BY <1>3, <1>5, <1>9 DEF HandlePutDenied
  <2>3. QED
    BY <1>9, <2>1, <2>2, RespondsType DEF HandlePutDenied, Codes, FinalCodes
<1>10. CASE HandlePutAccepted
  <2>1. AskedHandler(request.req) \in Handler
    BY <1>2, AskedHandlerType DEF Requests
  <2>2. QED
    BY <1>3, <1>10, <2>1, WritesBodyType DEF HandlePutAccepted
<1>11. CASE HandlePutContinued
  BY <1>4, <1>5, <1>11, WritesBodyType DEF HandlePutContinued
<1>12. QED
  BY <1>6, <1>7, <1>8, <1>9, <1>10, <1>11

LEMMA GetType ==
  ASSUME TypeOK,
         HandleGetNotImplemented \/ HandleGetDenied \/ HandleGetAccepted
           \/ HandleGetContinued
  PROVE  TypeOK'
<1>1. Arrives("Get")
  BY DEF HandleGetNotImplemented, HandleGetDenied, HandleGetAccepted, HandleGetContinued
<1>2. /\ Current \in Handler
      /\ request.req \in Requests
  BY <1>1, ArrivesType, OpsNames
<1>3. /\ taken \in Nat /\ cut \in BOOLEAN
      /\ headers \subseteq Requests
  BY DEF TypeOK
<1>4. CASE HandleGetNotImplemented
  BY <1>2, <1>3, <1>4, RespondsType DEF HandleGetNotImplemented, Codes, FinalCodes
<1>5. CASE HandleGetDenied
  <2>1. taken' \in Nat /\ cut' \in BOOLEAN /\ headers' \subseteq Requests
    BY <1>2, <1>3, <1>5 DEF HandleGetDenied
  <2>2. QED
    BY <1>2, <1>5, <2>1, RespondsType DEF HandleGetDenied, Codes, FinalCodes
<1>6. CASE HandleGetAccepted
  <2>1. [Current EXCEPT !.stream = request.req] \in Handler
    BY <1>2, RequestsAssumption DEF Handler, Requests
  <2>2. QED
    BY <1>2, <1>6, <2>1, ReadsChunkType DEF HandleGetAccepted, Codes, FinalCodes
<1>7. CASE HandleGetContinued
  BY <1>2, <1>3, <1>7, ReadsChunkType DEF HandleGetContinued, Codes, FinalCodes
<1>8. QED
  BY <1>4, <1>5, <1>6, <1>7

\* What is left of a handler after an Abort.
LEMMA AfterAbortType ==
  ASSUME NEW h \in Handler
  PROVE  /\ AfterAbort(h) \in Handler
         /\ h.type \in {"Put", "Get"} => AfterAbort(h).stream = 0
         /\ h.type \notin {"Put", "Get"} => AfterAbort(h) = h
<1>1. 0 \in 0..MaxRequests
  BY RequestsAssumption
<1>2. QED
  BY <1>1 DEF AfterAbort, Handler

LEMMA AbortType ==
  ASSUME TypeOK, HandleAbort \/ HandleIdleAbort
  PROVE  TypeOK'
<1>1. CASE HandleAbort
  <2>1. handler \in Handler
    BY <1>1 DEF HandleAbort, TypeOK
  <2>2. AfterAbort(handler) \in Handler
    BY <2>1, AfterAbortType
  <2>3. FateOf(handler, "back") \in [Requests -> {"none", "open", "back", "failed"}]
    BY <2>1, FateOfType
  <2>4. [code |-> "Success", body |-> FALSE] \in Response
    BY DEF Response, Codes, FinalCodes
  <2>5. LinkOK'
    BY <1>1, <2>4 DEF HandleAbort, Sends, CannotSend, LinkOK, TypeOK
  <2>6. notice' \in Kinds \cup {"none"}
    BY <1>1 DEF HandleAbort, TypeOK, Kinds, Ops
  <2>7. QED
    BY <1>1, <2>2, <2>3, <2>5, <2>6 DEF HandleAbort, TypeOK
<1>2. CASE HandleIdleAbort
  BY <1>2 DEF HandleIdleAbort, TypeOK, LinkOK, history
<1>3. QED
  BY <1>1, <1>2

LEMMA SessionEventType ==
  ASSUME TypeOK, HandleSessionEvent
  PROVE  TypeOK'
<1>1. CASE HandleWrongType
  BY <1>1, CurrentType, RejectsType DEF HandleWrongType, Codes, FinalCodes
<1>2. CASE HandleUnreadable
  BY <1>2, CurrentType, RejectsType DEF HandleUnreadable, Codes, FinalCodes
<1>3. CASE HandleSingle
  <2>1. PICK type \in SingleOps,
             code \in {"NotImplemented", "Success", "Forbidden", "Refused"} :
          /\ Arrives(type)
          /\ headers' = IF code = "NotImplemented" THEN headers ELSE {request.req}
          /\ Responds(Current, code, FALSE, FALSE)
          /\ UNCHANGED <<taken, cut>>
    BY <1>3 DEF HandleSingle
  <2>2. Current \in Handler /\ request.req \in Requests
    BY <2>1, ArrivesType DEF Ops
  <2>3. taken' \in Nat /\ cut' \in BOOLEAN /\ headers' \subseteq Requests
    BY <2>1, <2>2 DEF TypeOK
  <2>4. QED
    BY <2>1, <2>2, <2>3, RespondsType DEF Codes, FinalCodes
<1>4. QED
  BY <1>1, <1>2, <1>3, PutType, GetType, AbortType DEF HandleSessionEvent

-----------------------------------------------------------------------------
(***************************************************************************)
(* The client has one packet or one response under way, of the request it  *)
(* is at.                                                                  *)
(***************************************************************************)
PeerOK == /\ peer.state # "idle" => peer.req \in Requests /\ peer.op \in Ops
          /\ request # NoPacket =>
               /\ peer.state # "idle"
               /\ request.req = peer.req
               /\ request.type = IF peer.state = "aborting" THEN "Abort" ELSE peer.op
               /\ response = NoResponse
          /\ response # NoResponse => peer.state # "idle"

LEMMA NamedPacket ==
  ASSUME request.type # "none"
  PROVE  request # NoPacket
  BY DEF NoPacket

\* What every session event has in common.
LEMMA SessionEventTakes ==
  ASSUME HandleSessionEvent
  PROVE  /\ running
         /\ request # NoPacket /\ request' = NoPacket
         /\ UNCHANGED <<running, peer, aborted>>
<1>1. CASE HandleWrongType \/ HandleUnreadable
  BY <1>1, NamedPacket, OpsNames DEF HandleWrongType, HandleUnreadable, Rejects
<1>2. CASE HandleSingle
  BY <1>2, NamedPacket, OpsNames DEF HandleSingle, Arrives, Responds, Ops
<1>3. CASE HandlePutUndecided \/ HandlePutDelete \/ HandlePutNotImplemented \/ HandlePutDenied
  BY <1>3, NamedPacket DEF HandlePutUndecided, HandlePutDelete, HandlePutNotImplemented,
              HandlePutDenied, Arrives, Responds
<1>4. CASE HandlePutAccepted \/ HandlePutContinued
  BY <1>4, NamedPacket DEF HandlePutAccepted, HandlePutContinued, WritesBody, Arrives, Responds
<1>5. CASE HandleGetNotImplemented \/ HandleGetDenied
  BY <1>5, NamedPacket DEF HandleGetNotImplemented, HandleGetDenied, Arrives, Responds
<1>6. CASE HandleGetAccepted \/ HandleGetContinued
  BY <1>6, NamedPacket DEF HandleGetAccepted, HandleGetContinued, ReadsChunk, EndsLate,
                           ReadRaises, Arrives, Responds
<1>7. CASE HandleAbort \/ HandleIdleAbort
  BY <1>7, NamedPacket DEF HandleAbort, HandleIdleAbort, history
<1>8. QED
  BY <1>1, <1>2, <1>3, <1>4, <1>5, <1>6, <1>7 DEF HandleSessionEvent

LEMMA StartsKeeps ==
  ASSUME TypeOK, PeerOK, NEW op \in Ops, NEW body \in BOOLEAN, NEW final \in BOOLEAN,
         NEW parses \in BOOLEAN, PeerStarts(op, body, final, parses)
  PROVE  TypeOK' /\ PeerOK'
<1> DEFINE p == [type |-> op, req |-> peer.req + 1, body |-> body,
                 final |-> final, parses |-> parses]
<1>1. peer.req + 1 \in Requests /\ peer.req + 1 \in 0..MaxRequests
  BY RequestsAssumption DEF PeerStarts, TypeOK, Peer, Requests
<1>2. p \in Packet
  BY <1>1 DEF Packet
<1>3. request' = p /\ response' = NoResponse /\ UNCHANGED linkUp
  BY DEF PeerStarts, SendsRequest
<1>4. LinkOK'
  BY <1>2, <1>3 DEF LinkOK, TypeOK
<1>5. (IF body THEN 1 ELSE 0) \in 0..MaxPackets
  BY PacketsAssumption DEF PeerStarts
<1>6. peer' = [state |-> "busy", op |-> op, req |-> peer.req + 1,
               final |-> final, given |-> IF body THEN 1 ELSE 0]
  BY DEF PeerStarts
<1>7. peer' \in Peer
  BY <1>1, <1>5, <1>6 DEF Peer
<1>8. TypeOK'
  BY <1>4, <1>7 DEF PeerStarts, TypeOK
<1>9. PeerOK'
  BY <1>1, <1>3, <1>6 DEF PeerOK
<1>10. QED
  BY <1>8, <1>9

LEMMA ContinuesKeeps ==
  ASSUME TypeOK, PeerOK, NEW body \in BOOLEAN, NEW final \in BOOLEAN,
         PeerContinues(body, final)
  PROVE  TypeOK' /\ PeerOK'
<1> DEFINE p == [type |-> peer.op, req |-> peer.req, body |-> body,
                 final |-> final, parses |-> TRUE]
<1>1. peer \in Peer
  BY DEF TypeOK
<1>2. peer.req \in Requests /\ peer.op \in Ops
  BY DEF PeerOK, PeerContinues
<1>3. request' = p /\ response' = NoResponse /\ UNCHANGED linkUp
  BY DEF PeerContinues, SendsRequest
<1>4. p \in Packet
  BY <1>2 DEF Packet
<1>5. LinkOK'
  BY <1>3, <1>4 DEF LinkOK, TypeOK
<1>6. peer.given \in 0..MaxPackets /\ (body => peer.given + 1 \in 0..MaxPackets)
  BY <1>1, PacketsAssumption DEF PeerContinues, Peer
<1>7. peer' = [state |-> "busy", op |-> peer.op, req |-> peer.req, final |-> final,
               given |-> IF body THEN peer.given + 1 ELSE peer.given]
  BY DEF PeerContinues
<1>8. peer' \in Peer
  BY <1>1, <1>6, <1>7 DEF Peer
<1>9. TypeOK'
  BY <1>5, <1>8 DEF PeerContinues, TypeOK, history
<1>10. PeerOK'
  BY <1>2, <1>3, <1>7 DEF PeerOK, PeerContinues
<1>11. QED
  BY <1>9, <1>10

LEMMA AbortsKeeps ==
  ASSUME TypeOK, PeerOK, PeerAborts
  PROVE  TypeOK' /\ PeerOK'
<1> DEFINE p == [type |-> "Abort", req |-> peer.req, body |-> FALSE,
                 final |-> TRUE, parses |-> TRUE]
<1>1. peer \in Peer
  BY DEF TypeOK
<1>2. peer.req \in Requests /\ peer.op \in Ops
  BY DEF PeerOK, PeerAborts
<1>3. request' = p /\ response' = NoResponse /\ UNCHANGED linkUp
  BY DEF PeerAborts, SendsRequest
<1>4. p \in Packet
  BY <1>2 DEF Packet
<1>5. LinkOK'
  BY <1>3, <1>4 DEF LinkOK, TypeOK
<1>6. peer' = [peer EXCEPT !.state = "aborting"]
  BY DEF PeerAborts
<1>7. peer' \in Peer
  BY <1>1, <1>6 DEF Peer
<1>8. TypeOK'
  BY <1>5, <1>7 DEF PeerAborts, TypeOK
<1>9. PeerOK'
  BY <1>1, <1>2, <1>3, <1>6 DEF PeerOK, Peer
<1>10. QED
  BY <1>8, <1>9

LEMMA StallsKeeps ==
  ASSUME TypeOK, PeerOK, PeerStalls
  PROVE  TypeOK' /\ PeerOK'
<1>1. response # NoResponse
  BY DEF PeerStalls, NoResponse
<1>2. request = NoPacket
  BY <1>1 DEF PeerOK
<1>3. QED
  BY <1>2 DEF PeerStalls, PeerOK, TypeOK, LinkOK, history

LEMMA EndsKeeps ==
  ASSUME TypeOK, PeerOK, PeerEnds
  PROVE  TypeOK' /\ PeerOK'
<1>1. response # NoResponse
  BY DEF PeerEnds, FinalCodes, NoResponse
<1>2. request = NoPacket
  BY <1>1 DEF PeerOK
<1>3. peer' \in Peer /\ peer'.state = "idle"
  BY DEF PeerEnds, TypeOK, Peer
<1>4. QED
  BY <1>2, <1>3 DEF PeerEnds, PeerOK, TypeOK, LinkOK, history

LEMMA TypeStep == TypeOK /\ PeerOK /\ [Next]_vars => TypeOK' /\ PeerOK'
<1> SUFFICES ASSUME TypeOK, PeerOK, [Next]_vars PROVE TypeOK' /\ PeerOK'
  OBVIOUS
<1>1. CASE HandleSessionEvent
  <2>1. TypeOK'
    BY <1>1, SessionEventType
  <2>2. PeerOK'
    BY <1>1, SessionEventTakes DEF PeerOK
  <2>3. QED
    BY <2>1, <2>2
<1>2. CASE HandleError
  BY <1>2 DEF HandleError, TypeOK, PeerOK, LinkOK, link
<1>3. CASE Close \/ ChannelClosed
  BY <1>3 DEF Close, ChannelClosed, Closes, TypeOK, PeerOK, LinkOK, link
<1>4. CASE Client
  BY <1>4, StartsKeeps, ContinuesKeeps, AbortsKeeps, StallsKeeps, EndsKeeps DEF Client
<1>5. CASE LinkBreaks
  BY <1>5 DEF LinkBreaks, LinkDies, TypeOK, PeerOK, LinkOK, history
<1>6. CASE UNCHANGED vars
  BY <1>6 DEF vars, link, history, TypeOK, PeerOK, LinkOK
<1>7. QED
  BY <1>1, <1>2, <1>3, <1>4, <1>5, <1>6 DEF Next, Server

LEMMA TypeInit == Init => TypeOK /\ PeerOK
<1> SUFFICES ASSUME Init PROVE TypeOK /\ PeerOK
  OBVIOUS
<1>1. 0 \in 0..MaxRequests /\ 0 \in 0..MaxPackets
  BY RequestsAssumption, PacketsAssumption
<1>2. peer \in Peer
  BY <1>1 DEF Init, Peer
<1>3. QED
  BY <1>2 DEF Init, LinkInit, TypeOK, PeerOK, LinkOK

\* Each variable of the server keeps its type, whatever the client sends.
THEOREM TypeCorrect == Spec => [](TypeOK /\ PeerOK)
<1>1. Init => TypeOK /\ PeerOK
  BY TypeInit
<1>2. TypeOK /\ PeerOK /\ [Next]_vars => TypeOK' /\ PeerOK'
  BY TypeStep
<1>3. QED
  BY <1>1, <1>2, PTL DEF Spec

-----------------------------------------------------------------------------
(***************************************************************************)
(* The streams of the delegate.  A stream is in the handler only while its *)
(* request goes on: a final response leaves the handler without one.       *)
(***************************************************************************)
StreamOK == /\ NoStreamForgotten
            /\ StreamIsOfRequest
            /\ handler.stream # 0 => handler.type \in {"Put", "Get"}
            /\ response.code \in FinalCodes => handler.stream = 0

ServerInv == TypeOK /\ PeerOK /\ StreamOK

\* A handler that may take the place of the present one.
Fits(h) == /\ h \in Handler
           /\ h.stream # 0 => h.stream = peer.req /\ h.type \in {"Put", "Get"}
           /\ \A r \in Requests : fate[r] = "open" => h.stream = r

LEMMA NoHandlerStream == NoHandler.stream = 0 /\ NoHandler.type = "none"
  BY DEF NoHandler, NewHandler

LEMMA NoResponseCode == NoResponse.code \notin Codes
  BY DEF NoResponse, Codes, FinalCodes

\* After a step that hands back the stream of h none is open.
LEMMA HandedBack ==
  ASSUME TypeOK, NEW h, Fits(h), NEW f \in {"back", "failed"}, fate' = FateOf(h, f)
  PROVE  \A r \in Requests : fate'[r] # "open"
<1>1. 0 \notin Requests
  BY RequestsAssumption DEF Requests
<1>2. QED
  BY <1>1 DEF FateOf, Fits, TypeOK

LEMMA KeptOpen ==
  ASSUME TypeOK, NEW h, Fits(h), fate' = FateOf(h, "open")
  PROVE  \A r \in Requests : fate'[r] = "open" => h.stream = r
  BY DEF FateOf, Fits, TypeOK

LEMMA RespondsStream ==
  ASSUME TypeOK, PeerOK, peer.state # "idle", response = NoResponse,
         NEW h, Fits(h), NEW code \in Codes, NEW body, NEW err,
         Responds(h, code, body, err)
  PROVE  StreamOK'
<1>1. UNCHANGED <<running, peer>>
  BY DEF Responds
<1>2. CASE /\ Sends(code, body)
           /\ code = "Continue"
           /\ handler' = h
           /\ fate' = FateOf(h, "open")
  <2>1. \A r \in Requests : fate'[r] = "open" => h.stream = r
    BY <1>2, KeptOpen
  <2>2. response'.code = "Continue"
    BY <1>2 DEF Sends
  <2>3. QED
    BY <1>1, <1>2, <2>1, <2>2 DEF StreamOK, NoStreamForgotten, StreamIsOfRequest,
                                  Fits, FinalCodes
<1>3. CASE handler' = NoHandler /\ \E f \in {"back", "failed"} : fate' = FateOf(h, f)
  <2>1. \A r \in Requests : fate'[r] # "open"
    BY <1>3, HandedBack
  <2>2. QED
    BY <1>3, <2>1, NoHandlerStream DEF StreamOK, NoStreamForgotten, StreamIsOfRequest
<1>4. QED
  BY <1>2, <1>3 DEF Responds

LEMMA RejectsStream ==
  ASSUME TypeOK, NEW h, Fits(h), NEW code, Rejects(h, code)
  PROVE  StreamOK'
<1>1. \A r \in Requests : fate'[r] # "open"
  BY HandedBack DEF Rejects
<1>2. handler' = NoHandler
  BY DEF Rejects
<1>3. QED
  BY <1>1, <1>2, NoHandlerStream DEF StreamOK, NoStreamForgotten, StreamIsOfRequest

LEMMA CurrentFits ==
  ASSUME ServerInv, running, request.type \in Ops
  PROVE  /\ Fits(Current)
         /\ Current.stream = handler.stream
         /\ request.req = peer.req
         /\ peer.state = "busy"
         /\ peer.op = request.type
         /\ response = NoResponse
<1>1. request # NoPacket
  BY OpsNames, NamedPacket
<1>2. /\ request.req = peer.req
      /\ peer.state = "busy"
      /\ peer.op = request.type
      /\ response = NoResponse
  BY <1>1, OpsNames DEF ServerInv, PeerOK, TypeOK, Peer
<1>3. Current.stream = handler.stream
  BY DEF Current, NoHandler, NewHandler
<1>4. Current \in Handler
  BY CurrentType DEF ServerInv
<1>5. handler.stream # 0 => Current = handler
  BY NoHandlerStream DEF Current
<1>6. Fits(Current)
  BY <1>3, <1>4, <1>5 DEF Fits, ServerInv, StreamOK, NoStreamForgotten, StreamIsOfRequest
<1>7. QED
  BY <1>2, <1>3, <1>6

\* A handler without a stream takes that of the present request.
LEMMA NewStreamFits ==
  ASSUME Fits(Current), Current.stream = 0, NEW h \in Handler,
         h.stream \in {0, peer.req}, h.type \in {"Put", "Get"}
  PROVE  Fits(h)
<1>1. \A r \in Requests : fate[r] # "open"
  BY DEF Fits, Requests
<1>2. QED
  BY <1>1 DEF Fits

LEMMA WritesBodyStream ==
  ASSUME TypeOK, PeerOK, peer.state # "idle", response = NoResponse,
         NEW h, Fits(h), WritesBody(h)
  PROVE  StreamOK'
<1>1. PICK code \in Codes, err \in BOOLEAN : Responds(h, code, FALSE, err)
  BY DEF WritesBody, Codes, FinalCodes
<1>2. QED
  BY <1>1, RespondsStream

LEMMA ReadsChunkStream ==
  ASSUME TypeOK, PeerOK, peer.state # "idle", response = NoResponse,
         NEW h, Fits(h), NEW codes \in SUBSET Codes, ReadsChunk(h, codes)
  PROVE  StreamOK'
<1>1. CASE \E code \in Codes, err \in BOOLEAN : Responds(h, code, TRUE, err)
  BY <1>1, RespondsStream
<1>2. CASE Responds(h, "InternalError", FALSE, TRUE)
  BY <1>2, RespondsStream DEF Codes, FinalCodes
<1>3. CASE EndsLate(h)
  <2>1. \A r \in Requests : fate'[r] # "open"
    BY <1>3, HandedBack DEF EndsLate
  <2>2. handler' = NoHandler
    BY <1>3 DEF EndsLate
  <2>3. QED
    BY <2>1, <2>2, NoHandlerStream DEF StreamOK, NoStreamForgotten, StreamIsOfRequest
<1>4. CASE ReadRaises(h)
  <2>1. \A r \in Requests : fate'[r] = "open" => h.stream = r
    BY <1>4, KeptOpen DEF ReadRaises
  <2>2. response'.code \notin FinalCodes
    BY <1>4, NoResponseCode DEF ReadRaises, Codes
  <2>3. handler' = h /\ UNCHANGED peer
    BY <1>4 DEF ReadRaises
  <2>4. QED
    BY <2>1, <2>2, <2>3 DEF StreamOK, NoStreamForgotten, StreamIsOfRequest, Fits
<1>5. QED
  BY <1>1, <1>2, <1>3, <1>4 DEF ReadsChunk

LEMMA PutStream ==
  ASSUME ServerInv,
         HandlePutUndecided \/ HandlePutDelete \/ HandlePutNotImplemented
           \/ HandlePutDenied \/ HandlePutAccepted \/ HandlePutContinued
  PROVE  StreamOK'
<1>1. Arrives("Put") /\ TypeOK /\ PeerOK
  BY DEF HandlePutUndecided, HandlePutDelete, HandlePutNotImplemented,
         HandlePutDenied, HandlePutAccepted, HandlePutContinued, ServerInv
<1>2. /\ Current \in Handler
      /\ Current.type = "Put"
      /\ request.req \in Requests
  BY <1>1, ArrivesType, OpsNames
<1>3. /\ Fits(Current)
      /\ request.req = peer.req
      /\ peer.state # "idle"
      /\ response = NoResponse
  BY <1>1, CurrentFits, OpsNames DEF Arrives
<1>4. Fits(PutHandler)
  BY <1>2, <1>3, PutHandlerType DEF Fits
<1>5. CASE HandlePutUndecided
  <2> DEFINE h == [Current EXCEPT !.previous = @ \cup {request.req}]
  <2>1. h \in Handler /\ h.stream = Current.stream /\ h.type = Current.type
    BY <1>2 DEF Handler
  <2>2. Fits(h)
    BY <1>3, <2>1 DEF Fits
  <2>3. Responds(h, "Continue", FALSE, FALSE)
    BY <1>5 DEF HandlePutUndecided
  <2>4. QED
    BY <1>1, <1>3, <2>2, <2>3, RespondsStream DEF Codes
<1>6. CASE HandlePutDelete
  <2> DEFINE h == [Current EXCEPT !.previous = {}]
  <2>1. h \in Handler /\ h.stream = Current.stream /\ h.type = Current.type
    BY <1>2 DEF Handler
  <2>2. Fits(h)
    BY <1>3, <2>1 DEF Fits
  <2>3. \/ Responds(Current, "NotImplemented", FALSE, FALSE)
        \/ \E code \in {"Success", "Forbidden", "Refused"} : Responds(h, code, FALSE, FALSE)
    BY <1>6 DEF HandlePutDelete
  <2>4. QED
    BY <1>1, <1>3, <2>2, <2>3, RespondsStream DEF Codes, FinalCodes
<1>7. CASE HandlePutNotImplemented
  BY <1>1, <1>3, <1>4, <1>7, RespondsStream DEF HandlePutNotImplemented, Codes, FinalCodes
<1>8. CASE HandlePutDenied
  <2>1. AskedHandler(0) \in Handler
    BY AskedHandlerType
  <2>2. Fits(AskedHandler(0))
    BY <1>3, <1>8, <2>1, NewStreamFits DEF HandlePutDenied, AskedHandler
  <2>3. QED
    BY <1>1, <1>3, <1>8, <2>2, RespondsStream DEF HandlePutDenied, Codes, FinalCodes
<1>9. CASE HandlePutAccepted
  <2>1. AskedHandler(request.req) \in Handler
    BY <1>2, AskedHandlerType
  <2>2. Fits(AskedHandler(request.req))
    BY <1>3, <1>9, <2>1, NewStreamFits DEF HandlePutAccepted, AskedHandler
  <2>3. QED
    BY <1>1, <1>3, <1>9, <2>2, WritesBodyStream DEF HandlePutAccepted
<1>10. CASE HandlePutContinued
  BY <1>1, <1>3, <1>4, <1>10, WritesBodyStream DEF HandlePutContinued
<1>11. QED
  BY <1>5, <1>6, <1>7, <1>8, <1>9, <1>10

LEMMA GetStream ==
  ASSUME ServerInv,
         HandleGetNotImplemented \/ HandleGetDenied \/ HandleGetAccepted
           \/ HandleGetContinued
  PROVE  StreamOK'
<1>1. Arrives("Get") /\ TypeOK /\ PeerOK
  BY DEF HandleGetNotImplemented, HandleGetDenied, HandleGetAccepted,
         HandleGetContinued, ServerInv
<1>2. /\ Current \in Handler
      /\ Current.type = "Get"
      /\ request.req \in Requests
  BY <1>1, ArrivesType, OpsNames
<1>3. /\ Fits(Current)
      /\ request.req = peer.req
      /\ peer.state # "idle"
      /\ response = NoResponse
  BY <1>1, CurrentFits, OpsNames DEF Arrives
<1>4. CASE HandleGetNotImplemented \/ HandleGetDenied
  BY <1>1, <1>3, <1>4, RespondsStream
     DEF HandleGetNotImplemented, HandleGetDenied, Codes, FinalCodes
<1>5. CASE HandleGetAccepted
  <2> DEFINE h == [Current EXCEPT !.stream = request.req]
  <2>1. request.req \in 0..MaxRequests
    BY <1>2, RequestsAssumption DEF Requests
  <2>2. h \in Handler /\ h.stream = request.req /\ h.type = Current.type
    BY <1>2, <2>1 DEF Handler
  <2>3. Fits(h)
    BY <1>2, <1>3, <1>5, <2>2, NewStreamFits DEF HandleGetAccepted
  <2>4. ReadsChunk(h, {"Continue", "Success"})
    BY <1>5 DEF HandleGetAccepted
  <2>5. QED
    BY <1>1, <1>3, <2>3, <2>4, ReadsChunkStream DEF Codes, FinalCodes
<1>6. CASE HandleGetContinued
  BY <1>1, <1>3, <1>6, ReadsChunkStream DEF HandleGetContinued, Codes, FinalCodes
<1>7. QED
  BY <1>4, <1>5, <1>6

LEMMA AbortStream ==
  ASSUME ServerInv, HandleAbort \/ HandleIdleAbort
  PROVE  StreamOK'
<1>1. CASE HandleAbort
  <2>1. handler \in Handler
    BY <1>1 DEF HandleAbort, ServerInv, TypeOK
  <2>2. /\ AfterAbort(handler) \in Handler
        /\ handler.type \in {"Put", "Get"} => AfterAbort(handler).stream = 0
        /\ handler.type \notin {"Put", "Get"} => AfterAbort(handler) = handler
    BY <2>1, AfterAbortType
  <2>3. handler'.stream = 0
    BY <1>1, <2>2 DEF HandleAbort, ServerInv, StreamOK
  <2>4. Fits(handler)
    BY <1>1, <2>1 DEF Fits, HandleAbort, ServerInv, StreamOK, StreamIsOfRequest,
                      NoStreamForgotten
  <2>5. \A r \in Requests : fate'[r] # "open"
    BY <1>1, <2>4, HandedBack DEF HandleAbort, ServerInv
  <2>6. QED
    BY <2>3, <2>5 DEF StreamOK, NoStreamForgotten, StreamIsOfRequest
<1>2. CASE HandleIdleAbort
  BY <1>2 DEF HandleIdleAbort, ServerInv, StreamOK, NoStreamForgotten,
              StreamIsOfRequest, history
<1>3. QED
  BY <1>1, <1>2

LEMMA SessionEventStream ==
  ASSUME ServerInv, HandleSessionEvent
  PROVE  StreamOK'
<1>1. running /\ TypeOK /\ PeerOK
  BY SessionEventTakes DEF ServerInv
<1>2. CASE HandleWrongType
  BY <1>1, <1>2, CurrentFits, RejectsStream DEF HandleWrongType
<1>3. CASE HandleUnreadable
  BY <1>1, <1>3, CurrentFits, RejectsStream DEF HandleUnreadable
<1>4. CASE HandleSingle
  <2>1. PICK type \in SingleOps,
             code \in {"NotImplemented", "Success", "Forbidden", "Refused"} :
          Arrives(type) /\ Responds(Current, code, FALSE, FALSE)
    BY <1>4 DEF HandleSingle
  <2>2. request.type \in Ops
    BY <2>1 DEF Arrives, Ops
  <2>3. code \in Codes
    BY DEF Codes, FinalCodes
  <2>4. /\ Fits(Current)
        /\ peer.state # "idle"
        /\ response = NoResponse
    BY <1>1, <2>2, CurrentFits
  <2>5. QED
    BY <1>1, <2>1, <2>3, <2>4, RespondsStream
<1>5. QED
  BY <1>2, <1>3, <1>4, PutStream, GetStream, AbortStream DEF HandleSessionEvent

LEMMA ClientStream ==
  ASSUME ServerInv, Client
  PROVE  StreamOK'
<1> USE DEF ServerInv, StreamOK, NoStreamForgotten, StreamIsOfRequest
<1>1. NoResponse.code \notin FinalCodes
  BY NoResponseCode DEF Codes
<1>2. ASSUME NEW op \in Ops, NEW body \in BOOLEAN, NEW final \in BOOLEAN,
             NEW parses \in BOOLEAN, PeerStarts(op, body, final, parses)
      PROVE  StreamOK'
  BY <1>1, <1>2 DEF PeerStarts, SendsRequest
<1>3. ASSUME NEW body \in BOOLEAN, NEW final \in BOOLEAN, PeerContinues(body, final)
      PROVE  StreamOK'
  <2>1. peer'.state = peer.state /\ peer'.req = peer.req
    BY <1>3 DEF PeerContinues
  <2>2. UNCHANGED <<running, handler, fate>> /\ response' = NoResponse
    BY <1>3 DEF PeerContinues, SendsRequest, history
  <2>3. QED
    BY <1>1, <2>1, <2>2
<1>4. CASE PeerAborts
  <2>1. peer'.state = "aborting" /\ peer'.req = peer.req
    BY <1>4 DEF PeerAborts, TypeOK, Peer
  <2>2. UNCHANGED <<running, handler, fate>> /\ response' = NoResponse
    BY <1>4 DEF PeerAborts, SendsRequest
  <2>3. QED
    BY <1>1, <2>1, <2>2
<1>5. CASE PeerEnds
  <2>1. handler.stream = 0
    BY <1>5 DEF PeerEnds
  <2>2. UNCHANGED <<running, handler, fate>>
    BY <1>5 DEF PeerEnds, history
  <2>3. QED
    BY <2>1, <2>2
<1>6. CASE PeerStalls
  <2>1. UNCHANGED <<running, handler, fate, peer>> /\ response' = NoResponse
    BY <1>6 DEF PeerStalls, history
  <2>2. QED
    BY <1>1, <2>1
<1>7. QED
  BY <1>2, <1>3, <1>4, <1>5, <1>6 DEF Client

LEMMA ServerInvStep == ServerInv /\ [Next]_vars => ServerInv'
<1> SUFFICES ASSUME ServerInv, [Next]_vars PROVE ServerInv'
  OBVIOUS
<1>1. TypeOK' /\ PeerOK'
  BY TypeStep DEF ServerInv
<1>2. StreamOK'
  <2>1. CASE HandleSessionEvent
    BY <2>1, SessionEventStream
  <2>2. CASE HandleError
    BY <2>2 DEF HandleError, ServerInv, StreamOK, NoStreamForgotten,
                StreamIsOfRequest, link
  <2>3. CASE Close \/ ChannelClosed
    <3>1. ~running' /\ handler' = NoHandler
      BY <2>3 DEF Close, ChannelClosed, Closes
    <3>2. QED
      BY <3>1, NoHandlerStream DEF StreamOK, NoStreamForgotten, StreamIsOfRequest
  <2>4. CASE Client
    BY <2>4, ClientStream
  <2>5. CASE LinkBreaks
    <3>1. response'.code \notin FinalCodes
      BY <2>5, NoResponseCode DEF LinkBreaks, LinkDies, Codes
    <3>2. QED
      BY <2>5, <3>1 DEF LinkBreaks, ServerInv, StreamOK, NoStreamForgotten,
                        StreamIsOfRequest, history
  <2>6. CASE UNCHANGED vars
    BY <2>6 DEF vars, link, history, ServerInv, StreamOK, NoStreamForgotten,
                StreamIsOfRequest
  <2>7. QED
    BY <2>1, <2>2, <2>3, <2>4, <2>5, <2>6 DEF Next, Server
<1>3. QED
  BY <1>1, <1>2 DEF ServerInv

LEMMA ServerInvInit == Init => ServerInv
<1> SUFFICES ASSUME Init PROVE ServerInv
  OBVIOUS
<1>1. response.code \notin FinalCodes
  BY NoResponseCode DEF Init, LinkInit, Codes
<1>2. \A r \in Requests : fate[r] # "open"
  BY DEF Init
<1>3. handler.stream = 0
  BY NoHandlerStream DEF Init
<1>4. QED
  BY <1>1, <1>2, <1>3, TypeInit DEF ServerInv, StreamOK, NoStreamForgotten,
                                    StreamIsOfRequest

LEMMA ServerInvariant == Spec => []ServerInv
<1>1. QED
  BY ServerInvInit, ServerInvStep, PTL DEF Spec

\* A stream the delegate opened stays in use until the delegate is told that
\* its request ended, was aborted or failed, however requests, aborts and
\* failures follow each other.
THEOREM StreamsAreHandedBack == Spec => []NoStreamForgotten
<1>1. ServerInv => NoStreamForgotten
  BY DEF ServerInv, StreamOK
<1>2. QED
  BY <1>1, ServerInvariant, PTL

\* The body of a request never goes to the stream of another.
THEOREM StreamsAreNotMixed == Spec => []StreamIsOfRequest
<1>1. ServerInv => StreamIsOfRequest
  BY DEF ServerInv, StreamOK
<1>2. QED
  BY <1>1, ServerInvariant, PTL

-----------------------------------------------------------------------------
(***************************************************************************)
(* What was written: between two packets every body packet the client has  *)
(* sent is in the stream, unless the stream took only a part of one, and   *)
(* there is a stream once one has come.                                    *)
(***************************************************************************)
Bodies(p) == IF p.body THEN 1 ELSE 0

PutOK ==
  /\ handler.definitely => handler.stream # 0
  /\ running /\ request.type = "Put" =>
       /\ cut \/ peer.given = taken + Bodies(request)
       /\ request.body \/ handler.definitely \/ peer.given = 0
  /\ running /\ response.code = "Continue" /\ peer.op = "Put" /\ peer.state = "busy" =>
       /\ cut \/ peer.given = taken
       /\ handler.definitely \/ peer.given = 0
  /\ NoFalseSuccess

\* The present request has a handler unless an error has ended it.
AbortOK ==
  /\ AbortFindsRequest
  /\ /\ running /\ linkUp /\ ~error
     /\ peer.state = "busy"
     /\ request = NoPacket
     /\ response.code \notin FinalCodes
     => handler # NoHandler

LEMMA CurrentFlag == Current.definitely = handler.definitely
<1>1. NewHandler(request.type).definitely = FALSE /\ NoHandler.definitely = FALSE
  BY DEF NoHandler, NewHandler
<1>2. CASE handler = NoHandler
  BY <1>1, <1>2 DEF Current
<1>3. CASE handler # NoHandler
  BY <1>3 DEF Current
<1>4. QED
  BY <1>2, <1>3

LEMMA NoHandlerFlag == NoHandler.definitely = FALSE
  BY DEF NoHandler, NewHandler

LEMMA HandlerIsSome ==
  ASSUME NEW h \in Handler
  PROVE  h # NoHandler
  BY NoHandlerStream, OpsNames DEF Handler

LEMMA PacketNames == NoPacket.type = "none"
  BY DEF NoPacket

\* A response that is not a false success.
LEMMA RespondsPut ==
  ASSUME ServerInv, running, peer.state = "busy", response = NoResponse,
         NEW h \in Handler, NEW code \in Codes, NEW body, NEW err,
         Responds(h, code, body, err),
         code = "Continue" => (h.definitely => h.stream # 0),
         code = "Continue" /\ peer.op = "Put" =>
           (cut' \/ peer.given = taken') /\ (h.definitely \/ peer.given = 0),
         code = "Success" /\ peer.op = "Put" /\ peer.given > 0 =>
           (cut' \/ peer.given = taken') /\ h.stream = peer.req
  PROVE  PutOK'
<1>1. UNCHANGED <<running, peer>> /\ request' = NoPacket
  BY DEF Responds
<1>2. request'.type # "Put"
  BY <1>1, PacketNames
<1>3. peer.req \in Requests /\ TypeOK
  BY DEF ServerInv, PeerOK
<1>4. CASE /\ Sends(code, body)
           /\ code = "Continue"
           /\ handler' = h
  <2>1. response'.code = "Continue"
    BY <1>4 DEF Sends
  <2>2. NoFalseSuccess'
    BY <2>1 DEF NoFalseSuccess, PutSucceeds
  <2>3. handler'.definitely => handler'.stream # 0
    BY <1>4
  <2>4. QED
    BY <1>1, <1>2, <1>4, <2>1, <2>2, <2>3 DEF PutOK
<1>5. CASE /\ Sends(code, body)
           /\ code # "Continue"
           /\ handler' = NoHandler
           /\ fate' = FateOf(h, "back")
  <2>1. response'.code = code
    BY <1>5 DEF Sends
  <2>2. ASSUME PutSucceeds'
        PROVE  (taken' = peer'.given \/ cut') /\ fate'[peer'.req] = "back"
    <3>1. code = "Success" /\ peer.op = "Put" /\ peer.given > 0
      BY <1>1, <2>1, <2>2 DEF PutSucceeds
    <3>2. (cut' \/ peer.given = taken') /\ h.stream = peer.req
      BY <3>1
    <3>3. fate'[peer.req] = "back"
      BY <1>3, <1>5, <3>2, RequestsAssumption DEF FateOf, TypeOK, Requests
    <3>4. QED
      BY <1>1, <3>2, <3>3
  <2>3. QED
    BY <1>1, <1>2, <1>5, <2>1, <2>2, NoHandlerFlag DEF PutOK, NoFalseSuccess
<1>6. CASE UNCHANGED response /\ handler' = NoHandler
  <2>1. response'.code \notin Codes
    BY <1>6, NoResponseCode
  <2>2. QED
    BY <1>1, <1>2, <1>6, <2>1, NoHandlerFlag
       DEF PutOK, NoFalseSuccess, PutSucceeds, Codes, FinalCodes
<1>7. QED
  BY <1>4, <1>5, <1>6 DEF Responds, CannotSend

LEMMA RejectsPut ==
  ASSUME ServerInv, response = NoResponse, NEW h, NEW code \in {"InternalError", "BadRequest"},
         Rejects(h, code)
  PROVE  PutOK'
<1>1. request'.type # "Put"
  BY PacketNames DEF Rejects
<1>2. handler' = NoHandler
  BY DEF Rejects
<1>3. response'.code \in {code, NoResponse.code}
  BY DEF Rejects, Sends, CannotSend
<1>4. response'.code \notin {"Success", "Continue"}
  BY <1>3, NoResponseCode DEF Codes, FinalCodes
<1>5. QED
  BY <1>1, <1>2, <1>4, NoHandlerFlag DEF PutOK, NoFalseSuccess, PutSucceeds

LEMMA RespondsAbort ==
  ASSUME TypeOK, NEW h \in Handler, NEW code \in Codes, NEW body,
         NEW err, Responds(h, code, body, err)
  PROVE  AbortOK'
<1>1. request'.type # "Abort"
  BY PacketNames DEF Responds
<1>2. CASE handler' = h
  BY <1>1, <1>2, HandlerIsSome DEF AbortOK, AbortFindsRequest
<1>3. CASE Sends(code, body) /\ code # "Continue"
  <2>1. response'.code \in FinalCodes
    BY <1>3 DEF Sends, Codes
  <2>2. QED
    BY <1>1, <2>1 DEF AbortOK, AbortFindsRequest
<1>4. CASE error' = TRUE
  BY <1>1, <1>4 DEF AbortOK, AbortFindsRequest
<1>5. QED
  BY <1>2, <1>3, <1>4 DEF Responds

LEMMA RejectsAbort ==
  ASSUME NEW h, NEW code, Rejects(h, code)
  PROVE  AbortOK'
<1>1. request'.type # "Abort" /\ error' = TRUE
  BY PacketNames DEF Rejects
<1>2. QED
  BY <1>1 DEF AbortOK, AbortFindsRequest

LEMMA WritesBodyKeeps ==
  ASSUME ServerInv, running, peer.state = "busy", peer.op = "Put", response = NoResponse,
         NEW h \in Handler, h.definitely = TRUE, h.stream = peer.req,
         cut \/ peer.given = taken + Bodies(request), WritesBody(h)
  PROVE  PutOK' /\ AbortOK'
<1>1. peer.req # 0 /\ TypeOK
  BY RequestsAssumption DEF ServerInv, PeerOK, Requests
<1>2. taken \in Nat
  BY <1>1 DEF TypeOK
<1>3. CASE Responds(h, "InternalError", FALSE, TRUE)
  BY <1>1, <1>3, RespondsPut, RespondsAbort DEF Codes, FinalCodes
<1>4. CASE /\ \/ taken' = (IF request.body THEN taken + 1 ELSE taken) /\ UNCHANGED cut
              \/ request.body /\ cut' = TRUE /\ UNCHANGED taken
           /\ \E code \in {IF request.final THEN "Success" ELSE "Continue", "Refused"} :
                Responds(h, code, FALSE, FALSE)
  <2>1. PICK code \in Codes : Responds(h, code, FALSE, FALSE)
    BY <1>4 DEF Codes, FinalCodes
  <2>2. cut' \/ taken' = peer.given
    BY <1>2, <1>4 DEF Bodies
  <2>3. PutOK'
    BY <1>1, <2>1, <2>2, RespondsPut
  <2>4. QED
    BY <1>1, <2>1, <2>3, RespondsAbort
<1>5. QED
  BY <1>3, <1>4 DEF WritesBody

LEMMA PutKeeps ==
  ASSUME ServerInv, PutOK,
         HandlePutUndecided \/ HandlePutDelete \/ HandlePutNotImplemented
           \/ HandlePutDenied \/ HandlePutAccepted \/ HandlePutContinued
  PROVE  PutOK' /\ AbortOK'
<1>1. Arrives("Put") /\ TypeOK /\ PeerOK
  BY DEF HandlePutUndecided, HandlePutDelete, HandlePutNotImplemented,
         HandlePutDenied, HandlePutAccepted, HandlePutContinued, ServerInv
<1>2. /\ Current \in Handler
      /\ request.req \in Requests
      /\ request.type = "Put"
      /\ running
  BY <1>1, ArrivesType, OpsNames
<1>3. /\ Fits(Current)
      /\ request.req = peer.req
      /\ peer.state = "busy"
      /\ peer.op = "Put"
      /\ response = NoResponse
  BY <1>1, <1>2, CurrentFits, OpsNames
<1>4. /\ cut \/ peer.given = taken + Bodies(request)
      /\ request.body \/ handler.definitely \/ peer.given = 0
  BY <1>2 DEF PutOK
<1>5. taken \in Nat /\ peer.given \in Nat
  BY <1>1, PacketsAssumption DEF TypeOK, Peer
<1>6. CASE HandlePutUndecided
  <2> DEFINE h == [Current EXCEPT !.previous = @ \cup {request.req}]
  <2>1. h \in Handler /\ h.definitely = Current.definitely
    <3>1. Current.previous \cup {request.req} \subseteq Requests
      BY <1>2 DEF Handler
    <3>2. QED
      BY <1>2, <3>1 DEF Handler
  <2>2. ~Current.definitely /\ ~request.body
    BY <1>6 DEF HandlePutUndecided, DefinitelyIsPut
  <2>3. peer.given = 0 /\ (cut \/ taken = 0)
    BY <1>4, <1>5, <2>2, CurrentFlag DEF Bodies
  <2>4. Responds(h, "Continue", FALSE, FALSE) /\ UNCHANGED <<taken, cut>>
    BY <1>6 DEF HandlePutUndecided
  <2>5. QED
    BY <1>1, <1>2, <1>3, <2>1, <2>2, <2>3, <2>4, RespondsPut, RespondsAbort DEF Codes
<1>7. CASE HandlePutDelete
  <2> DEFINE h == [Current EXCEPT !.previous = {}]
  <2>1. h \in Handler
    BY <1>2 DEF Handler
  <2>2. ~Current.definitely /\ ~request.body
    BY <1>7 DEF HandlePutDelete, DefinitelyIsPut
  <2>3. ~(peer.given > 0)
    <3>1. peer.given = 0
      BY <1>4, <2>2, CurrentFlag
    <3>2. QED
      BY <3>1
  <2>4. PICK g \in {Current, h}, code \in {"NotImplemented", "Success", "Forbidden", "Refused"} :
          Responds(g, code, FALSE, FALSE)
    BY <1>7 DEF HandlePutDelete
  <2>5. g \in Handler /\ code \in Codes /\ code # "Continue"
    BY <1>2, <2>1 DEF Codes, FinalCodes
  <2>6. PutOK'
    BY <1>2, <1>3, <2>3, <2>4, <2>5, RespondsPut
  <2>7. AbortOK'
    BY <1>1, <2>4, <2>5, RespondsAbort
  <2>8. QED
    BY <2>6, <2>7
<1>8. CASE HandlePutNotImplemented
  <2>1. PutHandler \in Handler
    BY <1>2, PutHandlerType
  <2>2. Responds(PutHandler, "NotImplemented", FALSE, FALSE)
    BY <1>8 DEF HandlePutNotImplemented
  <2>3. QED
    BY <1>1, <1>2, <1>3, <2>1, <2>2, RespondsPut, RespondsAbort DEF Codes, FinalCodes
<1>9. CASE HandlePutDenied
  <2>1. AskedHandler(0) \in Handler
    BY AskedHandlerType
  <2>2. PICK code \in {"Forbidden", "Refused", "InternalError"}, err \in BOOLEAN :
          Responds(AskedHandler(0), code, FALSE, err)
    BY <1>9 DEF HandlePutDenied
  <2>3. QED
    BY <1>1, <1>2, <1>3, <2>1, <2>2, RespondsPut, RespondsAbort DEF Codes, FinalCodes
<1>10. CASE HandlePutAccepted
  <2>1. AskedHandler(request.req) \in Handler
    BY <1>2, AskedHandlerType
  <2>2. /\ AskedHandler(request.req).definitely = TRUE
        /\ AskedHandler(request.req).stream = peer.req
    BY <1>3 DEF AskedHandler
  <2>3. QED
    BY <1>2, <1>3, <1>4, <1>10, <2>1, <2>2, WritesBodyKeeps DEF HandlePutAccepted
<1>11. CASE HandlePutContinued
  <2>1. /\ PutHandler \in Handler
        /\ PutHandler.stream = Current.stream
        /\ PutHandler.definitely = TRUE
    BY <1>2, PutHandlerType DEF Handler
  <2>2. Current.stream = peer.req
    BY <1>3, <1>11 DEF HandlePutContinued, Fits
  <2>3. QED
    BY <1>2, <1>3, <1>4, <1>11, <2>1, <2>2, WritesBodyKeeps DEF HandlePutContinued
<1>12. QED
  BY <1>6, <1>7, <1>8, <1>9, <1>10, <1>11

LEMMA ReadsChunkKeeps ==
  ASSUME ServerInv, running, peer.state = "busy", peer.op = "Get", response = NoResponse,
         NEW h \in Handler, h.stream # 0, NEW codes \in SUBSET Codes, ReadsChunk(h, codes)
  PROVE  PutOK' /\ (~SetsCodeLate => AbortOK')
<1>1. TypeOK
  BY DEF ServerInv
<1>2. CASE \E code \in Codes, body \in BOOLEAN, err \in BOOLEAN : Responds(h, code, body, err)
  BY <1>1, <1>2, RespondsPut, RespondsAbort
<1>3. CASE EndsLate(h)
  <2>1. SetsCodeLate /\ request' = NoPacket /\ handler' = NoHandler /\ UNCHANGED peer
    BY <1>3 DEF EndsLate
  <2>2. request'.type # "Put" /\ peer'.op # "Put"
    BY <2>1, PacketNames
  <2>3. QED
    BY <2>1, <2>2, NoHandlerFlag DEF PutOK, NoFalseSuccess, PutSucceeds
<1>4. CASE ReadRaises(h)
  <2>1. request'.type \notin {"Put", "Abort"}
    BY <1>4, PacketNames DEF ReadRaises
  <2>2. response'.code \notin {"Success", "Continue"}
    BY <1>4, NoResponseCode DEF ReadRaises, Codes, FinalCodes
  <2>3. handler' # NoHandler /\ handler'.stream # 0
    BY <1>4, HandlerIsSome DEF ReadRaises
  <2>4. QED
    BY <2>1, <2>2, <2>3 DEF PutOK, NoFalseSuccess, PutSucceeds, AbortOK, AbortFindsRequest
<1>5. CASE Responds(h, "InternalError", FALSE, TRUE)
  BY <1>2, <1>5 DEF Codes, FinalCodes
<1>6. QED
  BY <1>2, <1>3, <1>4, <1>5 DEF ReadsChunk

LEMMA GetKeeps ==
  ASSUME ServerInv, PutOK,
         HandleGetNotImplemented \/ HandleGetDenied \/ HandleGetAccepted
           \/ HandleGetContinued
  PROVE  PutOK' /\ (~SetsCodeLate => AbortOK')
<1>1. Arrives("Get") /\ TypeOK
  BY DEF HandleGetNotImplemented, HandleGetDenied, HandleGetAccepted,
         HandleGetContinued, ServerInv
<1>2. /\ Current \in Handler
      /\ request.req \in Requests
      /\ request.type = "Get"
      /\ running
  BY <1>1, ArrivesType, OpsNames
<1>3. /\ peer.state = "busy"
      /\ peer.op = "Get"
      /\ response = NoResponse
  BY <1>2, CurrentFits, OpsNames
<1>4. CASE HandleGetNotImplemented \/ HandleGetDenied
  <2>1. PICK code \in {"NotImplemented", "Forbidden", "Refused", "InternalError"},
             err \in BOOLEAN : Responds(Current, code, FALSE, err)
    BY <1>4 DEF HandleGetNotImplemented, HandleGetDenied
  <2>2. code \in Codes /\ code # "Continue"
    BY DEF Codes, FinalCodes
  <2>3. QED
    BY <1>1, <1>2, <1>3, <2>1, <2>2, RespondsPut, RespondsAbort
<1>5. CASE HandleGetAccepted
  <2> DEFINE h == [Current EXCEPT !.stream = request.req]
  <2>1. request.req \in 0..MaxRequests /\ request.req # 0
    BY <1>2, RequestsAssumption DEF Requests
  <2>2. h \in Handler /\ h.stream # 0
    BY <1>2, <2>1 DEF Handler
  <2>3. ReadsChunk(h, {"Continue", "Success"})
    BY <1>5 DEF HandleGetAccepted
  <2>4. QED
    BY <1>2, <1>3, <2>2, <2>3, ReadsChunkKeeps DEF Codes, FinalCodes
<1>6. CASE HandleGetContinued
  BY <1>2, <1>3, <1>6, ReadsChunkKeeps DEF HandleGetContinued, Codes, FinalCodes
<1>7. QED
  BY <1>4, <1>5, <1>6

LEMMA SingleKeeps ==
  ASSUME ServerInv, HandleSingle
  PROVE  PutOK' /\ AbortOK'
<1>1. PICK type \in SingleOps,
           code \in {"NotImplemented", "Success", "Forbidden", "Refused"} :
        Arrives(type) /\ Responds(Current, code, FALSE, FALSE)
  BY DEF HandleSingle
<1>2. type \in Ops /\ type # "Put" /\ TypeOK
  BY DEF Ops, SingleOps, ServerInv
<1>3. /\ Current \in Handler
      /\ request.type = type
      /\ running
  BY <1>1, <1>2, ArrivesType
<1>4. /\ peer.state = "busy"
      /\ peer.op # "Put"
      /\ response = NoResponse
  BY <1>2, <1>3, CurrentFits
<1>5. code \in Codes /\ code # "Continue"
  BY DEF Codes, FinalCodes
<1>6. PutOK'
  BY <1>1, <1>3, <1>4, <1>5, RespondsPut
<1>7. AbortOK'
  BY <1>1, <1>2, <1>3, <1>5, RespondsAbort
<1>8. QED
  BY <1>6, <1>7

LEMMA AbortKeeps ==
  ASSUME ServerInv, PutOK, HandleAbort \/ HandleIdleAbort
  PROVE  PutOK' /\ AbortOK'
<1>1. request.type = "Abort" /\ TypeOK /\ PeerOK
  BY DEF HandleAbort, HandleIdleAbort, ServerInv
<1>2. peer.state = "aborting" /\ response = NoResponse
  BY <1>1, NamedPacket, OpsNames DEF PeerOK, TypeOK, Peer
<1>3. peer'.state = "aborting" /\ request'.type \notin {"Put", "Abort"}
  BY <1>2, PacketNames DEF HandleAbort, HandleIdleAbort
<1>4. handler'.definitely => handler'.stream # 0
  <2>1. CASE HandleAbort
    <3>1. handler \in Handler
      BY <1>1, <2>1 DEF HandleAbort, TypeOK
    <3>2. CASE handler.type \in {"Put", "Get"}
      BY <2>1, <3>2 DEF HandleAbort, AfterAbort
    <3>3. CASE handler.type \notin {"Put", "Get"}
      BY <2>1, <3>3 DEF HandleAbort, AfterAbort, PutOK
    <3>4. QED
      BY <3>2, <3>3
  <2>2. CASE HandleIdleAbort
    BY <2>2 DEF HandleIdleAbort, PutOK
  <2>3. QED
    BY <2>1, <2>2
<1>5. QED
  BY <1>3, <1>4 DEF PutOK, NoFalseSuccess, PutSucceeds, AbortOK, AbortFindsRequest

LEMMA SessionEventKeeps ==
  ASSUME ServerInv, PutOK, HandleSessionEvent
  PROVE  PutOK' /\ (~SetsCodeLate => AbortOK')
<1>1. CASE HandleWrongType \/ HandleUnreadable
  <2>1. running /\ request.type \in Ops
    BY <1>1 DEF HandleWrongType, HandleUnreadable
  <2>2. response = NoResponse
    BY <2>1, CurrentFits
  <2>3. PICK code \in {"InternalError", "BadRequest"} : Rejects(Current, code)
    BY <1>1 DEF HandleWrongType, HandleUnreadable
  <2>4. QED
    BY <2>2, <2>3, RejectsPut, RejectsAbort
<1>2. QED
  BY <1>1, SingleKeeps, PutKeeps, GetKeeps, AbortKeeps DEF HandleSessionEvent

LEMMA ClientKeeps ==
  ASSUME ServerInv, PutOK, Client
  PROVE  PutOK' /\ (AbortOK => AbortOK')
<1> USE DEF PutOK, NoFalseSuccess, PutSucceeds, AbortOK, AbortFindsRequest
<1>1. NoResponse.code \notin {"Success", "Continue"}
  BY NoResponseCode DEF Codes, FinalCodes
<1>2. ASSUME NEW op \in Ops, NEW body \in BOOLEAN, NEW final \in BOOLEAN,
             NEW parses \in BOOLEAN, PeerStarts(op, body, final, parses)
      PROVE  PutOK' /\ (AbortOK => AbortOK')
  <2>1. /\ request'.type = op
        /\ Bodies(request') = IF body THEN 1 ELSE 0
        /\ request'.body = body
        /\ request' # NoPacket
        /\ response' = NoResponse
    BY <1>2, OpsNames DEF PeerStarts, SendsRequest, Bodies, NoPacket
  <2>2. /\ peer'.given = IF body THEN 1 ELSE 0
        /\ taken' = 0
        /\ UNCHANGED <<running, handler>>
    BY <1>2 DEF PeerStarts
  <2>3. PutOK'
    <3>1. peer'.given = taken' + Bodies(request')
      BY <2>1, <2>2
    <3>2. request'.body \/ peer'.given = 0
      BY <2>1, <2>2
    <3>3. QED
      BY <1>1, <2>1, <2>2, <3>1, <3>2
  <2>4. AbortOK'
    BY <2>1, OpsNames
  <2>5. QED
    BY <2>3, <2>4
<1>3. ASSUME NEW body \in BOOLEAN, NEW final \in BOOLEAN, PeerContinues(body, final)
      PROVE  PutOK' /\ (AbortOK => AbortOK')
  <2>1. /\ request'.type = peer.op
        /\ Bodies(request') = IF body THEN 1 ELSE 0
        /\ request'.body = body
        /\ response' = NoResponse
    BY <1>3 DEF PeerContinues, SendsRequest, Bodies
  <2>2. peer.op \in Ops /\ peer.given \in Nat
    BY <1>3, PacketsAssumption DEF PeerContinues, ServerInv, PeerOK, TypeOK, Peer
  <2>3. request' # NoPacket /\ request'.type # "Abort"
    BY <2>1, <2>2, OpsNames DEF NoPacket
  <2>4. /\ peer'.given = peer.given + Bodies(request')
        /\ UNCHANGED <<running, handler, taken, cut>>
    BY <1>3, <2>1, <2>2 DEF PeerContinues, history
  <2>5. ASSUME running', peer.op = "Put"
        PROVE  /\ cut' \/ peer'.given = taken' + Bodies(request')
               /\ request'.body \/ handler'.definitely \/ peer'.given = 0
    <3>1. /\ cut \/ peer.given = taken
          /\ handler.definitely \/ peer.given = 0
      BY <1>3, <2>4, <2>5 DEF PeerContinues
    <3>2. cut' \/ peer'.given = taken' + Bodies(request')
      BY <2>4, <3>1
    <3>3. request'.body \/ peer'.given = peer.given
      BY <2>1, <2>2, <2>4
    <3>4. QED
      BY <2>4, <3>1, <3>2, <3>3
  <2>6. PutOK'
    BY <1>1, <2>1, <2>4, <2>5
  <2>7. QED
    BY <2>3, <2>6
<1>4. CASE PeerAborts
  <2>1. request'.type = "Abort" /\ request' # NoPacket /\ response' = NoResponse
    BY <1>4 DEF PeerAborts, SendsRequest, NoPacket
  <2>2. UNCHANGED <<running, handler, error>>
    BY <1>4 DEF PeerAborts
  <2>3. PutOK'
    BY <1>1, <2>1, <2>2
  <2>4. ASSUME AbortOK, running', ~error' PROVE handler' # NoHandler
    <3>1. linkUp /\ peer.state = "busy"
      BY <1>4 DEF PeerAborts, SendsRequest
    <3>2. request = NoPacket
      BY <1>4, NoResponseCode DEF PeerAborts, ServerInv, PeerOK, Codes
    <3>3. response.code \notin FinalCodes
      BY <1>4, NoResponseCode DEF PeerAborts, Codes, FinalCodes
    <3>4. QED
      BY <2>2, <2>4, <3>1, <3>2, <3>3
  <2>5. QED
    BY <2>1, <2>3, <2>4
<1>5. CASE PeerEnds
  <2>1. response' = NoResponse /\ peer'.state = "idle"
    BY <1>5 DEF PeerEnds, ServerInv, TypeOK, Peer
  <2>2. request = NoPacket
    BY <1>5, NoResponseCode DEF PeerEnds, ServerInv, PeerOK, Codes
  <2>3. request'.type \notin {"Put", "Abort"} /\ UNCHANGED handler
    BY <1>5, <2>2, PacketNames DEF PeerEnds
  <2>4. QED
    BY <1>1, <2>1, <2>3
<1>6. CASE PeerStalls
  <2>1. /\ response' = NoResponse
        /\ UNCHANGED <<linkUp, request, running, handler, peer, taken, cut, fate, error>>
    BY <1>6 DEF PeerStalls, history
  <2>2. response.code \notin FinalCodes
    BY <1>6 DEF PeerStalls, FinalCodes
  <2>3. QED
    BY <1>1, <2>1, <2>2 DEF Bodies
<1>7. QED
  BY <1>2, <1>3, <1>4, <1>5, <1>6 DEF Client

LEMMA KeepsStep ==
  ASSUME ServerInv, PutOK, [Next]_vars
  PROVE  PutOK' /\ (AbortOK /\ ~SetsCodeLate => AbortOK')
<1>1. CASE HandleSessionEvent
  BY <1>1, SessionEventKeeps
<1>2. CASE HandleError
  <2>1. error' = TRUE /\ UNCHANGED <<link, running, handler, peer, taken, cut, fate>>
    BY <1>2 DEF HandleError
  <2>2. AbortOK'
    BY <2>1 DEF AbortOK, AbortFindsRequest
  <2>3. PutOK'
    BY <2>1 DEF PutOK, NoFalseSuccess, PutSucceeds, link, Bodies
  <2>4. QED
    BY <2>2, <2>3
<1>3. CASE Close \/ ChannelClosed
  <2>1. /\ ~running'
        /\ handler' = NoHandler
        /\ UNCHANGED <<link, peer, taken, cut, fate>>
    BY <1>3 DEF Close, ChannelClosed, Closes
  <2>2. QED
    BY <2>1, NoHandlerFlag
       DEF PutOK, NoFalseSuccess, PutSucceeds, AbortOK, AbortFindsRequest, link
<1>4. CASE Client
  BY <1>4, ClientKeeps
<1>5. CASE LinkBreaks
  <2>1. /\ ~linkUp' /\ request' = NoPacket /\ response' = NoResponse
        /\ UNCHANGED handler
    BY <1>5 DEF LinkBreaks, LinkDies
  <2>2. request'.type \notin {"Put", "Abort"}
    BY <2>1, PacketNames
  <2>3. response'.code \notin {"Success", "Continue"}
    BY <2>1, NoResponseCode DEF Codes, FinalCodes
  <2>4. QED
    BY <2>1, <2>2, <2>3 DEF PutOK, NoFalseSuccess, PutSucceeds, AbortOK, AbortFindsRequest
<1>6. CASE UNCHANGED vars
  BY <1>6 DEF vars, link, history, PutOK, NoFalseSuccess, PutSucceeds, AbortOK,
              AbortFindsRequest, Bodies
<1>7. QED
  BY <1>1, <1>2, <1>3, <1>4, <1>5, <1>6 DEF Next, Server

LEMMA KeepsInit == Init => PutOK /\ AbortOK
<1> SUFFICES ASSUME Init PROVE PutOK /\ AbortOK
  OBVIOUS
<1>1. handler.definitely = FALSE
  BY NoHandlerFlag DEF Init
<1>2. request.type \notin {"Put", "Abort"}
  BY PacketNames DEF Init, LinkInit
<1>3. response.code \notin {"Success", "Continue"}
  BY NoResponseCode DEF Init, LinkInit, Codes, FinalCodes
<1>4. peer.state = "idle"
  BY DEF Init
<1>5. QED
  BY <1>1, <1>2, <1>3, <1>4 DEF PutOK, NoFalseSuccess, PutSucceeds, AbortOK, AbortFindsRequest

LEMMA FullInvariant == Spec => []PutOK
<1>1. ServerInv /\ PutOK /\ [Next]_vars => PutOK'
  BY KeepsStep
<1>2. QED
  BY <1>1, KeepsInit, ServerInvariant, PTL DEF Spec

\* The client is told of success only for a Put whose every body packet is in the
\* delegate's stream, unless that took only a part of one and reported no error.
THEOREM SuccessIsTrue == Spec => []NoFalseSuccess
<1>1. PutOK => NoFalseSuccess
  BY DEF PutOK
<1>2. QED
  BY <1>1, FullInvariant, PTL

\* An Abort finds the request it aborts, if the delegate sets no response code
\* when it is told of data sent.
THEOREM AbortsFindTheirRequest ==
  ASSUME ~SetsCodeLate
  PROVE  Spec => []AbortFindsRequest
<1>1. ServerInv /\ PutOK /\ AbortOK /\ [Next]_vars => AbortOK'
  BY KeepsStep
<1>2. AbortOK => AbortFindsRequest
  BY DEF AbortOK
<1>3. QED
  BY <1>1, <1>2, KeepsInit, ServerInvariant, FullInvariant, PTL DEF Spec

-----------------------------------------------------------------------------
(***************************************************************************)
(* What the delegate sees.  Until a request was aborted, the handler is    *)
(* that of the request under way: a final response, an error or a close    *)
(* release it before the next request comes.                               *)
(***************************************************************************)

\* The handler was made for the client's present request.
OfRequest(h) == h.type = peer.op /\ h.previous \subseteq {peer.req}

SeesOK ==
  ~aborted => /\ peer.state # "aborting"
              /\ handler # NoHandler => /\ peer.state = "busy"
                                        /\ response.code \notin FinalCodes
                                        /\ OfRequest(handler)
              /\ DelegateSeesRequest

\* The handler a request event goes to is one of the present request.
LEMMA CurrentOfRequest ==
  ASSUME ServerInv, SeesOK, ~aborted, running, request.type \in Ops
  PROVE  /\ OfRequest(Current)
         /\ TypeFits
         /\ Current \in Handler
         /\ request.req = peer.req
         /\ peer.state = "busy"
         /\ response = NoResponse
<1>1. /\ request.req = peer.req
      /\ peer.state = "busy"
      /\ peer.op = request.type
      /\ response = NoResponse
  BY CurrentFits
<1>2. OfRequest(NewHandler(request.type))
  BY <1>1 DEF OfRequest, NewHandler
<1>3. OfRequest(Current)
  BY <1>2 DEF Current, SeesOK
<1>4. Current \in Handler
  BY CurrentType DEF ServerInv
<1>5. QED
  BY <1>1, <1>3, <1>4 DEF OfRequest, TypeFits

\* What the delegate is told has ended is the kind of its request.
LEMMA KindOfRequest ==
  ASSUME NEW h, OfRequest(h)
  PROVE  KindOf(h) \in {peer.op, IF peer.op = "Put" THEN "PutDelete" ELSE "none"}
  BY DEF OfRequest, KindOf

\* A step after which no handler is left.
LEMMA ReleasedSees ==
  ASSUME peer.state # "aborting", handler' = NoHandler, UNCHANGED peer,
         headers' \subseteq {peer.req},
         notice' \in {"none", peer.op, IF peer.op = "Put" THEN "PutDelete" ELSE "none"}
  PROVE  SeesOK'
  BY DEF SeesOK, DelegateSeesRequest

\* A step after which the handler h goes on.
LEMMA KeptSees ==
  ASSUME peer.state = "busy", NEW h, OfRequest(h), handler' = h, UNCHANGED <<peer, notice>>,
         response'.code \notin FinalCodes, headers' \subseteq {peer.req},
         ~aborted, SeesOK
  PROVE  SeesOK'
<1>1. OfRequest(handler)'
  BY DEF OfRequest
<1>2. DelegateSeesRequest'
  BY DEF SeesOK, DelegateSeesRequest
<1>3. QED
  BY <1>1, <1>2 DEF SeesOK

LEMMA RespondsSees ==
  ASSUME peer.state = "busy", NEW h, OfRequest(h), NEW code, NEW body, NEW err,
         Responds(h, code, body, err), headers' \subseteq {peer.req},
         ~aborted, SeesOK
  PROVE  SeesOK'
<1>1. UNCHANGED peer
  BY DEF Responds
<1>2. CASE Sends(code, body) /\ code = "Continue" /\ handler' = h /\ UNCHANGED notice
  <2>1. response'.code \notin FinalCodes
    BY <1>2 DEF Sends, FinalCodes
  <2>2. QED
    BY <1>1, <1>2, <2>1, KeptSees
<1>3. CASE handler' = NoHandler /\ (notice' = KindOf(h) \/ UNCHANGED notice)
  <2>1. notice' \in {"none", peer.op, IF peer.op = "Put" THEN "PutDelete" ELSE "none"}
    BY <1>3, KindOfRequest DEF SeesOK, DelegateSeesRequest
  <2>2. QED
    BY <1>1, <1>3, <2>1, ReleasedSees
<1>4. QED
  BY <1>2, <1>3 DEF Responds

LEMMA RejectsSees ==
  ASSUME peer.state = "busy", NEW h, OfRequest(h), NEW code, Rejects(h, code),
         ~aborted, SeesOK
  PROVE  SeesOK'
<1>1. headers' \subseteq {peer.req}
  BY DEF Rejects, SeesOK, DelegateSeesRequest
<1>2. notice' \in {"none", peer.op, IF peer.op = "Put" THEN "PutDelete" ELSE "none"}
  BY KindOfRequest DEF Rejects
<1>3. QED
  BY <1>1, <1>2, ReleasedSees DEF Rejects

LEMMA ReadsChunkSees ==
  ASSUME peer.state = "busy", response = NoResponse, NEW h, OfRequest(h), NEW codes,
         ReadsChunk(h, codes), headers' \subseteq {peer.req}, ~aborted, SeesOK
  PROVE  SeesOK'
<1>1. CASE (\E code \in codes : Responds(h, code, TRUE, FALSE))
             \/ Responds(h, "InternalError", FALSE, TRUE)
  BY <1>1, RespondsSees
<1>2. CASE EndsLate(h)
  <2>1. notice' \in {"none", peer.op, IF peer.op = "Put" THEN "PutDelete" ELSE "none"}
    BY <1>2, KindOfRequest DEF EndsLate
  <2>2. QED
    BY <1>2, <2>1, ReleasedSees DEF EndsLate
<1>3. CASE ReadRaises(h)
  <2>1. response'.code \notin FinalCodes
    BY <1>3, NoResponseCode DEF ReadRaises, Codes
  <2>2. QED
    BY <1>3, <2>1, KeptSees DEF ReadRaises
<1>4. QED
  BY <1>1, <1>2, <1>3 DEF ReadsChunk

LEMMA PutSees ==
  ASSUME ServerInv, SeesOK, ~aborted,
         HandlePutUndecided \/ HandlePutDelete \/ HandlePutNotImplemented
           \/ HandlePutDenied \/ HandlePutAccepted \/ HandlePutContinued
  PROVE  SeesOK'
<1>1. Arrives("Put") /\ TypeOK
  BY DEF HandlePutUndecided, HandlePutDelete, HandlePutNotImplemented,
         HandlePutDenied, HandlePutAccepted, HandlePutContinued, ServerInv
<1>2. request.type = "Put" /\ running
  BY <1>1 DEF Arrives
<1>3. /\ OfRequest(Current)
      /\ Current \in Handler
      /\ request.req = peer.req
      /\ peer.state = "busy"
  BY <1>2, CurrentOfRequest, OpsNames
<1>4. headers \subseteq {peer.req}
  BY DEF SeesOK, DelegateSeesRequest
<1>5. Current.previous \cup {request.req} \subseteq {peer.req}
  BY <1>3 DEF OfRequest
<1>6. /\ OfRequest(PutHandler)
      /\ \A stream : OfRequest(AskedHandler(stream))
  <2>1. peer.op = "Put"
    BY <1>1, <1>3 DEF OfRequest, Arrives, TypeFits
  <2>2. PutHandler.type = Current.type /\ PutHandler.previous = Current.previous
    BY <1>3, PutHandlerType
  <2>3. QED
    BY <1>3, <2>1, <2>2 DEF OfRequest, AskedHandler
<1>7. CASE HandlePutUndecided
  <2> DEFINE h == [Current EXCEPT !.previous = @ \cup {request.req}]
  <2>1. OfRequest(h)
    BY <1>3, <1>5 DEF OfRequest, Handler
  <2>2. Responds(h, "Continue", FALSE, FALSE) /\ UNCHANGED headers
    BY <1>7 DEF HandlePutUndecided
  <2>3. QED
    BY <1>3, <1>4, <2>1, <2>2, RespondsSees
<1>8. CASE HandlePutDelete
  <2> DEFINE h == [Current EXCEPT !.previous = {}]
  <2>1. OfRequest(h)
    BY <1>3 DEF OfRequest, Handler
  <2>2. PICK g \in {Current, h}, code \in {"NotImplemented", "Success", "Forbidden", "Refused"} :
          Responds(g, code, FALSE, FALSE)
    BY <1>8 DEF HandlePutDelete
  <2>3. headers' \subseteq {peer.req}
    BY <1>4, <1>5, <1>8 DEF HandlePutDelete
  <2>4. QED
    BY <1>3, <2>1, <2>2, <2>3, RespondsSees
<1>9. CASE HandlePutNotImplemented
  BY <1>3, <1>4, <1>6, <1>9, RespondsSees DEF HandlePutNotImplemented
<1>10. CASE HandlePutDenied
  BY <1>3, <1>5, <1>6, <1>10, RespondsSees DEF HandlePutDenied
<1>11. CASE HandlePutAccepted
  BY <1>3, <1>5, <1>6, <1>11, RespondsSees DEF HandlePutAccepted, WritesBody
<1>12. CASE HandlePutContinued
  BY <1>3, <1>4, <1>6, <1>12, RespondsSees DEF HandlePutContinued, WritesBody
<1>13. QED
  BY <1>7, <1>8, <1>9, <1>10, <1>11, <1>12

LEMMA GetSees ==
  ASSUME ServerInv, SeesOK, ~aborted,
         HandleGetNotImplemented \/ HandleGetDenied \/ HandleGetAccepted
           \/ HandleGetContinued
  PROVE  SeesOK'
<1>1. request.type = "Get" /\ running
  BY DEF HandleGetNotImplemented, HandleGetDenied, HandleGetAccepted,
         HandleGetContinued, Arrives
<1>2. /\ OfRequest(Current)
      /\ Current \in Handler
      /\ request.req = peer.req
      /\ peer.state = "busy"
      /\ response = NoResponse
  BY <1>1, CurrentOfRequest, OpsNames
<1>3. headers \subseteq {peer.req}
  BY DEF SeesOK, DelegateSeesRequest
<1>4. CASE HandleGetNotImplemented
  BY <1>2, <1>3, <1>4, RespondsSees DEF HandleGetNotImplemented
<1>5. CASE HandleGetDenied
  BY <1>2, <1>5, RespondsSees DEF HandleGetDenied
<1>6. CASE HandleGetAccepted
  <2> DEFINE h == [Current EXCEPT !.stream = request.req]
  <2>1. OfRequest(h)
    BY <1>2 DEF OfRequest, Handler
  <2>2. ReadsChunk(h, {"Continue", "Success"}) /\ headers' = {request.req}
    BY <1>6 DEF HandleGetAccepted
  <2>3. QED
    BY <1>2, <2>1, <2>2, ReadsChunkSees
<1>7. CASE HandleGetContinued
  BY <1>2, <1>3, <1>7, ReadsChunkSees DEF HandleGetContinued
<1>8. QED
  BY <1>4, <1>5, <1>6, <1>7

LEMMA SessionEventSees ==
  ASSUME ServerInv, SeesOK, HandleSessionEvent
  PROVE  SeesOK'
<1>1. SUFFICES ASSUME ~aborted PROVE SeesOK'
  BY SessionEventTakes DEF SeesOK
<1>2. request # NoPacket /\ request.type # "Abort"
  <2>1. request # NoPacket
    BY SessionEventTakes
  <2>2. QED
    BY <1>1, <2>1, OpsNames DEF SeesOK, ServerInv, PeerOK
<1>3. CASE HandleWrongType
  BY <1>1, <1>3, CurrentOfRequest DEF HandleWrongType
<1>4. CASE HandleUnreadable
  BY <1>1, <1>4, CurrentOfRequest, RejectsSees DEF HandleUnreadable
<1>5. CASE HandleSingle
  <2>1. PICK type \in SingleOps,
             code \in {"NotImplemented", "Success", "Forbidden", "Refused"} :
          /\ Arrives(type)
          /\ headers' = IF code = "NotImplemented" THEN headers ELSE {request.req}
          /\ Responds(Current, code, FALSE, FALSE)
    BY <1>5 DEF HandleSingle
  <2>2. request.type \in Ops /\ running
    BY <2>1 DEF Arrives, Ops
  <2>3. OfRequest(Current) /\ request.req = peer.req /\ peer.state = "busy"
    BY <1>1, <2>2, CurrentOfRequest
  <2>4. headers' \subseteq {peer.req}
    BY <1>1, <2>1, <2>3 DEF SeesOK, DelegateSeesRequest
  <2>5. QED
    BY <1>1, <2>1, <2>3, <2>4, RespondsSees
<1>6. CASE HandleAbort \/ HandleIdleAbort
  BY <1>2, <1>6 DEF HandleAbort, HandleIdleAbort
<1>7. QED
  BY <1>1, <1>3, <1>4, <1>5, <1>6, PutSees, GetSees DEF HandleSessionEvent

LEMMA ClientSees ==
  ASSUME ServerInv, SeesOK, Client
  PROVE  SeesOK'
<1>1. CASE PeerAborts
  BY <1>1 DEF PeerAborts, SeesOK
<1>2. SUFFICES ASSUME ~aborted, ~PeerAborts PROVE SeesOK'
  <2>1. ~PeerAborts => UNCHANGED aborted
    BY DEF Client, PeerStarts, PeerContinues, PeerStalls, PeerEnds, history
  <2>2. QED
    BY <1>1, <2>1 DEF SeesOK
<1>3. ASSUME NEW op \in Ops, NEW body \in BOOLEAN, NEW final \in BOOLEAN,
             NEW parses \in BOOLEAN, PeerStarts(op, body, final, parses)
      PROVE  SeesOK'
  <2>1. handler' = NoHandler
    BY <1>2, <1>3 DEF PeerStarts, SeesOK
  <2>2. peer'.state = "busy" /\ headers' = {} /\ notice' = "none"
    BY <1>3 DEF PeerStarts
  <2>3. QED
    BY <2>1, <2>2 DEF SeesOK, DelegateSeesRequest
<1>4. ASSUME NEW body \in BOOLEAN, NEW final \in BOOLEAN, PeerContinues(body, final)
      PROVE  SeesOK'
  <2>1. /\ peer'.state = "busy" /\ peer'.op = peer.op /\ peer'.req = peer.req
        /\ response' = NoResponse
        /\ UNCHANGED <<handler, headers, notice>>
    BY <1>4 DEF PeerContinues, SendsRequest, history
  <2>2. response'.code \notin FinalCodes
    BY <2>1, NoResponseCode DEF Codes
  <2>3. QED
    BY <1>2, <2>1, <2>2 DEF SeesOK, DelegateSeesRequest, OfRequest
<1>5. CASE PeerStalls
  <2>1. response' = NoResponse /\ UNCHANGED <<handler, peer, headers, notice>>
    BY <1>5 DEF PeerStalls, history
  <2>2. response'.code \notin FinalCodes
    BY <2>1, NoResponseCode DEF Codes
  <2>3. QED
    BY <1>2, <2>1, <2>2 DEF SeesOK, DelegateSeesRequest, OfRequest
<1>6. CASE PeerEnds
  <2>1. handler = NoHandler
    BY <1>2, <1>6 DEF PeerEnds, SeesOK
  <2>2. peer'.state = "idle" /\ peer'.op = peer.op /\ peer'.req = peer.req
    BY <1>6 DEF PeerEnds, ServerInv, TypeOK, Peer
  <2>3. UNCHANGED <<handler, headers, notice>>
    BY <1>6 DEF PeerEnds, history
  <2>4. QED
    BY <1>2, <2>1, <2>2, <2>3 DEF SeesOK, DelegateSeesRequest
<1>7. QED
  BY <1>2, <1>3, <1>4, <1>5, <1>6 DEF Client

LEMMA SeesStep ==
  ASSUME ServerInv, SeesOK, [Next]_vars
  PROVE  SeesOK'
<1>1. CASE HandleSessionEvent
  BY <1>1, SessionEventSees
<1>2. CASE HandleError
  <2>1. UNCHANGED <<response, handler, peer, headers, notice, aborted>>
    BY <1>2 DEF HandleError, link
  <2>2. QED
    BY <2>1 DEF SeesOK, DelegateSeesRequest, OfRequest
<1>3. CASE Close \/ ChannelClosed
  <2>1. handler' = NoHandler /\ UNCHANGED <<peer, headers, notice, aborted>>
    BY <1>3 DEF Close, ChannelClosed, Closes
  <2>2. QED
    BY <2>1 DEF SeesOK, DelegateSeesRequest
<1>4. CASE Client
  BY <1>4, ClientSees
<1>5. CASE LinkBreaks
  <2>1. response' = NoResponse /\ UNCHANGED <<handler, peer, headers, notice, aborted>>
    BY <1>5 DEF LinkBreaks, LinkDies, history
  <2>2. response'.code \notin FinalCodes
    BY <2>1, NoResponseCode DEF Codes
  <2>3. QED
    BY <2>1, <2>2 DEF SeesOK, DelegateSeesRequest, OfRequest
<1>6. CASE UNCHANGED vars
  BY <1>6 DEF vars, link, history, SeesOK, DelegateSeesRequest, OfRequest
<1>7. QED
  BY <1>1, <1>2, <1>3, <1>4, <1>5, <1>6 DEF Next, Server

LEMMA SeesInit == Init => SeesOK
  BY DEF Init, SeesOK, DelegateSeesRequest

\* Until a request was aborted, the delegate is asked about the headers of the
\* present request only and told the end of a request of its type.
THEOREM DelegateSeesItsRequest == Spec => []DelegateSeesRequest
<1>1. SeesOK => DelegateSeesRequest
  BY DEF SeesOK, DelegateSeesRequest
<1>2. ServerInv /\ SeesOK /\ [Next]_vars => SeesOK'
  BY SeesStep
<1>3. QED
  BY <1>1, <1>2, SeesInit, ServerInvariant, PTL DEF Spec

-----------------------------------------------------------------------------
(***************************************************************************)
(* What the server says to its client.                                     *)
(***************************************************************************)

\* The codes an OBEX client expects in answer to its packet p: no success of a
\* Put before its last packet, and Continue only where the request can go on.
Expected(p) ==
  {c \in Codes : /\ c = "Continue" => p.type = "Get" \/ (p.type = "Put" /\ ~p.final)
                 /\ c = "Success" => ~(p.type = "Put" /\ ~p.final)}

\* What becomes of the session when the server has taken a packet.
TakesPacket ==
  \/ /\ linkUp /\ UNCHANGED linkUp
     /\ \E code \in Expected(request), body \in BOOLEAN :
          /\ body => request.type = "Get"
          /\ response' = [code |-> code, body |-> body]
  \/ linkUp' = FALSE /\ UNCHANGED response
  \/ UNCHANGED <<linkUp, response>>

LEMMA SendsTakes ==
  ASSUME NEW code \in Expected(request), NEW body \in BOOLEAN,
         body => request.type = "Get",
         Sends(code, body) \/ CannotSend \/ UNCHANGED <<linkUp, response>>
  PROVE  TakesPacket
  BY DEF Sends, CannotSend, TakesPacket

LEMMA RespondsTakes ==
  ASSUME NEW h, NEW code \in Expected(request), NEW body \in BOOLEAN,
         body => request.type = "Get", NEW err, Responds(h, code, body, err)
  PROVE  TakesPacket
<1>1. Sends(code, body) \/ CannotSend \/ UNCHANGED <<linkUp, response>>
  BY DEF Responds
<1>2. QED
  BY <1>1, SendsTakes

\* Codes that any packet may be answered with, and those that depend on it.
LEMMA ExpectedCodes ==
  /\ \A code \in {"NotImplemented", "Forbidden", "Refused", "BadRequest", "InternalError"} :
       code \in Expected(request)
  /\ request.type # "Put" \/ request.final => "Success" \in Expected(request)
  /\ request.type = "Put" /\ ~request.final => "Continue" \in Expected(request)
  /\ request.type = "Get" => "Continue" \in Expected(request)
  BY DEF Expected, Codes, FinalCodes

LEMMA PutTakes ==
  ASSUME HandlePutUndecided \/ HandlePutDelete \/ HandlePutNotImplemented
           \/ HandlePutDenied \/ HandlePutAccepted \/ HandlePutContinued
  PROVE  TakesPacket
<1>1. request.type = "Put"
  BY DEF HandlePutUndecided, HandlePutDelete, HandlePutNotImplemented,
         HandlePutDenied, HandlePutAccepted, HandlePutContinued, Arrives
<1>2. ASSUME NEW h, NEW code, NEW err, Responds(h, code, FALSE, err),
             code \in Expected(request)
      PROVE  TakesPacket
  BY <1>2, RespondsTakes
<1>3. CASE HandlePutUndecided
  BY <1>1, <1>2, <1>3, ExpectedCodes DEF HandlePutUndecided
<1>4. CASE HandlePutDelete
  <2> DEFINE h == [Current EXCEPT !.previous = {}]
  <2>1. PICK g \in {Current, h}, code \in {"NotImplemented", "Success", "Forbidden", "Refused"} :
          Responds(g, code, FALSE, FALSE)
    BY <1>4 DEF HandlePutDelete
  <2>2. code \in Expected(request)
    BY <1>4, ExpectedCodes DEF HandlePutDelete
  <2>3. QED
    BY <1>2, <2>1, <2>2
<1>5. CASE HandlePutNotImplemented \/ HandlePutDenied
  <2>1. PICK g \in {PutHandler, AskedHandler(0)}, err \in BOOLEAN,
             code \in {"NotImplemented", "Forbidden", "Refused", "InternalError"} :
          Responds(g, code, FALSE, err)
    BY <1>5 DEF HandlePutNotImplemented, HandlePutDenied
  <2>2. QED
    BY <1>2, <2>1, ExpectedCodes
<1>6. CASE HandlePutAccepted \/ HandlePutContinued
  <2>1. PICK h : WritesBody(h)
    BY <1>6 DEF HandlePutAccepted, HandlePutContinued
  <2>2. CASE Responds(h, "InternalError", FALSE, TRUE)
    BY <1>2, <2>2, ExpectedCodes
  <2>3. CASE \E code \in {IF request.final THEN "Success" ELSE "Continue", "Refused"} :
               Responds(h, code, FALSE, FALSE)
    BY <1>1, <1>2, <2>3, ExpectedCodes
  <2>4. QED
    BY <2>1, <2>2, <2>3 DEF WritesBody
<1>7. QED
  BY <1>3, <1>4, <1>5, <1>6

LEMMA GetTakes ==
  ASSUME HandleGetNotImplemented \/ HandleGetDenied \/ HandleGetAccepted
           \/ HandleGetContinued
  PROVE  TakesPacket
<1>1. request.type = "Get"
  BY DEF HandleGetNotImplemented, HandleGetDenied, HandleGetAccepted,
         HandleGetContinued, Arrives
<1>2. ASSUME NEW h, NEW code, NEW body \in BOOLEAN, NEW err, Responds(h, code, body, err),
             code \in Expected(request)
      PROVE  TakesPacket
  BY <1>1, <1>2, RespondsTakes
<1>3. CASE HandleGetNotImplemented \/ HandleGetDenied
  <2>1. PICK code \in {"NotImplemented", "Forbidden", "Refused", "InternalError"},
             err \in BOOLEAN : Responds(Current, code, FALSE, err)
    BY <1>3 DEF HandleGetNotImplemented, HandleGetDenied
  <2>2. QED
    BY <1>2, <2>1, ExpectedCodes
<1>4. CASE HandleGetAccepted \/ HandleGetContinued
  <2>1. PICK h : ReadsChunk(h, {"Continue", "Success", "Refused"})
    BY <1>4 DEF HandleGetAccepted, HandleGetContinued, ReadsChunk
  <2>2. CASE \E code \in {"Continue", "Success", "Refused"} : Responds(h, code, TRUE, FALSE)
    BY <1>1, <1>2, <2>2, ExpectedCodes
  <2>3. CASE Responds(h, "InternalError", FALSE, TRUE)
    BY <1>1, <1>2, <2>3, ExpectedCodes
  <2>4. CASE EndsLate(h)
    BY <1>1, <2>4, ExpectedCodes, SendsTakes DEF EndsLate
  <2>5. CASE ReadRaises(h)
    BY <2>5 DEF ReadRaises, TakesPacket
  <2>6. QED
    BY <2>1, <2>2, <2>3, <2>4, <2>5 DEF ReadsChunk
<1>5. QED
  BY <1>3, <1>4

\* The server answers a packet at most once, with a code that is expected.
LEMMA SessionEventAnswers ==
  ASSUME HandleSessionEvent
  PROVE  request # NoPacket /\ request' = NoPacket /\ TakesPacket
<1>1. CASE HandleWrongType \/ HandleUnreadable
  <2>1. PICK code \in {"InternalError", "BadRequest"} : Rejects(Current, code)
    BY <1>1 DEF HandleWrongType, HandleUnreadable
  <2>2. QED
    BY <2>1, ExpectedCodes, SendsTakes, SessionEventTakes DEF Rejects
<1>2. CASE HandleSingle
  <2>1. PICK type \in SingleOps,
             code \in {"NotImplemented", "Success", "Forbidden", "Refused"} :
          Arrives(type) /\ Responds(Current, code, FALSE, FALSE)
    BY <1>2 DEF HandleSingle
  <2>2. request.type # "Put"
    BY <2>1 DEF Arrives, SingleOps
  <2>3. QED
    BY <2>1, <2>2, ExpectedCodes, RespondsTakes, SessionEventTakes
<1>3. CASE HandleAbort
  <2>1. request.type # "Put" /\ (Sends("Success", FALSE) \/ CannotSend)
    BY <1>3 DEF HandleAbort
  <2>2. QED
    BY <2>1, ExpectedCodes, SendsTakes, SessionEventTakes
<1>4. CASE HandleIdleAbort
  BY <1>4, SessionEventTakes DEF HandleIdleAbort, TakesPacket
<1>5. QED
  BY <1>1, <1>2, <1>3, <1>4, PutTakes, GetTakes, SessionEventTakes DEF HandleSessionEvent
=============================================================================

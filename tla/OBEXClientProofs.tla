-------------------------- MODULE OBEXClientProofs --------------------------
(***************************************************************************)
(* Proofs about OBEXClient, for every number of requests and packets and   *)
(* every delegate; and, at the end, about OBEXTransfer, in which it has an *)
(* OBEXServer at the other end of its session.                             *)
(***************************************************************************)
EXTENDS OBEXTransfer, TLAPS

-----------------------------------------------------------------------------
(***************************************************************************)
(* Type correctness, together with the numbering of the requests: a        *)
(* current request has a number, and nothing is known of a later one.      *)
(***************************************************************************)
NumbersOK == /\ current # "none" => last.req \in Requests
             /\ current # "none" => outcome[last.req] = "none"
             /\ \A r \in Requests : last.req < r => outcome[r] = "none"

ClientInv == TypeOK /\ NumbersOK

LEMMA LastType == ASSUME TypeOK PROVE last.req \in 0..MaxRequests /\ last.given \in 0..MaxPackets
  BY DEF TypeOK, Last

\* No operation is called as an Abort.
LEMMA OpsNames ==
  /\ "Abort" \notin Ops /\ "none" \notin Ops
  /\ Ops = {"Connect", "Disconnect", "SetPath", "Put", "Get"}
  BY DEF Ops, SingleOps

LEMMA NothingUnderWay == /\ NoPacket.type = "none"
                         /\ NoResponse.code = "none"
                         /\ NoResponse.body = FALSE
  BY DEF NoPacket, NoResponse

\* The last packet is the one that ends the stream, or its chunk was a short one.
ReadToEnd == last.final /\ last.more => last.short

\* The first packet of a request.
LEMMA BeginsEffect ==
  ASSUME TypeOK, NEW op \in Ops, NEW body \in BOOLEAN, NEW full \in BOOLEAN, NEW short \in BOOLEAN,
         Begins(op, body, full, short)
  PROVE  /\ LinkOK'
         /\ last' \in Last /\ last'.req = last.req + 1 /\ last'.req \in Requests
         /\ last'.op = op /\ ReadToEnd'
         /\ request'.type = op /\ request'.final = last'.final
         /\ response' = NoResponse
<1> DEFINE n == last.req + 1
           p == [type |-> op, req |-> n, body |-> body,
                 final |-> LastChunk(full), parses |-> TRUE]
           l == [op |-> op, req |-> n, final |-> LastChunk(full),
                 given |-> IF body THEN 1 ELSE 0, more |-> full \/ short, short |-> short]
<1>1. n \in Requests /\ n \in 0..MaxRequests
  BY LastType, RequestsAssumption DEF Begins, Requests
<1>2. LastChunk(full) \in BOOLEAN /\ LastChunk(full) = ~full
  BY DEF LastChunk
<1>3. (IF body THEN 1 ELSE 0) \in 0..MaxPackets
  BY ClientAssumption DEF Begins
<1>4. p \in Packet
  BY <1>1, <1>2 DEF Packet
<1>5. l \in Last
  BY <1>1, <1>2, <1>3 DEF Last
<1>6. request' = p /\ last' = l /\ response' = NoResponse /\ UNCHANGED linkUp
  BY DEF Begins, SendsRequest
<1>7. LinkOK'
  BY <1>4, <1>6 DEF LinkOK, TypeOK
<1>8. QED
  BY <1>1, <1>2, <1>5, <1>6, <1>7 DEF ReadToEnd

\* The end of a request, with what may follow it.
LEMMA EndsIdleEffect ==
  ASSUME TypeOK, NEW error, NEW code, EndsIdle(error, code)
  PROVE  /\ Ends(error, code)
         /\ LinkOK'
         /\ last' \in Last
         /\ \/ last' = last
            \/ /\ RequestsInCallbacks
               /\ last'.req = last.req + 1 /\ last'.req \in Requests
               /\ ReadToEnd'
         /\ request'.type # "Abort"
<1>1. CASE request' = NoPacket /\ response' = NoResponse /\ UNCHANGED <<linkUp, last>>
  BY <1>1, NothingUnderWay DEF EndsIdle, TypeOK, LinkOK
<1>2. CASE /\ RequestsInCallbacks
           /\ \E op \in Ops, body, full, short \in BOOLEAN : Begins(op, body, full, short)
  <2>1. PICK op \in Ops, body \in BOOLEAN, full \in BOOLEAN, short \in BOOLEAN :
          Begins(op, body, full, short)
    BY <1>2
  <2>2. QED
    BY <1>2, <2>1, BeginsEffect, OpsNames DEF EndsIdle
<1>3. QED
  BY <1>1, <1>2 DEF EndsIdle

LEMMA FailsToSendEffect ==
  ASSUME TypeOK, FailsToSend
  PROVE  /\ Ends(TRUE, "none")
         /\ LinkOK'
         /\ last' \in Last
         /\ \/ last' = last
            \/ /\ RequestsInCallbacks
               /\ last'.req = last.req + 1 /\ last'.req \in Requests
               /\ ReadToEnd'
         /\ request'.type # "Abort"
<1>1. CASE Ends(TRUE, "none") /\ LinkDies /\ UNCHANGED last
  BY <1>1, NothingUnderWay DEF LinkDies, TypeOK, LinkOK
<1>2. CASE EndsIdle(TRUE, "none")
  BY <1>2, EndsIdleEffect
<1>3. QED
  BY <1>1, <1>2 DEF FailsToSend

\* Ending the current request keeps the numbering: nothing else is told of.
LEMMA EndsKeeps ==
  ASSUME ClientInv, current # "none",
         NEW error \in BOOLEAN, NEW code \in FinalCodes \cup {"none"}, Ends(error, code),
         LinkOK', last' \in Last,
         last' = last \/ (last'.req = last.req + 1 /\ last'.req \in Requests),
         hasConnectionID' \in BOOLEAN, missed' \subseteq Requests
  PROVE  ClientInv'
<1>1. last.req \in Requests /\ last.req \in 0..MaxRequests /\ MaxRequests \in Nat
  BY LastType, RequestsAssumption DEF ClientInv, NumbersOK
<1>2. Told(error, code) \in Outcomes
  BY DEF Told, Outcomes
<1>3. /\ outcome' = [outcome EXCEPT ![last.req] = Told(error, code)]
      /\ current' = "none" /\ aborting' = FALSE
      /\ UNCHANGED <<alive, asked, raised, silent>>
  BY DEF Ends
<1>4. outcome' \in [Requests -> Outcomes]
  BY <1>2, <1>3 DEF ClientInv, TypeOK
<1>5. TypeOK'
  BY <1>3, <1>4 DEF ClientInv, TypeOK
<1>6. ASSUME NEW r \in Requests, last'.req < r PROVE outcome'[r] = "none"
  <2>1. last.req < r
    BY <1>1, <1>6 DEF Requests
  <2>2. outcome'[r] = outcome[r]
    BY <1>1, <1>3, <2>1 DEF ClientInv, TypeOK, Requests
  <2>3. QED
    BY <2>1, <2>2 DEF ClientInv, NumbersOK
<1>7. QED
  BY <1>3, <1>5, <1>6 DEF ClientInv, NumbersOK

LEMMA MissedType ==
  ASSUME ClientInv, current # "none", ReceivesData
  PROVE  missed' \subseteq Requests
  BY DEF ReceivesData, ClientInv, TypeOK, NumbersOK

LEMMA ConnectionIDType ==
  ASSUME TypeOK, NotesConnectionID
  PROVE  hasConnectionID' \in BOOLEAN
  BY DEF NotesConnectionID, TypeOK

\* A request of the user: its number is the next one.
LEMMA SendRequestKeeps ==
  ASSUME ClientInv, NEW op \in Ops, NEW body \in BOOLEAN, NEW full \in BOOLEAN, NEW short \in BOOLEAN,
         SendRequest(op, body, full, short)
  PROVE  ClientInv'
<1>1. /\ LinkOK'
      /\ last' \in Last /\ last'.req = last.req + 1 /\ last'.req \in Requests
  BY BeginsEffect DEF SendRequest, ClientInv
<1>2. current' = "request" /\ UNCHANGED <<alive, aborting, hasConnectionID, told>>
  BY DEF SendRequest
<1>3. TypeOK'
  BY <1>1, <1>2 DEF ClientInv, TypeOK, told
<1>4. last.req \in 0..MaxRequests /\ MaxRequests \in Nat
  BY LastType, RequestsAssumption DEF ClientInv
<1>5. \A r \in Requests : last'.req <= r => outcome'[r] = "none"
  BY <1>1, <1>2, <1>4 DEF ClientInv, NumbersOK, told, Requests
<1>6. QED
  BY <1>1, <1>3, <1>5 DEF ClientInv, NumbersOK, Requests

LEMMA PerformAbortKeeps ==
  ASSUME ClientInv, PerformAbort
  PROVE  ClientInv'
<1>1. last.req \in Requests
  BY DEF PerformAbort, Receives, ClientInv, NumbersOK
<1>2. CASE /\ SendsRequest([type |-> "Abort", req |-> last.req, body |-> FALSE,
                            final |-> TRUE, parses |-> TRUE])
           /\ current' = "Abort"
           /\ UNCHANGED <<alive, aborting, last, told>>
  <2>1. [type |-> "Abort", req |-> last.req, body |-> FALSE,
         final |-> TRUE, parses |-> TRUE] \in Packet
    BY <1>1 DEF Packet
  <2>2. LinkOK'
    BY <1>2, <2>1 DEF SendsRequest, LinkOK, ClientInv, TypeOK
  <2>3. TypeOK'
    BY <1>2, <2>2 DEF PerformAbort, ClientInv, TypeOK, told
  <2>4. QED
    BY <1>2, <2>3 DEF PerformAbort, Receives, ClientInv, NumbersOK, told
<1>3. CASE /\ LinkDies
           /\ current' = "none"
           /\ aborting' = FALSE
           /\ outcome' = [outcome EXCEPT ![last.req] = "abortFailed"]
           /\ UNCHANGED <<alive, last, asked, missed, raised, silent>>
  <2>1. LinkOK'
    BY <1>3 DEF LinkDies, LinkOK
  <2>2. outcome' \in [Requests -> Outcomes]
    BY <1>1, <1>3 DEF ClientInv, TypeOK, Outcomes
  <2>3. TypeOK'
    BY <1>3, <2>1, <2>2 DEF PerformAbort, ClientInv, TypeOK
  <2>4. \A r \in Requests : last'.req < r => outcome'[r] = "none"
    BY <1>1, <1>3 DEF ClientInv, NumbersOK, TypeOK, Requests
  <2>5. QED
    BY <1>3, <2>3, <2>4 DEF ClientInv, NumbersOK
<1>4. QED
  BY <1>2, <1>3 DEF PerformAbort

LEMMA SendNextPutEffect ==
  ASSUME ClientInv, SendNextPut
  PROVE  /\ LinkOK' /\ last' \in Last
         /\ last'.req = last.req /\ last'.op = "Put" /\ ReadToEnd'
         /\ request'.type = "Put" /\ request'.final = last'.final
         /\ response' = NoResponse
<1>1. PICK body \in BOOLEAN, full \in BOOLEAN, short \in BOOLEAN :
        /\ body => last.given < MaxPackets
        /\ SendsRequest([type |-> "Put", req |-> last.req, body |-> body,
                         final |-> LastChunk(full), parses |-> TRUE])
        /\ last' = [op |-> "Put", req |-> last.req, final |-> LastChunk(full),
                    given |-> IF body THEN last.given + 1 ELSE last.given,
                    more |-> full \/ short, short |-> short]
  BY DEF SendNextPut
<1>2. last.req \in Requests /\ last.req \in 0..MaxRequests /\ last.given \in 0..MaxPackets
  BY LastType DEF SendNextPut, MayGoOn, Receives, ClientInv, NumbersOK
<1>3. LastChunk(full) \in BOOLEAN /\ LastChunk(full) = ~full
  BY DEF LastChunk
<1>4. (IF body THEN last.given + 1 ELSE last.given) \in 0..MaxPackets
  BY <1>1, <1>2, ClientAssumption
<1>5. last' \in Last
  BY <1>1, <1>2, <1>3, <1>4 DEF Last, Ops
<1>6. [type |-> "Put", req |-> last.req, body |-> body,
       final |-> LastChunk(full), parses |-> TRUE] \in Packet
  BY <1>2, <1>3 DEF Packet, Ops
<1>7. LinkOK'
  BY <1>1, <1>6 DEF SendsRequest, LinkOK, ClientInv, TypeOK
<1>8. QED
  BY <1>1, <1>3, <1>5, <1>7 DEF SendsRequest, ReadToEnd

LEMMA SendNextGetEffect ==
  ASSUME ClientInv, SendNextGet
  PROVE  /\ LinkOK' /\ missed' \subseteq Requests
         /\ request'.type = "Get" /\ response' = NoResponse
<1>1. last.req \in Requests
  BY DEF SendNextGet, MayGoOn, Receives, ClientInv, NumbersOK
<1>2. [type |-> "Get", req |-> last.req, body |-> FALSE,
       final |-> TRUE, parses |-> TRUE] \in Packet
  BY <1>1 DEF Packet, Ops
<1>3. LinkOK'
  BY <1>2 DEF SendNextGet, SendsRequest, LinkOK, ClientInv, TypeOK
<1>4. missed' \subseteq Requests
  BY MissedType DEF SendNextGet, MayGoOn, Receives
<1>5. QED
  BY <1>3, <1>4 DEF SendNextGet, SendsRequest

\* The steps that end the current request, and how.
EndStep == SendNextFails \/ HandleFinal \/ HandleOther \/ HandleError

LEMMA EndStepEffect ==
  ASSUME ClientInv, EndStep
  PROVE  /\ current # "none"
         /\ \/ Ends(TRUE, "none")
            \/ response.code \in FinalCodes /\ Ends(FALSE, response.code)
         /\ LinkOK' /\ last' \in Last
         /\ \/ last' = last
            \/ /\ RequestsInCallbacks
               /\ last'.req = last.req + 1 /\ last'.req \in Requests
               /\ ReadToEnd'
         /\ hasConnectionID' \in BOOLEAN /\ missed' \subseteq Requests
         /\ request'.type # "Abort" \/ request' = request
<1>1. CASE SendNextFails
  BY <1>1, FailsToSendEffect, MissedType
     DEF SendNextFails, MayGoOn, Receives, ClientInv, TypeOK
<1>2. CASE HandleFinal
  BY <1>2, EndsIdleEffect, MissedType, ConnectionIDType
     DEF HandleFinal, Receives, ClientInv
<1>3. CASE HandleOtherIdle
  BY <1>3, EndsIdleEffect DEF HandleOtherIdle, ClientInv, TypeOK
<1>4. CASE HandleOtherBusy \/ HandleError
  BY <1>4 DEF HandleOtherBusy, HandleError, ClientInv, TypeOK, LinkOK, link
<1>5. QED
  BY <1>1, <1>2, <1>3, <1>4 DEF EndStep, HandleOther

LEMMA ServerKeepsLink ==
  ASSUME LinkOK, ServerAnswers
  PROVE  LinkOK'
<1>1. PICK code \in Answers(request), body \in BOOLEAN :
        response' = [code |-> code, body |-> body]
  BY DEF ServerAnswers
<1>2. code \in Codes
  BY DEF Answers, Codes
<1>3. QED
  BY <1>1, <1>2 DEF ServerAnswers, LinkOK, Response

LEMMA ClientInvStep == ClientInv /\ [Next]_vars => ClientInv'
<1> SUFFICES ASSUME ClientInv, [Next]_vars PROVE ClientInv'
  OBVIOUS
<1>1. ASSUME NEW op \in Ops, NEW body \in BOOLEAN, NEW full \in BOOLEAN, NEW short \in BOOLEAN,
             SendRequest(op, body, full, short)
      PROVE  ClientInv'
  BY <1>1, SendRequestKeeps
<1>2. CASE AbortCurrentRequest
  <2>1. last.req \in Requests
    BY <1>2 DEF AbortCurrentRequest, ClientInv, NumbersOK
  <2>2. QED
    BY <1>2, <2>1 DEF AbortCurrentRequest, ClientInv, NumbersOK, TypeOK, LinkOK, link
<1>3. CASE Dealloc
  BY <1>3 DEF Dealloc, ClientInv, NumbersOK, TypeOK, LinkOK, told
<1>4. CASE PerformAbort
  BY <1>4, PerformAbortKeeps
<1>5. CASE SendNextPut
  BY <1>5, SendNextPutEffect DEF SendNextPut, ClientInv, NumbersOK, TypeOK, told
<1>6. CASE NextPutRaises
  BY <1>6 DEF NextPutRaises, ClientInv, NumbersOK, TypeOK, LinkOK
<1>7. CASE SendNextGet
  BY <1>7, SendNextGetEffect DEF SendNextGet, ClientInv, NumbersOK, TypeOK
<1>8. CASE IgnoreResponse
  BY <1>8 DEF IgnoreResponse, ClientInv, NumbersOK, TypeOK, LinkOK, client, told
<1>9. CASE EndStep
  <2>1. FinalCodes \subseteq FinalCodes \cup {"none"} /\ TRUE \in BOOLEAN /\ FALSE \in BOOLEAN
    OBVIOUS
  <2>2. QED
    BY <1>9, <2>1, EndStepEffect, EndsKeeps
<1>10. CASE Server
  BY <1>10, ServerKeepsLink DEF Server, ServerAnswers, ServerIsSilent, ClientInv,
                                NumbersOK, TypeOK, LinkOK, client, told
<1>11. CASE LinkBreaks
  BY <1>11 DEF LinkBreaks, LinkDies, ClientInv, NumbersOK, TypeOK, LinkOK, client, told
<1>12. CASE UNCHANGED vars
  BY <1>12 DEF vars, link, client, told, ClientInv, NumbersOK, TypeOK, LinkOK
<1>13. QED
  BY <1>1, <1>2, <1>3, <1>4, <1>5, <1>6, <1>7, <1>8, <1>9, <1>10, <1>11, <1>12
     DEF Next, Client, User, HandleResponse, EndStep

LEMMA ClientInvInit == Init => ClientInv
<1> SUFFICES ASSUME Init PROVE ClientInv
  OBVIOUS
<1>1. 0 \in 0..MaxRequests /\ 0 \in 0..MaxPackets
  BY RequestsAssumption, ClientAssumption
<1>2. last \in Last
  BY <1>1 DEF Init, Last
<1>3. TypeOK
  BY <1>2 DEF Init, LinkInit, TypeOK, LinkOK, Outcomes
<1>4. QED
  BY <1>3 DEF Init, ClientInv, NumbersOK

\* Each variable of the client keeps its type, whatever the server answers and
\* the user does.
THEOREM TypeCorrect == Spec => []TypeOK
<1>1. Spec => []ClientInv
  BY ClientInvInit, ClientInvStep, PTL DEF Spec
<1>2. ClientInv => TypeOK
  BY DEF ClientInv
<1>3. QED
  BY <1>1, <1>2, PTL

LEMMA ClientInvariant == Spec => []ClientInv
BY ClientInvInit, ClientInvStep, PTL DEF Spec

-----------------------------------------------------------------------------
(***************************************************************************)
(* Every request is told its end, once.                                    *)
(***************************************************************************)

\* What is told of the requests changes only where the current one ends, and for
\* this one.
LEMMA OutcomeStep ==
  ASSUME ClientInv, [Next]_vars
  PROVE  \/ /\ UNCHANGED outcome
            /\ \/ UNCHANGED last
               \/ last'.req = last.req /\ current # "none"
               \/ current = "none" /\ last'.req = last.req + 1 /\ last'.req \in Requests
                    /\ current' # "none"
            /\ last'.req = last.req => (current' = "none" <=> current = "none")
         \/ /\ current # "none" /\ current' = "none"
            /\ \E told1 \in Outcomes \ {"none"} :
                 outcome' = [outcome EXCEPT ![last.req] = told1]
            /\ last' = last \/ RequestsInCallbacks
<1>1. ASSUME NEW op \in Ops, NEW body \in BOOLEAN, NEW full \in BOOLEAN, NEW short \in BOOLEAN,
             SendRequest(op, body, full, short)
      PROVE  /\ UNCHANGED outcome /\ current = "none" /\ current' # "none"
             /\ last'.req = last.req + 1 /\ last'.req \in Requests
  BY <1>1, BeginsEffect DEF SendRequest, told, ClientInv
<1>2. CASE EndStep
  <2>1. "none" \notin FinalCodes
    BY DEF FinalCodes
  <2>2. CASE Ends(TRUE, "none")
    <3>1. Told(TRUE, "none") \in Outcomes \ {"none"}
      BY DEF Told, Outcomes
    <3>2. QED
      BY <1>2, <2>2, <3>1, EndStepEffect DEF Ends
  <2>3. CASE response.code \in FinalCodes /\ Ends(FALSE, response.code)
    <3>1. Told(FALSE, response.code) \in Outcomes \ {"none"}
      BY <2>1, <2>3 DEF Told, Outcomes
    <3>2. QED
      BY <1>2, <2>3, <3>1, EndStepEffect DEF Ends
  <2>4. QED
    BY <1>2, <2>2, <2>3, EndStepEffect
<1>3. CASE PerformAbort
  BY <1>3 DEF PerformAbort, Receives, told, Outcomes
<1>4. CASE SendNextPut
  <2>1. last'.req = last.req /\ UNCHANGED <<outcome, current>>
    BY <1>4, SendNextPutEffect DEF SendNextPut, told
  <2>2. current # "none"
    BY <1>4 DEF SendNextPut, MayGoOn, Receives
  <2>3. QED
    BY <2>1, <2>2
<1>5. CASE AbortCurrentRequest \/ Dealloc
  BY <1>5 DEF AbortCurrentRequest, Dealloc, told
<1>6. CASE NextPutRaises \/ SendNextGet \/ IgnoreResponse
  BY <1>6 DEF NextPutRaises, SendNextGet, IgnoreResponse, client, told
<1>7. CASE Server \/ LinkBreaks \/ UNCHANGED vars
  BY <1>7 DEF Server, ServerAnswers, ServerIsSilent, LinkBreaks, vars, client, told
<1>8. last.req # last.req + 1
  BY LastType, RequestsAssumption DEF ClientInv
<1>9. QED
  BY <1>1, <1>2, <1>3, <1>4, <1>5, <1>6, <1>7, <1>8
     DEF Next, Client, User, HandleResponse, EndStep

\* What a delegate was told of a request stands, whatever arrives later.
THEOREM OutcomesStand == Spec => ToldOnce
<1>1. ASSUME ClientInv, [Next]_vars
      PROVE  \A r \in Requests : outcome[r] # "none" => outcome'[r] = outcome[r]
  <2>1. CASE UNCHANGED outcome
    BY <2>1
  <2>2. CASE /\ current # "none"
             /\ \E told1 \in Outcomes \ {"none"} :
                  outcome' = [outcome EXCEPT ![last.req] = told1]
    BY <1>1, <2>2 DEF ClientInv, NumbersOK, TypeOK
  <2>3. QED
    BY <1>1, <2>1, <2>2, OutcomeStep
<1>2. QED
  BY <1>1, ClientInvariant, PTL DEF Spec, ToldOnce

\* A request that was begun is under way or its end was told, never both, for a
\* delegate that makes no request when it is told of an end.
THEOREM RequestsAreRemembered == Spec => []NoneForgotten
<1>1. Init => NoneForgotten
  BY DEF Init, NoneForgotten, Begun, Requests
<1>2. ASSUME ClientInv, NoneForgotten, [Next]_vars PROVE NoneForgotten'
  <2> SUFFICES ASSUME ~RequestsInCallbacks, NEW r \in Requests, r <= last'.req
               PROVE  outcome'[r] = "none" <=> current' # "none" /\ r = last'.req
    BY DEF NoneForgotten, Begun
  <2>1. /\ last.req \in 0..MaxRequests /\ MaxRequests \in Nat
        /\ outcome \in [Requests -> Outcomes]
    BY <1>2, LastType, RequestsAssumption DEF ClientInv, TypeOK
  <2>2. CASE last'.req = last.req /\ UNCHANGED outcome
             /\ (current' = "none" <=> current = "none")
    BY <1>2, <2>2 DEF NoneForgotten, Begun
  <2>3. CASE /\ UNCHANGED outcome
             /\ current = "none" /\ last'.req = last.req + 1 /\ current' # "none"
    <3>1. CASE r = last'.req
      BY <1>2, <2>1, <2>3, <3>1 DEF ClientInv, NumbersOK
    <3>2. CASE r # last'.req
      <4>1. r <= last.req
        BY <2>1, <2>3, <3>2 DEF Requests
      <4>2. QED
        BY <1>2, <2>3, <3>2, <4>1 DEF NoneForgotten, Begun
    <3>3. QED
      BY <3>1, <3>2
  <2>4. CASE /\ current # "none" /\ current' = "none" /\ last' = last
             /\ \E told1 \in Outcomes \ {"none"} :
                  outcome' = [outcome EXCEPT ![last.req] = told1]
    <3>1. outcome'[r] # "none"
      BY <1>2, <2>1, <2>4 DEF NoneForgotten, Begun
    <3>2. QED
      BY <2>4, <3>1
  <2>5. QED
    BY <1>2, <2>2, <2>3, <2>4, OutcomeStep
<1>3. QED
  BY <1>1, <1>2, ClientInvariant, PTL DEF Spec

-----------------------------------------------------------------------------
(***************************************************************************)
(* Aborts: the mark is set only for a current request that an abort was    *)
(* asked for, and goes with it.                                            *)
(***************************************************************************)
AbortOK ==
  /\ aborting => current # "none" /\ last.req \in asked
  /\ current = "Abort" => aborting
  /\ AbortHitsItsRequest

LEMMA AbortStep ==
  ASSUME ClientInv, AbortOK, [Next]_vars
  PROVE  AbortOK'
<1> USE DEF AbortHitsItsRequest
<1>1. ASSUME NEW op \in Ops, NEW body \in BOOLEAN, NEW full \in BOOLEAN, NEW short \in BOOLEAN,
             SendRequest(op, body, full, short)
      PROVE  AbortOK'
  BY <1>1, BeginsEffect, OpsNames DEF SendRequest, told, ClientInv, AbortOK
<1>2. CASE EndStep
  <2>1. current # "none" /\ last.req \in Requests
    BY <1>2, EndStepEffect DEF ClientInv, NumbersOK
  <2>2. /\ current' = "none" /\ ~aborting' /\ UNCHANGED asked
        /\ \/ outcome' = [outcome EXCEPT ![last.req] = Told(TRUE, "none")]
           \/ /\ response.code \in FinalCodes
              /\ outcome' = [outcome EXCEPT ![last.req] = Told(FALSE, response.code)]
    BY <1>2, EndStepEffect DEF Ends
  <2>3. ASSUME NEW r \in Requests, outcome'[r] \in {"aborted", "abortFailed"}
        PROVE  r \in asked
    <3>1. CASE r # last.req
      BY <2>1, <2>2, <2>3, <3>1 DEF AbortOK, ClientInv, TypeOK
    <3>2. CASE r = last.req
      <4>1. current = "Abort"
        BY <2>1, <2>2, <2>3, <3>2 DEF Told, FinalCodes, ClientInv, TypeOK
      <4>2. QED
        BY <3>2, <4>1 DEF AbortOK
    <3>3. QED
      BY <3>1, <3>2
  <2>4. request'.type = "Abort" => request'.req \in asked
    BY <1>2, EndStepEffect DEF AbortOK
  <2>5. QED
    BY <2>2, <2>3, <2>4 DEF AbortOK
<1>3. CASE PerformAbort
  <2>1. last.req \in asked /\ last.req \in Requests
    BY <1>3 DEF PerformAbort, Receives, AbortOK, ClientInv, NumbersOK
  <2>2. CASE /\ SendsRequest([type |-> "Abort", req |-> last.req, body |-> FALSE,
                              final |-> TRUE, parses |-> TRUE])
             /\ current' = "Abort"
             /\ UNCHANGED <<alive, aborting, last, told>>
    BY <1>3, <2>1, <2>2 DEF PerformAbort, SendsRequest, AbortOK, told
  <2>3. CASE /\ LinkDies
             /\ current' = "none"
             /\ aborting' = FALSE
             /\ outcome' = [outcome EXCEPT ![last.req] = "abortFailed"]
             /\ UNCHANGED <<alive, last, asked, missed, raised, silent>>
    <3>1. request'.type # "Abort"
      BY <2>3, NothingUnderWay DEF LinkDies
    <3>2. QED
      BY <2>1, <2>3, <3>1 DEF AbortOK, ClientInv, TypeOK
  <2>4. QED
    BY <1>3, <2>2, <2>3 DEF PerformAbort
<1>4. CASE SendNextPut
  BY <1>4, SendNextPutEffect DEF SendNextPut, told, AbortOK
<1>5. CASE SendNextGet
  BY <1>5, SendNextGetEffect DEF SendNextGet, told, AbortOK
<1>6. CASE AbortCurrentRequest
  BY <1>6 DEF AbortCurrentRequest, link, AbortOK
<1>7. CASE Dealloc \/ Server \/ LinkBreaks
  BY <1>7, NothingUnderWay DEF Dealloc, Server, ServerAnswers, ServerIsSilent, LinkBreaks,
                               LinkDies, client, told, AbortOK
<1>8. CASE NextPutRaises \/ IgnoreResponse \/ UNCHANGED vars
  BY <1>8 DEF NextPutRaises, IgnoreResponse, vars, link, client, told, AbortOK
<1>9. QED
  BY <1>1, <1>2, <1>3, <1>4, <1>5, <1>6, <1>7, <1>8
     DEF Next, Client, User, HandleResponse, EndStep

\* An abort hits the request it was asked for and no other.
THEOREM AbortsHitTheirRequest == Spec => []AbortHitsItsRequest
<1>1. Init => AbortOK
  BY NothingUnderWay DEF Init, LinkInit, AbortOK, AbortHitsItsRequest
<1>2. AbortOK => AbortHitsItsRequest
  BY DEF AbortOK
<1>3. QED
  BY <1>1, <1>2, AbortStep, ClientInvariant, PTL DEF Spec

\* Once a request is to be aborted, no packet but an Abort goes out.
THEOREM AbortsStopTheirRequest == Spec => AbortStopsRequest
<1>1. Init => AbortOK
  BY NothingUnderWay DEF Init, LinkInit, AbortOK, AbortHitsItsRequest
<1>2. ASSUME ClientInv, AbortOK, [Next]_vars,
             aborting, aborting', request' # NoPacket, request' # request
      PROVE  request'.type = "Abort"
  <2>1. ASSUME NEW op \in Ops, NEW body \in BOOLEAN, NEW full \in BOOLEAN, NEW short \in BOOLEAN,
               SendRequest(op, body, full, short)
        PROVE  FALSE
    BY <1>2, <2>1 DEF SendRequest, AbortOK
  <2>2. CASE EndStep
    BY <1>2, <2>2, EndStepEffect DEF Ends
  <2>3. CASE PerformAbort
    BY <1>2, <2>3 DEF PerformAbort, SendsRequest, LinkDies
  <2>4. CASE SendNextPut \/ SendNextGet \/ NextPutRaises
    BY <1>2, <2>4 DEF SendNextPut, SendNextGet, NextPutRaises, MayGoOn
  <2>5. CASE AbortCurrentRequest \/ Dealloc \/ IgnoreResponse
    BY <1>2, <2>5 DEF AbortCurrentRequest, Dealloc, IgnoreResponse, link
  <2>6. CASE Server \/ LinkBreaks \/ UNCHANGED vars
    BY <1>2, <2>6 DEF Server, ServerAnswers, ServerIsSilent, LinkBreaks, LinkDies,
                      vars, link
  <2>7. QED
    BY <1>2, <2>1, <2>2, <2>3, <2>4, <2>5, <2>6
       DEF Next, Client, User, HandleResponse, EndStep
<1>3. QED
  BY <1>1, <1>2, AbortStep, ClientInvariant, PTL DEF Spec, AbortStopsRequest

-----------------------------------------------------------------------------
(***************************************************************************)
(* Puts: a Put is answered with Success only after its last packet, and    *)
(* its last packet is the one that ends its stream, or for which the       *)
(* stream gave too little at once.                                         *)
(***************************************************************************)
PutUnderWay == current = "request" /\ last.op = "Put"

PutOK ==
  /\ ReadToEnd
  /\ PutUnderWay /\ request # NoPacket => request.type = "Put" /\ request.final = last.final
  /\ PutUnderWay /\ response.code = "Success" => last.final
  /\ PutSuccessIsWhole

LEMMA PutStep ==
  ASSUME ClientInv, PutOK, [Next]_vars
  PROVE  PutOK'
<1> USE DEF PutUnderWay, PutSuccessIsWhole, PutSucceeded, ReadToEnd
<1>0. /\ last.req \in 0..MaxRequests /\ MaxRequests \in Nat
      /\ NoResponse.code # "Success"
  BY LastType, RequestsAssumption, NothingUnderWay DEF ClientInv
<1>1. ASSUME NEW op \in Ops, NEW body \in BOOLEAN, NEW full \in BOOLEAN, NEW short \in BOOLEAN,
             SendRequest(op, body, full, short)
      PROVE  PutOK'
  <2>1. /\ last'.req = last.req + 1 /\ last'.req \in Requests
        /\ last'.op = op /\ ReadToEnd'
        /\ request'.type = op /\ request'.final = last'.final
        /\ response' = NoResponse
    BY <1>1, BeginsEffect DEF SendRequest, ClientInv
  <2>2. last.req < last'.req
    BY <1>0, <2>1
  <2>3. outcome'[last'.req] = "none"
    BY <1>1, <2>1, <2>2 DEF SendRequest, told, ClientInv, NumbersOK
  <2>4. QED
    BY <1>0, <2>1, <2>3 DEF PutOK
<1>2. CASE EndStep
  <2>1. current # "none" /\ last.req \in Requests /\ current' = "none"
    BY <1>2, EndStepEffect DEF Ends, ClientInv, NumbersOK
  <2>2. last.req > 0
    BY <1>0, <2>1 DEF Requests
  <2>3. CASE last' = last
    <3>1. CASE Ends(TRUE, "none")
      <4>1. outcome'[last.req] # "Success"
        BY <2>1, <3>1 DEF Ends, Told, ClientInv, TypeOK
      <4>2. QED
        BY <2>1, <2>3, <4>1 DEF PutOK
    <3>2. CASE response.code \in FinalCodes /\ Ends(FALSE, response.code)
      <4>1. outcome'[last.req] = Told(FALSE, response.code)
        BY <2>1, <3>2 DEF Ends, ClientInv, TypeOK
      <4>2. CASE last.op = "Put" /\ outcome'[last.req] = "Success"
        <5>1. current = "request" /\ response.code = "Success"
          BY <2>1, <4>1, <4>2 DEF Told, ClientInv, TypeOK
        <5>2. last.final /\ (last.more => last.short)
          BY <2>2, <4>2, <5>1 DEF PutOK
        <5>3. QED
          BY <2>1, <2>3, <5>2 DEF PutOK
      <4>3. CASE ~(last.op = "Put" /\ outcome'[last.req] = "Success")
        BY <2>1, <2>3, <4>3 DEF PutOK
      <4>4. QED
        BY <4>2, <4>3
    <3>3. QED
      BY <1>2, <3>1, <3>2, EndStepEffect
  <2>4. CASE last'.req = last.req + 1 /\ last'.req \in Requests /\ ReadToEnd'
    <3>1. last.req < last'.req /\ last.req # last'.req
      BY <1>0, <2>4
    <3>2. outcome'[last'.req] = outcome[last'.req]
      BY <1>2, <2>1, <2>4, <3>1, EndStepEffect DEF Ends, ClientInv, TypeOK
    <3>3. outcome'[last'.req] = "none"
      BY <2>4, <3>1, <3>2 DEF ClientInv, NumbersOK
    <3>4. QED
      BY <2>1, <2>4, <3>3 DEF PutOK
  <2>5. QED
    BY <1>2, <2>3, <2>4, EndStepEffect
<1>3. CASE PerformAbort
  <2>1. last.req \in Requests /\ UNCHANGED last /\ current' # "request"
    BY <1>3 DEF PerformAbort, Receives, ClientInv, NumbersOK
  <2>2. UNCHANGED outcome \/ outcome' = [outcome EXCEPT ![last.req] = "abortFailed"]
    BY <1>3 DEF PerformAbort, told
  <2>3. outcome'[last.req] = "Success" => outcome[last.req] = "Success"
    BY <2>1, <2>2 DEF ClientInv, TypeOK
  <2>4. QED
    BY <2>1, <2>3 DEF PutOK
<1>4. CASE SendNextPut
  <2>1. last.req \in Requests /\ outcome[last.req] = "none" /\ UNCHANGED outcome
    BY <1>4 DEF SendNextPut, MayGoOn, Receives, told, ClientInv, NumbersOK
  <2>2. QED
    BY <1>0, <1>4, <2>1, SendNextPutEffect DEF PutOK
<1>5. CASE SendNextGet
  <2>1. last.op = "Get" /\ UNCHANGED <<last, outcome>>
    BY <1>5 DEF SendNextGet, MayGoOn
  <2>2. QED
    BY <2>1 DEF PutOK
<1>6. CASE ServerAnswers
  <2>1. PICK code \in Answers(request), body \in BOOLEAN :
          response' = [code |-> code, body |-> body]
    BY <1>6 DEF ServerAnswers
  <2>2. UNCHANGED <<last, current, outcome>> /\ request' = NoPacket /\ request # NoPacket
    BY <1>6 DEF ServerAnswers, client, told
  <2>3. request.type = "Put" /\ ~request.final => code # "Success"
    BY DEF Answers
  <2>4. response'.code = code
    BY <2>1
  <2>5. QED
    BY <2>2, <2>3, <2>4 DEF PutOK
<1>7. CASE ServerIsSilent \/ LinkBreaks \/ Dealloc
  BY <1>0, <1>7 DEF ServerIsSilent, LinkBreaks, LinkDies, Dealloc, client, told, PutOK
<1>8. CASE AbortCurrentRequest \/ NextPutRaises \/ IgnoreResponse \/ UNCHANGED vars
  BY <1>0, <1>8 DEF AbortCurrentRequest, NextPutRaises, IgnoreResponse, vars, link,
                    client, told, PutOK
<1>9. QED
  BY <1>1, <1>2, <1>3, <1>4, <1>5, <1>6, <1>7, <1>8
     DEF Next, Client, User, HandleResponse, Server, EndStep

\* A Put that is told Success has sent its last packet and read its stream to
\* the end, whatever the server answers and wherever aborts fall, unless the
\* stream gave less than it was asked for before its end.
THEOREM PutsAreWhole == Spec => []PutSuccessIsWhole
<1>1. Init => PutOK
  BY NothingUnderWay DEF Init, LinkInit, PutOK, PutUnderWay, PutSuccessIsWhole,
         PutSucceeded, ReadToEnd
<1>2. PutOK => PutSuccessIsWhole
  BY DEF PutOK
<1>3. QED
  BY <1>1, <1>2, PutStep, ClientInvariant, PTL DEF Spec

-----------------------------------------------------------------------------
(***************************************************************************)
(* A client and a server on one session (OBEXTransfer).  SP is the server  *)
(* of OBEXTransfer, S, together with what OBEXServerProofs proves of it.   *)
(***************************************************************************)
SP == INSTANCE OBEXServerProofs WITH SetsCodeLate <- FALSE, error <- serverError,
                                     raised <- serverRaised, aborted <- (abortSent # 0)

LEMMA SameServer ==
  /\ SP!Init <=> S!Init
  /\ SP!Server <=> S!Server
  /\ SP!Client <=> S!Client
  /\ SP!LinkBreaks <=> S!LinkBreaks
  /\ SP!vars = S!vars
<1>1. SP!vars = S!vars
  BY DEF SP!vars, S!vars, SP!link, S!link, SP!history, S!history
<1>2. SP!Init <=> S!Init
  BY DEF SP!Init, S!Init, SP!LinkInit, S!LinkInit, SP!NoPacket, S!NoPacket,
         SP!NoResponse, S!NoResponse, SP!NoHandler, S!NoHandler, SP!NewHandler,
         S!NewHandler, SP!Requests, S!Requests
<1>3. SP!Client <=> S!Client
  BY DEF SP!Client, S!Client, SP!PeerStarts, S!PeerStarts, SP!PeerContinues,
         S!PeerContinues, SP!PeerAborts, S!PeerAborts, SP!PeerStalls, S!PeerStalls,
         SP!PeerEnds, S!PeerEnds, SP!SendsRequest, S!SendsRequest, SP!NoPacket, S!NoPacket,
         SP!NoResponse, S!NoResponse, SP!FinalCodes, S!FinalCodes, SP!Ops, S!Ops,
         SP!SingleOps, S!SingleOps, SP!history, S!history
<1>4. /\ SP!LinkBreaks <=> S!LinkBreaks
      /\ SP!HandleError <=> S!HandleError
      /\ SP!Close <=> S!Close
      /\ SP!ChannelClosed <=> S!ChannelClosed
  BY DEF SP!LinkBreaks, S!LinkBreaks, SP!LinkDies, S!LinkDies, SP!NoPacket, S!NoPacket,
         SP!NoResponse, S!NoResponse, SP!HandleError, S!HandleError, SP!Close, S!Close,
         SP!ChannelClosed, S!ChannelClosed, SP!Closes, S!Closes, SP!NoHandler, S!NoHandler,
         SP!NewHandler, S!NewHandler, SP!link, S!link, SP!history, S!history
<1>5. /\ SP!NoPacket = S!NoPacket
      /\ SP!NoHandler = S!NoHandler
      /\ SP!Current = S!Current
      /\ \A h, f : SP!FateOf(h, f) = S!FateOf(h, f)
      /\ \A code, body : SP!Sends(code, body) <=> S!Sends(code, body)
      /\ SP!CannotSend <=> S!CannotSend
  BY DEF SP!NoPacket, S!NoPacket, SP!NoHandler, S!NoHandler, SP!NewHandler, S!NewHandler,
         SP!Current, S!Current, SP!FateOf, S!FateOf, SP!Sends, S!Sends, SP!CannotSend,
         S!CannotSend
<1>6. /\ \A h, code, body, err :
           SP!Responds(h, code, body, err) <=> S!Responds(h, code, body, err)
      /\ \A h, code : SP!Rejects(h, code) <=> S!Rejects(h, code)
  BY DEF SP!Responds, S!Responds, SP!Rejects, S!Rejects, SP!Sends, S!Sends,
         SP!CannotSend, S!CannotSend, SP!FateOf, S!FateOf, SP!KindOf, S!KindOf,
         SP!NoPacket, S!NoPacket, SP!NoHandler, S!NoHandler, SP!NewHandler, S!NewHandler
<1>7. /\ SP!TypeFits <=> S!TypeFits
      /\ \A type : SP!Arrives(type) <=> S!Arrives(type)
  BY <1>5 DEF SP!Arrives, S!Arrives, SP!TypeFits, S!TypeFits
<1>8. /\ SP!HandleWrongType <=> S!HandleWrongType
      /\ SP!HandleUnreadable <=> S!HandleUnreadable
      /\ SP!HandleSingle <=> S!HandleSingle
      /\ SP!HandleAbort <=> S!HandleAbort
      /\ SP!HandleIdleAbort <=> S!HandleIdleAbort
  BY <1>5, <1>6, <1>7
     DEF SP!HandleWrongType, S!HandleWrongType, SP!HandleUnreadable, S!HandleUnreadable,
         SP!HandleSingle, S!HandleSingle, SP!HandleAbort, S!HandleAbort, SP!AfterAbort,
         S!AfterAbort, SP!HandleIdleAbort, S!HandleIdleAbort, SP!Ops, S!Ops,
         SP!SingleOps, S!SingleOps, SP!history, S!history
<1>9. /\ SP!HandlePutUndecided <=> S!HandlePutUndecided
      /\ SP!HandlePutDelete <=> S!HandlePutDelete
      /\ SP!HandlePutNotImplemented <=> S!HandlePutNotImplemented
      /\ SP!HandlePutDenied <=> S!HandlePutDenied
      /\ SP!HandlePutAccepted <=> S!HandlePutAccepted
      /\ SP!HandlePutContinued <=> S!HandlePutContinued
  BY <1>5, <1>6, <1>7
     DEF SP!HandlePutUndecided, S!HandlePutUndecided, SP!HandlePutDelete, S!HandlePutDelete,
         SP!HandlePutNotImplemented, S!HandlePutNotImplemented, SP!HandlePutDenied,
         S!HandlePutDenied, SP!HandlePutAccepted, S!HandlePutAccepted,
         SP!HandlePutContinued, S!HandlePutContinued, SP!DefinitelyIsPut,
         S!DefinitelyIsPut, SP!PutHandler, S!PutHandler, SP!AskedHandler, S!AskedHandler,
         SP!WritesBody, S!WritesBody
<1>10. /\ SP!HandleGetNotImplemented <=> S!HandleGetNotImplemented
       /\ SP!HandleGetDenied <=> S!HandleGetDenied
       /\ SP!HandleGetAccepted <=> S!HandleGetAccepted
       /\ SP!HandleGetContinued <=> S!HandleGetContinued
  BY <1>5, <1>6, <1>7
     DEF SP!HandleGetNotImplemented, S!HandleGetNotImplemented, SP!HandleGetDenied,
         S!HandleGetDenied, SP!HandleGetAccepted, S!HandleGetAccepted,
         SP!HandleGetContinued, S!HandleGetContinued, SP!ReadsChunk, S!ReadsChunk,
         SP!EndsLate, S!EndsLate, SP!ReadRaises, S!ReadRaises, SP!KindOf, S!KindOf
<1>11. SP!HandleSessionEvent <=> S!HandleSessionEvent
  BY <1>8, <1>9, <1>10 DEF SP!HandleSessionEvent, S!HandleSessionEvent
<1>12. SP!Server <=> S!Server
  BY <1>4, <1>11 DEF SP!Server, S!Server
<1>13. QED
  BY <1>1, <1>2, <1>3, <1>4, <1>12

\* The session is the same for both.
LEMMA SameLink ==
  /\ SP!NoPacket = NoPacket /\ SP!NoResponse = NoResponse
  /\ SP!FinalCodes = FinalCodes /\ SP!Codes = Codes
  /\ SP!Ops = Ops /\ SP!Requests = Requests
  /\ SP!link = link
  /\ SP!LinkDies <=> LinkDies
  /\ \A p : SP!SendsRequest(p) <=> SendsRequest(p)
  BY DEF SP!NoPacket, NoPacket, SP!NoResponse, NoResponse, SP!FinalCodes, FinalCodes,
         SP!Codes, Codes, SP!Ops, Ops, SP!SingleOps, SingleOps, SP!Requests, Requests,
         SP!link, link, SP!LinkDies, LinkDies, SP!SendsRequest, SendsRequest

\* What both ends know.  Nothing is under way on a channel that is gone, and a
\* request fails on such a channel only.
ChannelOK ==
  /\ ~linkUp => request = NoPacket /\ response = NoResponse
  /\ \A r \in Requests : outcome[r] \in {"failed", "abortFailed"} => ~linkUp

\* Packets and responses are of the current request, Continue is an answer to one
\* that can go on, and abortSent tells an Abort that is current.
RequestOK ==
  /\ request # NoPacket =>
       current # "none" /\ request.type = IF current = "Abort" THEN "Abort" ELSE last.op
  /\ response # NoResponse => current # "none"
  /\ response.code = "Continue" => /\ current = "request"
                                   /\ last.op \in {"Put", "Get"}
                                   /\ last.op = "Put" => ~last.final
  /\ last.req > 0 /\ last.op # "Put" => last.final
  /\ abortSent \in 0..last.req
  /\ current = "Abort" => abortSent = last.req
  /\ current = "request" => abortSent # last.req

\* A final response and the end that is told of it leave no stream open.
EndsOK ==
  /\ response.code \in FinalCodes => fate[last.req] # "open"
  /\ StreamsEndTogether
  /\ PutArrives

TransferInv == /\ ClientInv /\ PutOK
               /\ SP!ServerInv /\ SP!PutOK
               /\ ChannelOK /\ RequestOK /\ EndsOK

-----------------------------------------------------------------------------
(***************************************************************************)
(* The client, seen from the server.                                       *)
(***************************************************************************)
LEMMA PeerFields ==
  /\ peer.op = last.op /\ peer.req = last.req
  /\ peer.final = last.final /\ peer.given = last.given
  BY DEF peer

LEMMA CurrentRequest ==
  ASSUME TransferInv, current # "none"
  PROVE  last.req \in Requests /\ last.req # 0 /\ outcome[last.req] = "none"
<1>1. last.req \in Requests /\ outcome[last.req] = "none"
  BY DEF TransferInv, ClientInv, NumbersOK
<1>2. QED
  BY <1>1, RequestsAssumption DEF Requests

LEMMA PeerState ==
  ASSUME ClientInv, RequestOK, ChannelOK
  PROVE  /\ current = "request" => peer.state = "busy"
         /\ current = "Abort" => peer.state = "aborting"
         /\ current = "none" /\ linkUp => peer.state = "idle"
<1>1. current # "none" => last.req \in Requests /\ last.req # 0
  BY RequestsAssumption DEF ClientInv, NumbersOK, Requests
<1>2. last.req # 0 => last.req \in Requests
  BY LastType, RequestsAssumption DEF ClientInv, Requests
<1>3. QED
  BY <1>1, <1>2 DEF peer, Unended, RequestOK, ChannelOK

\* A client that is at the same point of the same request.
LEMMA PeerStays ==
  ASSUME UNCHANGED <<last, abortSent>>, Unended' <=> Unended
  PROVE  UNCHANGED peer
  BY DEF peer

\* A client at another point, whose state is known.
LEMMA PeerMoves ==
  ASSUME NEW s, peer'.state = s
  PROVE  peer' = [state |-> s, op |-> last'.op, req |-> last'.req,
                  final |-> last'.final, given |-> last'.given]
  BY DEF peer

LEMMA PeerWith ==
  ASSUME TransferInv, NEW s
  PROVE  [peer EXCEPT !.state = s] = [state |-> s, op |-> last.op, req |-> last.req,
                                      final |-> last.final, given |-> last.given]
<1>1. peer \in SP!Peer
  BY DEF TransferInv, SP!ServerInv, SP!TypeOK
<1>2. QED
  BY <1>1, PeerFields DEF SP!Peer

-----------------------------------------------------------------------------
(***************************************************************************)
(* Each step of the client is one that the server's specification allows.  *)
(***************************************************************************)
StepForServer == SP!Client \/ SP!LinkBreaks \/ UNCHANGED SP!vars

\* Nothing the server's specification looks at has changed.
LEMMA NoStepForServer ==
  ASSUME UNCHANGED <<linkUp, request, response, peer, serverState, observations, abortSent>>
  PROVE  UNCHANGED SP!vars
  BY DEF SP!vars, SP!link, SP!history, serverState, observations

\* The channel is gone, or was gone before.
LEMMA BreakForServer ==
  ASSUME TransferInv, linkUp' = FALSE, request' = NoPacket, response' = NoResponse,
         UNCHANGED <<peer, serverState, observations, abortSent>>
  PROVE  StepForServer
<1>1. CASE linkUp
  BY <1>1, SameLink DEF StepForServer, SP!LinkBreaks, LinkDies, SP!history,
                        serverState, observations
<1>2. CASE linkUp = FALSE
  BY <1>2, NoStepForServer DEF StepForServer, TransferInv, ChannelOK
<1>3. QED
  BY <1>1, <1>2 DEF TransferInv, ClientInv, TypeOK, LinkOK

LEMMA SendRequestMeets ==
  ASSUME TransferInv, ClientStep, NEW op \in Ops, NEW body \in BOOLEAN,
         NEW full \in BOOLEAN, NEW short \in BOOLEAN, SendRequest(op, body, full, short)
  PROVE  SP!PeerStarts(op, body, ~full, TRUE)
<1>1. /\ last.req \in 0..MaxRequests /\ MaxRequests \in Nat
      /\ last.req < MaxRequests
      /\ linkUp /\ current = "none"
  BY LastType, RequestsAssumption
     DEF TransferInv, ClientInv, SendRequest, Begins, SendsRequest
<1>2. peer.state = "idle" /\ peer.req = last.req
  BY <1>1, PeerState, PeerFields DEF TransferInv
<1>3. /\ last'.req = last.req + 1
      /\ last' = [op |-> op, req |-> last.req + 1, final |-> ~full,
                  given |-> IF body THEN 1 ELSE 0, more |-> full \/ short, short |-> short]
      /\ SendsRequest([type |-> op, req |-> last.req + 1, body |-> body,
                       final |-> ~full, parses |-> TRUE])
      /\ op # "Put" => ~full /\ ~body
      /\ body => MaxPackets > 0
  BY DEF SendRequest, Begins, LastChunk
<1>4. request'.type = op /\ op # "Abort"
  BY <1>3, OpsNames DEF SendsRequest
<1>5. UNCHANGED abortSent /\ abortSent \in 0..last.req
  BY <1>4 DEF ClientStep, TransferInv, RequestOK
<1>6. last'.req # 0 /\ last'.req # last.req /\ last'.req # abortSent
  BY <1>1, <1>3, <1>5
<1>7. peer'.state = "busy"
  <2>1. current' = "request"
    BY DEF SendRequest
  <2>2. QED
    BY <1>5, <1>6, <2>1 DEF peer, Unended
<1>8. peer' = [state |-> "busy", op |-> op, req |-> last.req + 1,
               final |-> ~full, given |-> IF body THEN 1 ELSE 0]
  BY <1>3, <1>7, PeerMoves
<1>9. /\ taken' = 0 /\ cut' = FALSE /\ headers' = {} /\ notice' = "none" /\ serverError' = FALSE
      /\ UNCHANGED <<running, handler, fate, serverRaised>>
  BY <1>6 DEF ClientStep, NotesRequest, serverState
<1>10. QED
  BY <1>1, <1>2, <1>3, <1>5, <1>8, <1>9, SameLink DEF SP!PeerStarts

\* Steps that begin no request leave what is noted of it.
LEMMA NotesStay ==
  ASSUME ClientStep, last'.req = last.req
  PROVE  UNCHANGED <<serverState, observations>>
  BY DEF ClientStep, NotesRequest

LEMMA PerformAbortMeets ==
  ASSUME TransferInv, ClientStep, PerformAbort
  PROVE  StepForServer
<1>1. /\ current = "request" /\ response.code = "Continue"
      /\ last' = last /\ last.req \in Requests /\ last.req # 0
  BY CurrentRequest DEF PerformAbort, Receives, TransferInv, RequestOK
<1>2. peer.state = "busy"
  BY <1>1, PeerState DEF TransferInv
<1>3. UNCHANGED <<serverState, observations>>
  BY <1>1, NotesStay
<1>4. CASE /\ SendsRequest([type |-> "Abort", req |-> last.req, body |-> FALSE,
                            final |-> TRUE, parses |-> TRUE])
           /\ current' = "Abort"
  <2>1. request'.type = "Abort"
    BY <1>4 DEF SendsRequest
  <2>2. abortSent' = last.req
    BY <2>1 DEF ClientStep
  <2>3. peer'.state = "aborting"
    BY <1>1, <1>4, <2>2 DEF peer, Unended
  <2>4. peer' = [peer EXCEPT !.state = "aborting"]
    BY <1>1, <2>3, PeerMoves, PeerWith
  <2>5. SP!PeerAborts
    BY <1>1, <1>2, <1>3, <1>4, <2>2, <2>4, PeerFields, SameLink
       DEF SP!PeerAborts, serverState, observations
  <2>6. QED
    BY <2>5 DEF StepForServer, SP!Client
<1>5. CASE /\ LinkDies
           /\ current' = "none"
           /\ outcome' = [outcome EXCEPT ![last.req] = "abortFailed"]
  <2>1. request'.type # "Abort"
    BY <1>5, NothingUnderWay DEF LinkDies
  <2>2. UNCHANGED abortSent
    BY <2>1 DEF ClientStep
  <2>3. Unended /\ Unended'
    BY <1>1, <1>5 DEF Unended, TransferInv, ClientInv, TypeOK
  <2>4. UNCHANGED peer
    BY <1>1, <2>2, <2>3, PeerStays
  <2>5. QED
    BY <1>3, <1>5, <2>2, <2>4, BreakForServer DEF LinkDies
<1>6. QED
  BY <1>4, <1>5 DEF PerformAbort

\* A packet of the request that is current.
LEMMA NextPacketMeets ==
  ASSUME TransferInv, ClientStep, NEW body \in BOOLEAN, NEW final \in BOOLEAN,
         current = "request", UNCHANGED current, response.code = "Continue",
         last.op \in Ops,
         SendsRequest([type |-> last.op, req |-> last.req, body |-> body,
                       final |-> final, parses |-> TRUE]),
         \/ last.op = "Put" /\ ~last.final
         \/ last.op = "Get" /\ final /\ ~body,
         body => last.given < MaxPackets,
         last'.op = last.op, last'.req = last.req, last'.final = final,
         last'.given = IF body THEN last.given + 1 ELSE last.given
  PROVE  SP!PeerContinues(body, final)
<1>1. last.req # 0 /\ abortSent # last.req
  BY CurrentRequest DEF TransferInv, RequestOK
<1>2. peer.state = "busy"
  BY PeerState DEF TransferInv
<1>3. request'.type # "Abort"
  BY OpsNames DEF SendsRequest
<1>4. UNCHANGED <<abortSent, serverState, observations>>
  BY <1>3, NotesStay DEF ClientStep
<1>5. peer'.state = "busy"
  BY <1>1, <1>4 DEF peer, Unended
<1>6. peer' = [state |-> "busy", op |-> last.op, req |-> last.req, final |-> final,
               given |-> IF body THEN last.given + 1 ELSE last.given]
  BY <1>5, PeerMoves
<1>7. QED
  BY <1>2, <1>4, <1>6, PeerFields, SameLink
     DEF SP!PeerContinues, SP!history, serverState, observations

\* The end of a request, with its channel.
LEMMA FailingMeets ==
  ASSUME TransferInv, ClientStep, current # "none", Ends(TRUE, "none"), UNCHANGED last,
         \/ LinkDies
         \/ linkUp = FALSE /\ UNCHANGED link
  PROVE  StepForServer
<1>1. last.req \in Requests
  BY CurrentRequest
<1>2. outcome'[last.req] \in {"failed", "abortFailed"}
  BY <1>1 DEF Ends, Told, TransferInv, ClientInv, TypeOK
<1>3. UNCHANGED <<serverState, observations>>
  BY NotesStay
<1>4. request' = NoPacket /\ response' = NoResponse /\ linkUp' = FALSE
  BY DEF LinkDies, link, TransferInv, ChannelOK
<1>5. UNCHANGED abortSent
  BY <1>4, NothingUnderWay DEF ClientStep
<1>6. Unended /\ Unended'
  BY <1>2 DEF Unended
<1>7. UNCHANGED peer
  BY <1>5, <1>6, PeerStays
<1>8. QED
  BY <1>3, <1>4, <1>5, <1>7, BreakForServer

LEMMA HandleFinalMeets ==
  ASSUME TransferInv, ~RequestsInCallbacks, ClientStep, HandleFinal
  PROVE  StepForServer
<1>1. /\ current # "none" /\ response.code \in FinalCodes
      /\ Ends(FALSE, response.code)
      /\ request' = NoPacket /\ response' = NoResponse /\ UNCHANGED <<linkUp, last>>
  BY DEF HandleFinal, Receives, EndsIdle
<1>2. last.req \in Requests /\ last.req # 0
  BY <1>1, CurrentRequest
<1>3. peer.state # "idle"
  BY <1>1, PeerState DEF TransferInv, ClientInv, TypeOK
<1>4. request = NoPacket
  <2>1. response # NoResponse
    BY <1>1, NothingUnderWay DEF FinalCodes
  <2>2. QED
    BY <2>1, SameLink DEF TransferInv, SP!ServerInv, SP!PeerOK
<1>5. UNCHANGED <<abortSent, serverState, observations>>
  BY <1>1, NothingUnderWay, NotesStay DEF ClientStep
<1>6. outcome'[last.req] \in FinalCodes \cup {"aborted"} /\ current' = "none"
  BY <1>1, <1>2 DEF Ends, Told, TransferInv, ClientInv, TypeOK
<1>7. ~Unended'
  BY <1>1, <1>6 DEF Unended, FinalCodes
<1>8. peer'.state = "idle"
  BY <1>7 DEF peer
<1>9. peer' = [peer EXCEPT !.state = "idle"]
  BY <1>1, <1>8, PeerMoves, PeerWith
<1>10. SP!PeerEnds
  BY <1>1, <1>3, <1>4, <1>5, <1>9, SameLink
     DEF SP!PeerEnds, SP!history, serverState, observations
<1>11. QED
  BY <1>10 DEF StepForServer, SP!Client

LEMMA ClientMeets ==
  ASSUME TransferInv, ~GivesUp, ~RequestsInCallbacks, ClientStep
  PROVE  StepForServer
<1>1. ASSUME NEW op \in Ops, NEW body \in BOOLEAN, NEW full \in BOOLEAN, NEW short \in BOOLEAN,
             SendRequest(op, body, full, short)
      PROVE  StepForServer
  <2>1. SP!PeerStarts(op, body, ~full, TRUE) /\ (~full) \in BOOLEAN
    BY <1>1, SendRequestMeets
  <2>2. QED
    BY <2>1, SameLink DEF StepForServer, SP!Client
<1>2. CASE AbortCurrentRequest
  <2>1. UNCHANGED <<linkUp, request, response, last, current, outcome>>
    BY <1>2 DEF AbortCurrentRequest, link
  <2>2. request.type = "Abort" => abortSent = last.req
    <3>1. current = "Abort" => abortSent = last.req
      BY DEF TransferInv, RequestOK
    <3>2. current # "Abort" /\ request # NoPacket => request.type \in Ops
      <4>1. current # "none" => last.op \in Ops \cup {"none"}
        BY DEF TransferInv, ClientInv, TypeOK, Last
      <4>2. peer.state # "idle" => last.op \in Ops
        BY PeerFields, SameLink DEF TransferInv, SP!ServerInv, SP!PeerOK
      <4>3. request # NoPacket => peer.state # "idle"
        BY SameLink DEF TransferInv, SP!ServerInv, SP!PeerOK
      <4>4. QED
        BY <4>2, <4>3 DEF TransferInv, RequestOK
    <3>3. QED
      BY <3>1, <3>2, OpsNames, NothingUnderWay
  <2>3. UNCHANGED <<abortSent, serverState, observations>>
    BY <2>1, <2>2, NotesStay DEF ClientStep
  <2>4. UNCHANGED peer
    BY <2>1, <2>3, PeerStays DEF Unended
  <2>5. QED
    BY <2>1, <2>3, <2>4, NoStepForServer DEF StepForServer
<1>3. CASE Dealloc
  <2>1. /\ linkUp' = FALSE /\ request' = NoPacket /\ response' = NoResponse
        /\ UNCHANGED <<current, last, outcome>>
    BY <1>3 DEF Dealloc, told
  <2>2. UNCHANGED <<abortSent, serverState, observations>>
    BY <2>1, NothingUnderWay, NotesStay DEF ClientStep
  <2>3. UNCHANGED peer
    BY <2>1, <2>2, PeerStays DEF Unended
  <2>4. QED
    BY <2>1, <2>2, <2>3, BreakForServer
<1>4. CASE SendNextPut
  <2>1. current = "request" /\ response.code = "Continue" /\ last.op = "Put"
    BY <1>4 DEF SendNextPut, MayGoOn, Receives, TransferInv, RequestOK
  <2>2. ~last.final
    BY <2>1 DEF TransferInv, RequestOK
  <2>3. PICK body \in BOOLEAN, full \in BOOLEAN, short \in BOOLEAN :
          /\ body => last.given < MaxPackets
          /\ SendsRequest([type |-> "Put", req |-> last.req, body |-> body,
                           final |-> ~full, parses |-> TRUE])
          /\ last' = [op |-> "Put", req |-> last.req, final |-> ~full,
                      given |-> IF body THEN last.given + 1 ELSE last.given,
                      more |-> full \/ short, short |-> short]
    BY <1>4 DEF SendNextPut, LastChunk
  <2>4. (~full) \in BOOLEAN /\ "Put" \in Ops /\ UNCHANGED current
    BY <1>4 DEF SendNextPut, Ops
  <2>5. SP!PeerContinues(body, ~full)
    BY <2>1, <2>2, <2>3, <2>4, NextPacketMeets
  <2>6. QED
    BY <2>4, <2>5 DEF StepForServer, SP!Client
<1>5. CASE NextPutRaises
  <2>1. /\ current = "request" /\ response.code = "Continue" /\ response' = NoResponse
        /\ UNCHANGED <<linkUp, request, current, last, outcome>>
    BY <1>5 DEF NextPutRaises, MayGoOn, Receives, TransferInv, RequestOK
  <2>2. request'.type # "Abort"
    <3>1. response # NoResponse
      BY <2>1, NothingUnderWay
    <3>2. QED
      BY <2>1, <3>1, SameLink, NothingUnderWay DEF TransferInv, SP!ServerInv, SP!PeerOK
  <2>3. UNCHANGED <<abortSent, serverState, observations>>
    BY <2>1, <2>2, NotesStay DEF ClientStep
  <2>4. UNCHANGED peer
    BY <2>1, <2>3, PeerStays DEF Unended
  <2>5. peer.state = "busy"
    BY <2>1, PeerState DEF TransferInv
  <2>6. SP!PeerStalls
    BY <2>1, <2>3, <2>4, <2>5, SameLink
       DEF SP!PeerStalls, SP!history, serverState, observations
  <2>7. QED
    BY <2>6 DEF StepForServer, SP!Client
<1>6. CASE SendNextGet
  <2>1. /\ current = "request" /\ response.code = "Continue" /\ last.op = "Get"
        /\ UNCHANGED <<current, last>>
        /\ SendsRequest([type |-> "Get", req |-> last.req, body |-> FALSE,
                         final |-> TRUE, parses |-> TRUE])
    BY <1>6 DEF SendNextGet, MayGoOn, Receives, TransferInv, RequestOK
  <2>2. last.final = TRUE
    BY <2>1, CurrentRequest, RequestsAssumption
       DEF TransferInv, RequestOK, ClientInv, TypeOK, Last, Requests
  <2>3. SP!PeerContinues(FALSE, TRUE)
    BY <2>1, <2>2, NextPacketMeets DEF Ops
  <2>4. QED
    BY <2>3 DEF StepForServer, SP!Client
<1>7. CASE SendNextFails
  BY <1>7, FailingMeets DEF SendNextFails, FailsToSend, MayGoOn, Receives
<1>8. CASE IgnoreResponse
  BY <1>8 DEF IgnoreResponse, TransferInv, RequestOK
<1>9. CASE HandleOther
  BY <1>9 DEF HandleOther, HandleOtherIdle, HandleOtherBusy
<1>10. CASE HandleError
  <2>1. linkUp = FALSE
    BY <1>10 DEF HandleError, TransferInv, ClientInv, TypeOK, LinkOK
  <2>2. QED
    BY <1>10, <2>1, FailingMeets DEF HandleError
<1>11. QED
  BY <1>1, <1>2, <1>3, <1>4, <1>5, <1>6, <1>7, <1>8, <1>9, <1>10, PerformAbortMeets,
     HandleFinalMeets DEF ClientStep, Client, User, HandleResponse

-----------------------------------------------------------------------------
(***************************************************************************)
(* Each step of the server is one that the client's specification allows.  *)
(***************************************************************************)
LEMMA ExpectedIsAllowed ==
  ASSUME NEW p, NEW code \in SP!Expected(p)
  PROVE  code \in Answers(p)
  BY SameLink DEF SP!Expected, Answers, Codes

\* Packets are of the current request, over a channel that is up.
LEMMA PacketUnderWay ==
  ASSUME TransferInv, request # NoPacket
  PROVE  linkUp = TRUE /\ response = NoResponse /\ current # "none"
  BY SameLink DEF TransferInv, ClientInv, TypeOK, LinkOK, ChannelOK, RequestOK,
                  SP!ServerInv, SP!PeerOK

\* The server's steps: those that take a packet and those that leave the session.
LEMMA ServerSteps ==
  ASSUME SP!Server
  PROVE  \/ SP!HandleSessionEvent
         \/ UNCHANGED <<link, taken, cut, fate>>
  BY DEF SP!Server, SP!HandleError, SP!Close, SP!ChannelClosed, SP!Closes, SP!link, link

LEMMA ServerMeets ==
  ASSUME TransferInv, ServerStep
  PROVE  Server \/ LinkBreaks \/ UNCHANGED vars
<1>1. /\ SP!Server /\ UNCHANGED clientState
      /\ silent' = (silent \/ LeavesUnanswered)
      /\ silent \in BOOLEAN
  BY SameServer DEF ServerStep, TransferInv, ClientInv, TypeOK
<1>2. ~LeavesUnanswered => UNCHANGED silent
  BY <1>1
<1>3. CASE SP!HandleSessionEvent
  <2>1. request # NoPacket /\ request' = NoPacket /\ SP!TakesPacket
    BY <1>3, SP!SessionEventAnswers, RequestsAssumption, ClientAssumption, SameLink
  <2>2. linkUp = TRUE /\ response = NoResponse
    BY <2>1, PacketUnderWay
  <2>3. CASE /\ UNCHANGED linkUp
             /\ \E code \in SP!Expected(request), body \in BOOLEAN :
                  /\ body => request.type = "Get"
                  /\ response' = [code |-> code, body |-> body]
    <3>1. PICK code \in SP!Expected(request), body \in BOOLEAN :
            /\ body => request.type = "Get"
            /\ response' = [code |-> code, body |-> body]
      BY <2>3
    <3>2. code \in Answers(request) /\ code \in Codes
      BY ExpectedIsAllowed, SameLink DEF SP!Expected
    <3>3. response'.code = code /\ code # "none"
      BY <3>1, <3>2 DEF Codes, FinalCodes
    <3>4. UNCHANGED client
      BY <1>1, <1>2, <3>3, NothingUnderWay
         DEF LeavesUnanswered, client, told, clientState
    <3>5. ServerAnswers
      BY <2>1, <2>2, <2>3, <3>1, <3>2, <3>4 DEF ServerAnswers
    <3>6. QED
      BY <3>5 DEF Server
  <2>4. CASE linkUp' = FALSE /\ UNCHANGED response
    <3>1. UNCHANGED client
      BY <1>1, <1>2, <2>4 DEF LeavesUnanswered, client, told, clientState
    <3>2. QED
      BY <2>1, <2>2, <2>4, <3>1 DEF LinkBreaks, LinkDies
  <2>5. CASE UNCHANGED <<linkUp, response>>
    <3>1. silent' = TRUE
      BY <1>1, <2>1, <2>2, <2>5 DEF LeavesUnanswered
    <3>2. QED
      BY <1>1, <2>1, <2>2, <2>5, <3>1 DEF Server, ServerIsSilent, clientState
  <2>6. QED
    BY <2>1, <2>3, <2>4, <2>5 DEF SP!TakesPacket
<1>4. CASE UNCHANGED link
  BY <1>1, <1>2, <1>4 DEF LeavesUnanswered, link, vars, client, told, clientState
<1>5. QED
  BY <1>1, <1>3, <1>4, ServerSteps

\* The two simulations together.
LEMMA TransferMeets ==
  ASSUME TransferInv, ~GivesUp, ~RequestsInCallbacks, [TransferNext]_transferVars
  PROVE  [Next]_vars /\ [SP!Next]_SP!vars
<1>1. CASE ClientStep
  <2>1. Client
    BY <1>1 DEF ClientStep
  <2>2. StepForServer
    BY <1>1, ClientMeets
  <2>3. QED
    BY <2>1, <2>2 DEF Next, StepForServer, SP!Next
<1>2. CASE ServerStep
  <2>1. SP!Server
    BY <1>2, SameServer DEF ServerStep
  <2>2. QED
    BY <1>2, <2>1, ServerMeets DEF Next, SP!Next
<1>3. CASE ChannelBreaks
  <2>1. UNCHANGED peer
    BY <1>3, PeerStays DEF ChannelBreaks, LinkBreaks, client, told, Unended
  <2>2. SP!LinkBreaks
    BY <1>3, <2>1, SameLink
       DEF ChannelBreaks, LinkBreaks, SP!LinkBreaks, SP!history, serverState, observations
  <2>3. QED
    BY <1>3, <2>2 DEF ChannelBreaks, Next, SP!Next
<1>4. CASE UNCHANGED transferVars
  <2>1. UNCHANGED peer
    BY <1>4, PeerStays DEF transferVars, vars, client, told, Unended
  <2>2. UNCHANGED SP!vars
    BY <1>4, <2>1, NoStepForServer DEF transferVars, vars, link
  <2>3. QED
    BY <1>4, <2>2 DEF transferVars
<1>5. QED
  BY <1>1, <1>2, <1>3, <1>4 DEF TransferNext

-----------------------------------------------------------------------------
(***************************************************************************)
(* What both ends know of each other is kept.                              *)
(***************************************************************************)

\* A step of the client that waits for its end of a request begins a request,
\* goes on with it, sends an Abort, waits, or ends the request, with or without
\* its channel.
Starts == /\ linkUp
          /\ current = "none" /\ current' = "request"
          /\ last'.req = last.req + 1
          /\ last'.op # "Put" => last'.final
          /\ request'.type = last'.op /\ last'.op \in Ops
          /\ response' = NoResponse /\ UNCHANGED <<linkUp, outcome>>

GoesOn == /\ linkUp
          /\ current = "request" /\ current' = "request"
          /\ last'.req = last.req /\ last'.op = last.op
          /\ last'.op # "Put" => last'.final
          /\ request'.type = last.op /\ last.op \in Ops
          /\ response' = NoResponse /\ UNCHANGED <<linkUp, outcome>>

SendsAbort == /\ linkUp
              /\ current = "request" /\ current' = "Abort"
              /\ request'.type = "Abort"
              /\ response' = NoResponse /\ UNCHANGED <<linkUp, last, outcome>>

Waits == /\ UNCHANGED <<current, last, outcome>>
         /\ \/ UNCHANGED <<linkUp, request, response>>
            \/ response' = NoResponse /\ UNCHANGED <<linkUp, request>>
            \/ linkUp' = FALSE /\ request' = NoPacket /\ response' = NoResponse

Fails == /\ current # "none" /\ current' = "none"
         /\ UNCHANGED last
         /\ \E how \in {"failed", "abortFailed"} :
              outcome' = [outcome EXCEPT ![last.req] = how]
         /\ linkUp' = FALSE /\ request' = NoPacket /\ response' = NoResponse

Finishes == /\ current # "none" /\ current' = "none"
            /\ response.code \in FinalCodes
            /\ outcome' = [outcome EXCEPT ![last.req] = Told(FALSE, response.code)]
            /\ request' = NoPacket /\ response' = NoResponse
            /\ UNCHANGED <<linkUp, last>>

ClientEffect == Starts \/ GoesOn \/ SendsAbort \/ Waits \/ Fails \/ Finishes

LEMMA FailingEffect ==
  ASSUME TransferInv, current # "none", Ends(TRUE, "none"), UNCHANGED last,
         \/ LinkDies
         \/ linkUp = FALSE /\ UNCHANGED link
  PROVE  ClientEffect
<1>1. linkUp' = FALSE /\ request' = NoPacket /\ response' = NoResponse
  BY DEF LinkDies, link, TransferInv, ChannelOK
<1>2. Told(TRUE, "none") \in {"failed", "abortFailed"}
  BY DEF Told
<1>3. QED
  BY <1>1, <1>2 DEF Ends, Fails, ClientEffect

LEMMA ClientHasEffect ==
  ASSUME TransferInv, ~GivesUp, ~RequestsInCallbacks, Client
  PROVE  ClientEffect
<1>1. ASSUME NEW op \in Ops, NEW body \in BOOLEAN, NEW full \in BOOLEAN, NEW short \in BOOLEAN,
             SendRequest(op, body, full, short)
      PROVE  ClientEffect
  <2>1. /\ last' = [op |-> op, req |-> last.req + 1, final |-> ~full,
                    given |-> IF body THEN 1 ELSE 0, more |-> full \/ short, short |-> short]
        /\ SendsRequest([type |-> op, req |-> last.req + 1, body |-> body,
                         final |-> ~full, parses |-> TRUE])
        /\ op # "Put" => ~full
    BY <1>1 DEF SendRequest, Begins, LastChunk
  <2>2. Starts
    BY <1>1, <2>1 DEF SendRequest, SendsRequest, told, Starts
  <2>3. QED
    BY <2>2 DEF ClientEffect
<1>2. CASE AbortCurrentRequest
  BY <1>2 DEF AbortCurrentRequest, link, Waits, ClientEffect
<1>3. CASE Dealloc
  BY <1>3 DEF Dealloc, told, Waits, ClientEffect
<1>4. CASE PerformAbort
  <2>1. current = "request" /\ UNCHANGED last
    BY <1>4 DEF PerformAbort, Receives, TransferInv, RequestOK
  <2>2. CASE /\ SendsRequest([type |-> "Abort", req |-> last.req, body |-> FALSE,
                              final |-> TRUE, parses |-> TRUE])
             /\ current' = "Abort"
             /\ UNCHANGED outcome
    BY <2>1, <2>2 DEF SendsRequest, SendsAbort, ClientEffect
  <2>3. CASE /\ LinkDies
             /\ current' = "none"
             /\ outcome' = [outcome EXCEPT ![last.req] = "abortFailed"]
    BY <2>1, <2>3 DEF LinkDies, Fails, ClientEffect
  <2>4. QED
    BY <1>4, <2>2, <2>3 DEF PerformAbort, told
<1>5. CASE SendNextPut
  <2>1. current = "request" /\ last.op = "Put"
    BY <1>5 DEF SendNextPut, MayGoOn, Receives, TransferInv, RequestOK
  <2>2. /\ last'.req = last.req /\ last'.op = "Put"
        /\ request'.type = "Put" /\ response' = NoResponse
    BY <1>5, SendNextPutEffect DEF TransferInv
  <2>3. linkUp /\ UNCHANGED <<linkUp, current, outcome>>
    BY <1>5 DEF SendNextPut, SendsRequest, told
  <2>4. QED
    BY <2>1, <2>2, <2>3 DEF GoesOn, ClientEffect, Ops
<1>6. CASE NextPutRaises
  BY <1>6 DEF NextPutRaises, Waits, ClientEffect
<1>7. CASE SendNextGet
  <2>1. current = "request" /\ last.op = "Get" /\ last.req \in Requests
    BY <1>7, CurrentRequest
       DEF SendNextGet, MayGoOn, Receives, TransferInv, RequestOK
  <2>2. last.final
    BY <2>1, CurrentRequest, RequestsAssumption DEF TransferInv, RequestOK, Requests
  <2>3. /\ linkUp /\ request'.type = "Get" /\ response' = NoResponse
        /\ UNCHANGED <<linkUp, current, last, outcome>>
    BY <1>7 DEF SendNextGet, SendsRequest
  <2>4. QED
    BY <2>1, <2>2, <2>3 DEF GoesOn, ClientEffect, Ops
<1>8. CASE SendNextFails
  BY <1>8, FailingEffect DEF SendNextFails, FailsToSend, MayGoOn, Receives
<1>9. CASE HandleFinal
  BY <1>9 DEF HandleFinal, Receives, EndsIdle, Ends, Finishes, ClientEffect
<1>10. CASE IgnoreResponse
  BY <1>10 DEF IgnoreResponse, TransferInv, RequestOK
<1>11. CASE HandleOther
  BY <1>11 DEF HandleOther, HandleOtherIdle, HandleOtherBusy
<1>12. CASE HandleError
  <2>1. linkUp = FALSE
    BY <1>12 DEF HandleError, TransferInv, ClientInv, TypeOK, LinkOK
  <2>2. QED
    BY <1>12, <2>1, FailingEffect DEF HandleError
<1>13. QED
  BY <1>1, <1>2, <1>3, <1>4, <1>5, <1>6, <1>7, <1>8, <1>9, <1>10, <1>11, <1>12
     DEF Client, User, HandleResponse

LEMMA ClientKeepsChannel ==
  ASSUME TransferInv, ClientEffect
  PROVE  ChannelOK'
<1>1. /\ linkUp = FALSE => request = NoPacket /\ response = NoResponse
      /\ \A r \in Requests : outcome[r] \in {"failed", "abortFailed"} => linkUp = FALSE
      /\ outcome \in [Requests -> Outcomes] /\ linkUp \in BOOLEAN
  BY DEF TransferInv, ChannelOK, ClientInv, TypeOK, LinkOK
<1>2. CASE Starts \/ GoesOn \/ SendsAbort
  BY <1>1, <1>2 DEF Starts, GoesOn, SendsAbort, ChannelOK
<1>3. CASE Waits
  BY <1>1, <1>3 DEF Waits, ChannelOK
<1>4. CASE Fails
  BY <1>1, <1>4 DEF Fails, ChannelOK
<1>5. CASE Finishes
  <2>1. Told(FALSE, response.code) \notin {"failed", "abortFailed"}
    BY <1>5 DEF Finishes, Told, FinalCodes
  <2>2. \A r \in Requests : outcome'[r] \in {"failed", "abortFailed"} => linkUp = FALSE
    BY <1>1, <1>5, <2>1 DEF Finishes
  <2>3. QED
    BY <1>5, <2>2 DEF Finishes, ChannelOK
<1>6. QED
  BY <1>2, <1>3, <1>4, <1>5 DEF ClientEffect

LEMMA ClientKeepsRequest ==
  ASSUME TransferInv, ClientEffect,
         abortSent' = IF request'.type = "Abort" THEN last.req ELSE abortSent
  PROVE  RequestOK'
<1>1. /\ last.req \in 0..MaxRequests /\ MaxRequests \in Nat
      /\ last.op \in Ops \cup {"none"}
      /\ abortSent \in 0..last.req
      /\ NoResponse.code # "Continue"
  BY LastType, RequestsAssumption, NothingUnderWay
     DEF TransferInv, ClientInv, TypeOK, Last, RequestOK
<1>2. request.type = "Abort" => current = "Abort"
  BY <1>1, NothingUnderWay, OpsNames DEF TransferInv, RequestOK
<1>3. CASE Starts
  <2>1. abortSent' = abortSent /\ request'.type # "Abort"
    BY <1>3, OpsNames DEF Starts
  <2>2. abortSent' \in 0..last'.req /\ abortSent' # last'.req
    BY <1>1, <1>3, <2>1 DEF Starts
  <2>3. QED
    BY <1>1, <1>3, <2>1, <2>2 DEF Starts, RequestOK
<1>4. CASE GoesOn
  <2>1. abortSent' = abortSent /\ abortSent # last.req
    BY <1>4, OpsNames DEF GoesOn, TransferInv, RequestOK
  <2>2. QED
    BY <1>1, <1>4, <2>1 DEF GoesOn, RequestOK
<1>5. CASE SendsAbort
  <2>1. abortSent' = last.req
    BY <1>5 DEF SendsAbort
  <2>2. QED
    BY <1>1, <1>5, <2>1 DEF SendsAbort, TransferInv, RequestOK
<1>6. CASE Waits
  <2>1. abortSent' = abortSent
    BY <1>2, <1>6, NothingUnderWay DEF Waits, TransferInv, RequestOK
  <2>2. QED
    BY <1>1, <1>6, <2>1 DEF Waits, TransferInv, RequestOK
<1>7. CASE Fails \/ Finishes
  <2>1. abortSent' = abortSent
    BY <1>7, NothingUnderWay DEF Fails, Finishes
  <2>2. /\ current' = "none" /\ last' = last
        /\ request' = NoPacket /\ response' = NoResponse
    BY <1>7 DEF Fails, Finishes
  <2>3. QED
    BY <1>1, <2>1, <2>2 DEF TransferInv, RequestOK
<1>8. QED
  BY <1>3, <1>4, <1>5, <1>6, <1>7 DEF ClientEffect

\* The streams stay as they are; what ends is a request whose stream is back.
LEMMA ClientKeepsEnds ==
  ASSUME TransferInv, ClientEffect, PutSuccessIsWhole', NumbersOK',
         UNCHANGED fate, last'.req = last.req => UNCHANGED <<taken, cut>>
  PROVE  EndsOK'
<1>1. /\ outcome \in [Requests -> Outcomes]
      /\ NoResponse.code \notin FinalCodes
      /\ StreamsEndTogether /\ PutArrives
      /\ response.code \in FinalCodes => fate[last.req] # "open"
  BY NothingUnderWay DEF TransferInv, ClientInv, TypeOK, EndsOK, FinalCodes
<1>2. current # "none" =>
        last.req \in Requests /\ last.req # 0 /\ outcome[last.req] = "none"
  BY CurrentRequest
<1>3. CASE Starts \/ GoesOn \/ SendsAbort
  <2>1. current' # "none" /\ response' = NoResponse /\ UNCHANGED outcome
    BY <1>3 DEF Starts, GoesOn, SendsAbort
  <2>2. outcome'[last'.req] = "none"
    BY <2>1 DEF NumbersOK
  <2>3. QED
    BY <1>1, <2>1, <2>2 DEF EndsOK, StreamsEndTogether, PutArrives
<1>4. CASE Waits
  <2>1. UNCHANGED <<last, outcome, taken, cut>> /\ (UNCHANGED response \/ response' = NoResponse)
    BY <1>4 DEF Waits
  <2>2. QED
    BY <1>1, <2>1 DEF EndsOK, StreamsEndTogether, PutArrives
<1>5. CASE Fails
  <2>1. outcome'[last.req] \in {"failed", "abortFailed"}
    BY <1>1, <1>2, <1>5 DEF Fails
  <2>2. \A r \in Requests : r # last.req => outcome'[r] = outcome[r]
    BY <1>1, <1>5 DEF Fails
  <2>3. UNCHANGED <<last, taken, cut>> /\ response' = NoResponse
    BY <1>5 DEF Fails
  <2>4. QED
    BY <1>1, <2>1, <2>2, <2>3 DEF EndsOK, StreamsEndTogether, PutArrives, FinalCodes
<1>6. CASE Finishes
  <2>1. /\ UNCHANGED <<last, taken, cut>> /\ response' = NoResponse
        /\ current # "none" /\ response.code \in FinalCodes
    BY <1>6 DEF Finishes
  <2>2. outcome'[last.req] = Told(FALSE, response.code)
    BY <1>1, <1>2, <1>6 DEF Finishes
  <2>3. \A r \in Requests : r # last.req => outcome'[r] = outcome[r]
    BY <1>1, <1>6 DEF Finishes
  <2>4. StreamsEndTogether'
    BY <1>1, <2>1, <2>3 DEF StreamsEndTogether
  <2>5. ASSUME last.op = "Put", last.given > 0, outcome'[last.req] = "Success"
        PROVE  (taken = last.given \/ cut) /\ fate[last.req] = "back"
    <3>1. current = "request" /\ response.code = "Success"
      BY <2>1, <2>2, <2>5 DEF Told, TransferInv, ClientInv, TypeOK
    <3>2. peer.state = "busy"
      BY <3>1, PeerState DEF TransferInv
    <3>3. SP!PutSucceeds
      BY <2>5, <3>1, <3>2, PeerFields DEF SP!PutSucceeds
    <3>4. QED
      BY <3>3, PeerFields DEF TransferInv, SP!PutOK, SP!NoFalseSuccess
  <2>6. PutArrives'
    BY <2>1, <2>5 DEF PutArrives, PutSuccessIsWhole, PutSucceeded
  <2>7. QED
    BY <1>1, <2>1, <2>4, <2>6 DEF EndsOK
<1>7. QED
  BY <1>3, <1>4, <1>5, <1>6 DEF ClientEffect

LEMMA ServerKeepsChannel ==
  ASSUME TransferInv, ServerStep
  PROVE  ChannelOK'
<1>1. /\ linkUp = FALSE => request = NoPacket /\ response = NoResponse
      /\ \A r \in Requests : outcome[r] \in {"failed", "abortFailed"} => linkUp = FALSE
      /\ UNCHANGED outcome
  BY DEF TransferInv, ChannelOK, ServerStep, clientState
<1>2. CASE SP!HandleSessionEvent
  <2>1. request # NoPacket /\ request' = NoPacket /\ SP!TakesPacket
    BY <1>2, SP!SessionEventAnswers, RequestsAssumption, ClientAssumption, SameLink
  <2>2. linkUp = TRUE /\ response = NoResponse
    BY <2>1, PacketUnderWay
  <2>3. UNCHANGED linkUp \/ (linkUp' = FALSE /\ UNCHANGED response)
    BY <2>1 DEF SP!TakesPacket
  <2>4. QED
    BY <1>1, <2>1, <2>2, <2>3 DEF ChannelOK
<1>3. CASE UNCHANGED link
  BY <1>1, <1>3 DEF link, ChannelOK
<1>4. QED
  BY <1>2, <1>3, SameServer, ServerSteps DEF ServerStep

LEMMA ServerKeepsRequest ==
  ASSUME TransferInv, ServerStep
  PROVE  RequestOK'
<1>1. UNCHANGED <<current, last, abortSent>>
  BY DEF ServerStep, clientState
<1>2. CASE SP!HandleSessionEvent
  <2>1. request # NoPacket /\ request' = NoPacket /\ SP!TakesPacket
    BY <1>2, SP!SessionEventAnswers, RequestsAssumption, ClientAssumption, SameLink
  <2>2. /\ response = NoResponse /\ current # "none"
        /\ request.type = IF current = "Abort" THEN "Abort" ELSE last.op
    BY <2>1, PacketUnderWay DEF TransferInv, RequestOK
  <2>3. response'.code = "Continue" =>
          request.type = "Get" \/ (request.type = "Put" /\ ~request.final)
    BY <2>1, <2>2, NothingUnderWay DEF SP!TakesPacket, SP!Expected
  <2>4. current = "request" /\ last.op = "Put" => request.final = last.final
    BY <2>1 DEF TransferInv, PutOK, PutUnderWay
  <2>5. current = "request" \/ current = "Abort"
    BY <2>2 DEF TransferInv, ClientInv, TypeOK
  <2>6. response'.code = "Continue" => /\ current = "request"
                                       /\ last.op \in {"Put", "Get"}
                                       /\ last.op = "Put" => ~last.final
    BY <2>2, <2>3, <2>4, <2>5
  <2>7. QED
    BY <1>1, <2>1, <2>2, <2>6 DEF TransferInv, RequestOK
<1>3. CASE UNCHANGED link
  BY <1>1, <1>3 DEF link, TransferInv, RequestOK
<1>4. QED
  BY <1>2, <1>3, SameServer, ServerSteps DEF ServerStep

\* The only stream a server has open is that of the request going on.
LEMMA ServerKeepsEnds ==
  ASSUME TransferInv, ServerStep, SP!StreamOK', UNCHANGED peer
  PROVE  EndsOK'
<1>1. UNCHANGED <<current, last, outcome>>
  BY DEF ServerStep, clientState
<1>2. CASE SP!HandleSessionEvent
  <2>1. request # NoPacket /\ running' = TRUE
    BY <1>2, SP!SessionEventTakes, RequestsAssumption, ClientAssumption, SameLink
       DEF TransferInv, SP!ServerInv, SP!TypeOK
  <2>2. current # "none"
    BY <2>1, PacketUnderWay
  <2>3. last.req \in Requests /\ last.req # 0 /\ outcome[last.req] = "none"
    BY <2>2, CurrentRequest
  <2>4. /\ \A r \in Requests : fate'[r] = "open" => handler'.stream = r
        /\ handler'.stream # 0 => handler'.stream = peer'.req
        /\ response'.code \in FinalCodes => handler'.stream = 0
    BY <2>1, SameLink
       DEF SP!StreamOK, SP!NoStreamForgotten, SP!StreamIsOfRequest
  <2>5. \A r \in Requests : fate'[r] = "open" => r = last.req
    <3>1. \A r \in Requests : r # 0
      BY RequestsAssumption DEF Requests
    <3>2. QED
      BY <2>4, <3>1, PeerFields
  <2>6. response'.code \in FinalCodes => fate'[last.req] # "open"
    BY <2>3, <2>4
  <2>7. StreamsEndTogether'
    BY <1>1, <2>3, <2>5 DEF StreamsEndTogether, FinalCodes
  <2>8. PutArrives'
    BY <1>1, <2>3 DEF PutArrives
  <2>9. QED
    BY <1>1, <2>6, <2>7, <2>8 DEF EndsOK
<1>3. CASE UNCHANGED <<link, taken, cut, fate>>
  BY <1>1, <1>3 DEF link, TransferInv, EndsOK, StreamsEndTogether, PutArrives
<1>4. QED
  BY <1>2, <1>3, SameServer, ServerSteps DEF ServerStep

\* The invariant of a transfer: those of the two ends, each with the other in
\* place of its environment, and what they know of each other.
LEMMA TransferInvStep ==
  ASSUME ~GivesUp, ~RequestsInCallbacks
  PROVE  TransferInv /\ [TransferNext]_transferVars => TransferInv'
<1> SUFFICES ASSUME TransferInv, [TransferNext]_transferVars
             PROVE  TransferInv'
  OBVIOUS
<1>1. [Next]_vars /\ [SP!Next]_SP!vars
  BY TransferMeets
<1>2. ClientInv' /\ PutOK'
  BY <1>1, ClientInvStep, PutStep DEF TransferInv
<1>3. SP!ServerInv'
  BY <1>1, SP!ServerInvStep, RequestsAssumption, ClientAssumption DEF TransferInv
<1>4. SP!PutOK'
  BY <1>1, SP!KeepsStep, RequestsAssumption, ClientAssumption DEF TransferInv
<1>5. CASE ClientStep
  <2>1. ClientEffect
    BY <1>5, ClientHasEffect DEF ClientStep
  <2>2. /\ UNCHANGED fate
        /\ last'.req = last.req => UNCHANGED <<taken, cut>>
        /\ abortSent' = IF request'.type = "Abort" THEN last.req ELSE abortSent
    BY <1>5, NotesStay DEF ClientStep, serverState, observations
  <2>3. PutSuccessIsWhole' /\ NumbersOK'
    BY <1>2 DEF PutOK, ClientInv
  <2>4. QED
    BY <1>2, <1>3, <1>4, <2>1, <2>2, <2>3, ClientKeepsChannel, ClientKeepsRequest,
       ClientKeepsEnds DEF TransferInv
<1>6. CASE ServerStep
  <2>1. UNCHANGED peer
    BY <1>6, PeerStays DEF ServerStep, clientState, Unended
  <2>2. SP!StreamOK'
    BY <1>3 DEF SP!ServerInv
  <2>3. QED
    BY <1>2, <1>3, <1>4, <1>6, <2>1, <2>2, ServerKeepsChannel, ServerKeepsRequest,
       ServerKeepsEnds DEF TransferInv
<1>7. CASE ChannelBreaks
  <2>1. /\ linkUp' = FALSE /\ request' = NoPacket /\ response' = NoResponse
        /\ UNCHANGED <<current, last, outcome, abortSent, fate, taken, cut>>
    BY <1>7 DEF ChannelBreaks, LinkBreaks, LinkDies, client, told, serverState, observations
  <2>2. NoResponse.code \notin FinalCodes \cup {"Continue"}
    BY NothingUnderWay DEF FinalCodes
  <2>3. ChannelOK' /\ RequestOK' /\ EndsOK'
    BY <2>1, <2>2 DEF TransferInv, ChannelOK, RequestOK, EndsOK, StreamsEndTogether, PutArrives
  <2>4. QED
    BY <1>2, <1>3, <1>4, <2>3 DEF TransferInv
<1>8. CASE UNCHANGED transferVars
  <2>1. UNCHANGED <<linkUp, request, response, current, last, outcome, abortSent, fate, taken, cut>>
    BY <1>8 DEF transferVars, vars, link, client, told, serverState, observations
  <2>2. ChannelOK' /\ RequestOK' /\ EndsOK'
    BY <2>1 DEF TransferInv, ChannelOK, RequestOK, EndsOK, StreamsEndTogether, PutArrives
  <2>3. QED
    BY <1>2, <1>3, <1>4, <2>2 DEF TransferInv
<1>9. QED
  BY <1>5, <1>6, <1>7, <1>8 DEF TransferNext

LEMMA TransferInvInit == TransferInit => TransferInv
<1> SUFFICES ASSUME TransferInit PROVE TransferInv
  OBVIOUS
<1>1. ClientInv /\ PutOK
  BY ClientInvInit, NothingUnderWay
     DEF TransferInit, Init, LinkInit, PutOK, PutUnderWay, PutSuccessIsWhole,
         PutSucceeded, ReadToEnd
<1>2. SP!Init
  BY SameServer DEF TransferInit
<1>3. SP!ServerInv /\ SP!PutOK
  BY <1>2, SP!ServerInvInit, SP!KeepsInit, RequestsAssumption, ClientAssumption
<1>4. NoResponse.code \notin FinalCodes \cup {"Continue"}
  BY NothingUnderWay DEF FinalCodes
<1>5. /\ linkUp = TRUE /\ request = NoPacket /\ response = NoResponse
      /\ current = "none" /\ last.req = 0 /\ abortSent = 0
      /\ outcome = [r \in Requests |-> "none"]
      /\ 0 \in 0..0
  BY DEF TransferInit, Init, LinkInit
<1>6. ChannelOK /\ RequestOK
  BY <1>4, <1>5 DEF ChannelOK, RequestOK
<1>7. EndsOK
  BY <1>4, <1>5 DEF EndsOK, StreamsEndTogether, PutArrives, FinalCodes
<1>8. QED
  BY <1>1, <1>3, <1>6, <1>7 DEF TransferInv

LEMMA TransferInvariant ==
  ASSUME ~GivesUp, ~RequestsInCallbacks
  PROVE  TransferSpec => []TransferInv
  BY TransferInvInit, TransferInvStep, PTL DEF TransferSpec

\* The client of a transfer is one that the specification of the server allows:
\* it sends an Abort only after Continue, a next packet only of a request that
\* can go on, and a new request only when the last has been answered.
THEOREM ClientIsThePeer ==
  ASSUME ~GivesUp, ~RequestsInCallbacks
  PROVE  TransferSpec => ServerMeetsItsClient
<1>1. TransferInv /\ [TransferNext]_transferVars => [S!Next]_S!vars
  <2> SUFFICES ASSUME TransferInv, [TransferNext]_transferVars
               PROVE  [S!Next]_S!vars
    OBVIOUS
  <2>1. [SP!Next]_SP!vars
    BY TransferMeets
  <2>2. SP!vars' = S!vars'
    BY DEF SP!vars, S!vars, SP!link, S!link, SP!history, S!history
  <2>3. QED
    BY <2>1, <2>2, SameServer DEF SP!Next, S!Next
<1>2. TransferInit => S!Init
  BY DEF TransferInit
<1>3. QED
  BY <1>1, <1>2, TransferInvariant, PTL DEF TransferSpec, ServerMeetsItsClient, S!Spec

\* And the server is one that the specification of the client allows: it answers
\* each packet at most once, with Continue only where the request can go on.
THEOREM ServerIsThePeer ==
  ASSUME ~GivesUp, ~RequestsInCallbacks
  PROVE  TransferSpec => ClientMeetsItsServer
<1>1. TransferInv /\ [TransferNext]_transferVars => [Next]_vars
  BY TransferMeets
<1>2. TransferInit => Init
  BY DEF TransferInit
<1>3. QED
  BY <1>1, <1>2, TransferInvariant, PTL DEF TransferSpec, ClientMeetsItsServer, Spec

\* Every packet of a Put that its sender is told has succeeded is in the
\* receiver's stream, and none is missing that the sender's stream had to give,
\* unless one of the two streams took or gave only a part.
THEOREM PutsArrive ==
  ASSUME ~GivesUp, ~RequestsInCallbacks
  PROVE  TransferSpec => []PutArrives
<1>1. TransferInv => PutArrives
  BY DEF TransferInv, EndsOK
<1>2. QED
  BY <1>1, TransferInvariant, PTL

\* No stream of the receiver is left open for a request whose end the sender was
\* told of over a channel that is up.
THEOREM StreamsEndWithTheirRequests ==
  ASSUME ~GivesUp, ~RequestsInCallbacks
  PROVE  TransferSpec => []StreamsEndTogether
<1>1. TransferInv => StreamsEndTogether
  BY DEF TransferInv, EndsOK
<1>2. QED
  BY <1>1, TransferInvariant, PTL
=============================================================================

--------------------------- MODULE OBEXCallsProofs ---------------------------
(***************************************************************************)
(* Proofs about OBEXCalls, for any number of requests and of parts.        *)
(***************************************************************************)
EXTENDS OBEXCalls, TLAPS

-----------------------------------------------------------------------------
(***************************************************************************)
(* The inductive invariant.                                                *)
(***************************************************************************)
Codes    == {"OK", "Continue", "NotImplemented", "InternalError"}
Outcomes == [req : Nat, code : Codes] \cup {NoAnswer}
Packets  == [req : Nat, op : Ops, part : 1..Parts, last : BOOLEAN, whole : BOOLEAN]
Scripts  == {"none", "connect", "put", "disconnect", "returned", "raised"}
Stages   == {"idle", "accept", "waiting", "closing", "closed", "returned", "raised"}
Pieces   == [req : Nat, part : 1..Parts, whole : BOOLEAN]

\* Each variable has its type.
TypeOK ==
  /\ call \in Ops \cup {"idle"}
  /\ conn \in BOOLEAN /\ busy \in BOOLEAN
  /\ error \in {"none", "ok", "dead", "failed"}
  /\ answer \in Outcomes /\ put \in Outcomes
  /\ pending \in Nat /\ made \in Nat
  /\ script \in Scripts /\ source \in Sources
  /\ up \in BOOLEAN
  /\ request \in Packets \cup {NoPacket}
  /\ response \in Codes \cup {"none"}
  /\ stage \in Stages
  /\ gotfile \in BOOLEAN /\ gotdisconnect \in BOOLEAN
  /\ disconnected \in BOOLEAN /\ fault \in BOOLEAN
  /\ file \in Seq(Pieces)
  /\ received \subseteq Nat

\* What sendfile is at is what it calls.
ScriptInv == call # "idle" => \/ script = "none"
                              \/ script = "connect" /\ call = "Connect"
                              \/ script = "put" /\ call = "Put"
                              \/ script = "disconnect" /\ call = "Disconnect"

\* No more is read than the file has, and of a file that is exact all of it.
ReadInv == /\ request.part = Parts => request.last
           /\ source = "exact" => request.whole /\ (request.last => request.part = Parts)

\* The packet on the channel is of the request the client is at, the last one
\* made; a call that waits has made it.
RequestInv ==
  /\ pending \in {0, made}
  /\ ~conn => pending = 0
  /\ request # NoPacket => /\ request.req = pending /\ pending # 0
                           /\ call # "idle" => request.op = call
                           /\ request.op # "Connect" => up
                           /\ ReadInv
  /\ response # "none" => request # NoPacket /\ up
  /\ response = "Continue" => request.op = "Put" /\ request.part < Parts

\* Of a file that is exact the parts up to the one before the packet are the last
\* ones that were written, so is that of the packet once it is answered.
LastAre(n) == n <= Len(file)
              /\ \A k \in 1..n : file[Len(file) - n + k] = Part(request.req, k)
FileInv ==
  request.op = "Put" /\ source = "exact" =>
    /\ response = "none" => LastAre(request.part - 1)
    /\ response = "Continue" => LastAre(request.part)
    /\ response = "OK" => request.req \in received

\* An answer OK to a Put says that the file is received, if it is exact.
Tells(resp) == resp.code = "OK" /\ source = "exact" => resp.req \in received
AnswersInv ==
  /\ call = "Put" /\ ~busy /\ error = "ok" => Tells(answer)
  /\ script \in {"disconnect", "returned"} => Tells(put)
  /\ script = "returned" => put.code = "OK"

Inv == TypeOK /\ ScriptInv /\ RequestInv /\ FileInv /\ AnswerIsOwn /\ AnswersInv

-----------------------------------------------------------------------------
(***************************************************************************)
(* What a step leaves alone.                                               *)
(***************************************************************************)
LEMMA PartsAre == Parts \in Nat /\ 1 \in 1..Parts /\ MaxRequests \in Nat
BY CallsAssumption

LEMMA NoPacketIs ==
  /\ NoPacket.req = 0 /\ NoPacket.op = "none" /\ NoPacket.part = 0
  /\ NoPacket.op \notin Ops
  /\ NoAnswer \in Outcomes /\ NoAnswer.code = "none" /\ NoAnswer.req = 0
BY DEF NoPacket, NoAnswer, Ops, Outcomes

LEMMA NoPieces == <<>> \in Seq(Pieces)
OBVIOUS

\* A packet is of one of the operations.
LEMMA PacketIs ==
  ASSUME TypeOK
  PROVE  /\ request # NoPacket <=> request.op \in Ops
         /\ request # NoPacket => /\ request.req \in Nat /\ request.part \in 1..Parts
                                  /\ request.op \in Ops
BY NoPacketIs DEF TypeOK, Packets

\* A step of the program that receives.
LEMMA SenderFrame ==
  ASSUME Inv, UNCHANGED sender, received \subseteq received'
  PROVE  ScriptInv' /\ AnswerIsOwn' /\ AnswersInv'
BY DEF Inv, ScriptInv, AnswerIsOwn, AnswersInv, Tells, sender, waiting

\* A step that sends nothing, but may close the channel and drop the client.
LEMMA ChannelFrame ==
  ASSUME Inv, made' = made, call' \in {call, "idle"}, received \subseteq received',
         source' = source, pending' = 0 \/ conn' \in {conn, TRUE},
         \/ UNCHANGED <<pending, channel, file>>
         \/ request' = NoPacket /\ response' = "none" /\ pending' \in {0, pending}
  PROVE  RequestInv' /\ FileInv'
<1>1. CASE UNCHANGED <<pending, channel, file>>
  BY <1>1 DEF Inv, RequestInv, ReadInv, FileInv, LastAre, channel
<1>2. CASE request' = NoPacket /\ response' = "none" /\ pending' \in {0, pending}
  BY <1>2, NoPacketIs DEF Inv, RequestInv, FileInv, Ops
<1>3. QED
  BY <1>1, <1>2

LEMMA ClosesIs ==
  ASSUME ChannelCloses
  PROVE  /\ up' \in BOOLEAN /\ request' \in Packets \cup {NoPacket}
         /\ response' \in Codes \cup {"none"}
         /\ request' = NoPacket /\ response' = "none"
BY DEF ChannelCloses

\* A packet that is sent, of a request of the client.
LEMMA SendsIs ==
  ASSUME Inv, NEW q \in Nat, NEW op \in Ops, NEW k \in 1..Parts, SendsPart(q, op, k)
  PROVE  /\ request' \in Packets /\ request' # NoPacket
         /\ request'.req = q /\ request'.op = op /\ request'.part = k
         /\ source' = source => ReadInv'
<1>1. PICK last \in BOOLEAN, whole \in BOOLEAN :
        /\ request' = [req |-> q, op |-> op, part |-> k, last |-> last, whole |-> whole]
        /\ k = Parts => last
        /\ (op = "Put" /\ source = "inexact") \/ (whole /\ (last => k = Parts))
  BY DEF SendsPart
<1>2. /\ request' \in Packets /\ request'.req = q /\ request'.op = op /\ request'.part = k
      /\ request'.last = last /\ request'.whole = whole
  BY <1>1 DEF Packets
<1>3. QED
  BY <1>1, <1>2, NoPacketIs DEF ReadInv

-----------------------------------------------------------------------------
(***************************************************************************)
(* Calls.                                                                  *)
(***************************************************************************)
LEMMA ResetIs ==
  ASSUME Reset
  PROVE  /\ busy' = TRUE /\ error' = "none" /\ answer' \in Outcomes
         /\ busy' \in BOOLEAN /\ error' \in {"none", "ok", "dead", "failed"}
BY NoPacketIs DEF Reset

\* sendfile goes on with what the call returned.
LEMMA AdvanceIs ==
  ASSUME Inv, NEW resp \in Outcomes, Advance(resp), UNCHANGED <<received, source>>,
         script = "put" => Tells(resp)
  PROVE  /\ script' \in Scripts /\ put' \in Outcomes
         /\ script' \in {"disconnect", "returned"} => Tells(put)'
         /\ script' = "returned" => put'.code = "OK"
<1>1. /\ script \in Scripts /\ put \in Outcomes
      /\ script \in {"disconnect", "returned"} => Tells(put)
      /\ script = "returned" => put.code = "OK"
  BY DEF Inv, TypeOK, AnswersInv
<1>2. CASE script = "put"
  BY <1>1, <1>2 DEF Advance, Tells, Scripts
<1>3. CASE script = "connect"
  BY <1>1, <1>3 DEF Advance, Tells, Scripts
<1>4. CASE script = "disconnect"
  BY <1>1, <1>4 DEF Advance, Tells, Scripts
<1>5. CASE script \in {"none", "returned", "raised"}
  BY <1>1, <1>5 DEF Advance, Tells, Scripts
<1>6. QED
  BY <1>1, <1>2, <1>3, <1>4, <1>5 DEF Scripts

LEMMA SendFileInv ==
  ASSUME Inv, SendFile
  PROVE  Inv'
<1>1. /\ call = "idle" /\ ~conn /\ script' = "connect" /\ put' = NoAnswer
      /\ source' \in Sources
      /\ UNCHANGED <<call, conn, waiting, pending, made, channel, receiver>>
  BY DEF SendFile
<1>2. TypeOK'
  BY <1>1, NoPacketIs DEF Inv, TypeOK, Scripts, waiting, channel, receiver
<1>3. ScriptInv' /\ AnswerIsOwn' /\ AnswersInv'
  BY <1>1 DEF Inv, ScriptInv, AnswerIsOwn, AnswersInv
<1>4. request = NoPacket
  BY <1>1 DEF Inv, RequestInv
<1>5. RequestInv' /\ FileInv'
  BY <1>1, <1>4, NoPacketIs DEF Inv, RequestInv, FileInv, Ops, channel
<1>6. QED
  BY <1>2, <1>3, <1>5 DEF Inv

LEMMA StartsInv ==
  ASSUME Inv, NEW op \in Ops, Starts(op)
  PROVE  Inv'
<1>1. /\ call = "idle" /\ MayCall(op) /\ Reset
      /\ op = "Connect" \/ up
      /\ call' = op /\ conn' = TRUE /\ made' = made + 1 /\ pending' = made + 1
      /\ SendsPart(made + 1, op, 1) /\ response = "none" /\ response' = "none"
      /\ UNCHANGED <<up, script, source, put, receiver>>
  BY DEF Starts, MayCall
<1>2. /\ made + 1 \in Nat /\ request' \in Packets /\ ReadInv'
      /\ request'.req = made + 1 /\ request'.op = op /\ request'.part = 1
  BY <1>1, PartsAre, SendsIs DEF Inv, TypeOK
<1>3. TypeOK'
  BY <1>1, <1>2, ResetIs DEF Inv, TypeOK, receiver
<1>4. ScriptInv'
  <2>1. op # "none"
    BY DEF Ops
  <2>2. QED
    BY <1>1, <2>1 DEF Inv, TypeOK, Scripts, ScriptInv, MayCall
<1>5. RequestInv'
  <2>1. pending' # 0
    BY <1>1 DEF Inv, TypeOK
  <2>2. QED
    BY <1>1, <1>2, <2>1 DEF RequestInv
<1>6. FileInv'
  <2>1. file' \in Seq(Pieces)
    BY <1>3 DEF TypeOK
  <2>2. Len(file') \in Nat /\ 1..0 = {}
    BY <2>1
  <2>3. QED
    BY <1>1, <1>2, <2>2 DEF FileInv, LastAre
<1>7. AnswerIsOwn'
  BY ResetIs, <1>1 DEF AnswerIsOwn
<1>8. AnswersInv'
  BY ResetIs, <1>1 DEF Inv, AnswersInv, Tells, receiver
<1>9. QED
  BY <1>3, <1>4, <1>5, <1>6, <1>7, <1>8 DEF Inv

\* A call that is not begun.
LEMMA NoStart ==
  ASSUME Inv, call = "idle", Advance(NoAnswer), UNCHANGED <<call, made, source, receiver>>,
         pending' = 0 \/ conn' \in {conn, TRUE}, Reset \/ UNCHANGED waiting,
         conn' \in BOOLEAN, CloseTransport \/ UNCHANGED <<pending, channel>>
  PROVE  Inv'
<1>1. /\ script' \in Scripts /\ put' \in Outcomes
      /\ script' \in {"disconnect", "returned"} => Tells(put)'
      /\ script' = "returned" => put'.code = "OK"
  BY NoPacketIs, AdvanceIs DEF Tells, receiver
<1>2. /\ busy' \in BOOLEAN /\ error' \in {"none", "ok", "dead", "failed"}
      /\ answer' \in Outcomes
  BY ResetIs DEF Inv, TypeOK, waiting
<1>3. /\ up' \in BOOLEAN /\ request' \in Packets \cup {NoPacket}
      /\ response' \in Codes \cup {"none"} /\ pending' \in Nat
  BY ClosesIs DEF CloseTransport, Inv, TypeOK, channel
<1>4. TypeOK'
  BY <1>1, <1>2, <1>3 DEF Inv, TypeOK, receiver
<1>5. ScriptInv' /\ AnswerIsOwn' /\ AnswersInv'
  BY <1>1 DEF ScriptInv, AnswerIsOwn, AnswersInv
<1>6. RequestInv' /\ FileInv'
  BY ChannelFrame, ClosesIs DEF CloseTransport, receiver
<1>7. QED
  BY <1>4, <1>5, <1>6 DEF Inv

LEMMA NoStartsInv ==
  ASSUME Inv, NEW op \in Ops, StartFails(op) \/ HeadersRaise(op) \/ NotMade(op)
  PROVE  Inv'
<1>1. CASE StartFails(op)
  BY <1>1, NoStart DEF StartFails, MayCall, CloseTransport, Inv, TypeOK
<1>2. CASE HeadersRaise(op)
  BY <1>2, NoStart DEF HeadersRaise, MayCall, CloseTransport
<1>3. CASE NotMade(op)
  BY <1>3, NoStart DEF NotMade, MayCall, Inv, TypeOK
<1>4. QED
  BY <1>1, <1>2, <1>3

\* A call that waits ends with resp.
LEMMA CallEndsInv ==
  ASSUME Inv, NEW resp \in Outcomes, CallEnds(resp), script = "put" => Tells(resp),
         \/ CloseTransport
         \/ UNCHANGED <<conn, pending, channel>>
         \/ UNCHANGED <<conn, pending, up>> /\ request' = NoPacket /\ response' = "none"
  PROVE  Inv'
<1>1. /\ call' = "idle" /\ error' = "none" /\ answer' = NoAnswer
      /\ UNCHANGED <<busy, made, source, receiver>> /\ Advance(resp)
  BY DEF CallEnds
<1>2. /\ script' \in Scripts /\ put' \in Outcomes
      /\ script' \in {"disconnect", "returned"} => Tells(put)'
      /\ script' = "returned" => put'.code = "OK"
  BY <1>1, AdvanceIs DEF receiver
<1>3. /\ up' \in BOOLEAN /\ request' \in Packets \cup {NoPacket}
      /\ response' \in Codes \cup {"none"} /\ pending' \in Nat /\ conn' \in BOOLEAN
  <2>1. CASE CloseTransport
    BY <2>1, ClosesIs DEF CloseTransport
  <2>2. CASE UNCHANGED <<conn, pending, channel>>
    BY <2>2 DEF Inv, TypeOK, channel
  <2>3. CASE UNCHANGED <<conn, pending, up>> /\ request' = NoPacket /\ response' = "none"
    BY <2>3 DEF Inv, TypeOK
  <2>4. QED
    BY <2>1, <2>2, <2>3
<1>4. TypeOK'
  BY <1>1, <1>2, <1>3, NoPacketIs DEF Inv, TypeOK, receiver
<1>5. ScriptInv' /\ AnswerIsOwn' /\ AnswersInv'
  BY <1>1, <1>2 DEF ScriptInv, AnswerIsOwn, AnswersInv
<1>6. RequestInv' /\ FileInv'
  BY <1>1, ChannelFrame, ClosesIs DEF CloseTransport, receiver
<1>7. QED
  BY <1>4, <1>5, <1>6 DEF Inv

LEMMA ReturnsInv ==
  ASSUME Inv, Returns \/ Interrupted
  PROVE  Inv'
<1>1. CASE Returns
  <2> DEFINE resp == IF error # "ok" THEN NoAnswer ELSE answer
  <2>1. call # "idle" /\ ~busy /\ CallEnds(resp)
        /\ (CloseTransport \/ UNCHANGED <<conn, pending, channel>>)
    BY <1>1 DEF Returns
  <2>2. resp \in Outcomes
    BY NoPacketIs DEF Inv, TypeOK
  <2>3. script = "put" => Tells(resp)
    BY <2>1, NoPacketIs DEF Inv, ScriptInv, AnswersInv, Tells
  <2> HIDE DEF resp
  <2>4. QED
    BY <2>1, <2>2, <2>3, CallEndsInv
<1>2. CASE Interrupted
  <2>1. NoAnswer \in Outcomes /\ Tells(NoAnswer)
    BY NoPacketIs DEF Tells
  <2>2. QED
    BY <1>2, <2>1, CallEndsInv DEF Interrupted
<1>3. QED
  BY <1>1, <1>2

-----------------------------------------------------------------------------
(***************************************************************************)
(* The client of LightAquaBlue.                                            *)
(***************************************************************************)
LEMMA GoesOnInv ==
  ASSUME Inv, GoesOn
  PROVE  Inv'
<1>1. /\ pending # 0 /\ up /\ response = "Continue" /\ response' = "none"
      /\ SendsPart(pending, "Put", request.part + 1)
      /\ UNCHANGED <<sender, up, receiver>>
  BY DEF GoesOn
<1>2. /\ request # NoPacket /\ request.op = "Put" /\ request.req = pending
      /\ request.part \in 1..Parts /\ request.part < Parts
      /\ source = "exact" => LastAre(request.part)
      /\ call # "idle" => call = "Put"
  BY <1>1, PacketIs DEF Inv, RequestInv, FileInv
<1>3. "Put" \in Ops /\ request.part + 1 \in 1..Parts /\ pending \in Nat
      /\ request.part + 1 - 1 = request.part
  BY <1>2, PartsAre DEF Ops, Inv, TypeOK
<1>4. /\ request' \in Packets /\ request'.req = pending /\ request'.op = "Put"
      /\ request'.part = request.part + 1 /\ ReadInv'
  BY <1>1, <1>3, SendsIs DEF sender
<1>5. TypeOK'
  BY <1>1, <1>4 DEF Inv, TypeOK, sender, waiting, receiver
<1>6. RequestInv'
  BY <1>1, <1>2, <1>4 DEF Inv, RequestInv, sender
<1>7. FileInv'
  <2>1. request'.part - 1 = request.part /\ request'.req = request.req
    BY <1>2, <1>3, <1>4
  <2>2. file' = file /\ source' = source /\ response' = "none"
    BY <1>1 DEF sender, receiver
  <2>3. source = "exact" => LastAre(request.part - 1)'
    BY <1>2, <2>1, <2>2 DEF LastAre
  <2>4. QED
    BY <2>2, <2>3 DEF FileInv
<1>8. ScriptInv' /\ AnswerIsOwn' /\ AnswersInv'
  BY <1>1, SenderFrame DEF receiver
<1>9. QED
  BY <1>5, <1>6, <1>7, <1>8 DEF Inv

\* The request is over, with an outcome that is that of its last packet.
LEMMA FinishedInv ==
  ASSUME Inv, pending # 0, NEW err \in {"ok", "dead", "failed"}, NEW resp \in Outcomes,
         FinishedRequest(err, resp), conn' \in BOOLEAN, up' \in BOOLEAN,
         pending' = 0, request' = NoPacket, response' = "none",
         err = "ok" => /\ resp.req = pending
                       /\ call = "Put" /\ source = "exact" /\ resp.code = "OK" =>
                            pending \in received
  PROVE  Inv'
<1>1. /\ busy' = FALSE /\ error' = err /\ answer' = resp
      /\ UNCHANGED <<call, made, script, source, put, receiver>>
  BY DEF FinishedRequest, Finished
<1>2. pending = made
  BY DEF Inv, RequestInv
<1>3. TypeOK'
  BY <1>1 DEF Inv, TypeOK, receiver
<1>4. ScriptInv' /\ AnswerIsOwn' /\ AnswersInv'
  BY <1>1, <1>2 DEF Inv, ScriptInv, AnswerIsOwn, AnswersInv, Tells, receiver
<1>5. RequestInv' /\ FileInv'
  BY NoPacketIs DEF RequestInv, FileInv, Ops
<1>6. QED
  BY <1>3, <1>4, <1>5 DEF Inv

LEMMA ClientStepsInv ==
  ASSUME Inv, ClientSteps
  PROVE  Inv'
<1>1. CASE Finishes
  <2> DEFINE resp == [req |-> pending, code |-> response]
  <2>1. /\ pending # 0 /\ response \notin {"none", "Continue"}
        /\ FinishedRequest("ok", resp)
        /\ pending' = 0 /\ request' = NoPacket /\ response' = "none"
        /\ UNCHANGED <<conn, up>>
    BY <1>1 DEF Finishes
  <2>2. resp \in Outcomes /\ resp.req = pending /\ resp.code = response
    BY <2>1 DEF Inv, TypeOK, Outcomes
  <2> HIDE DEF resp
  <2>3. call = "Put" /\ source = "exact" /\ response = "OK" => pending \in received
    BY <2>1 DEF Inv, RequestInv, FileInv
  <2>4. QED
    BY <2>1, <2>2, <2>3, FinishedInv DEF Inv, TypeOK
<1>2. CASE Dies
  BY <1>2, FinishedInv, NoPacketIs DEF Dies, CloseTransport, ChannelCloses
<1>3. CASE GivesUp
  BY <1>3, FinishedInv, NoPacketIs DEF GivesUp, Inv, TypeOK
<1>4. CASE ReadRaises
  <2>1. request' = NoPacket /\ response' = "none" /\ UNCHANGED up
    BY <1>4 DEF ReadRaises
  <2>2. CASE call = "idle"
    <3>1. UNCHANGED <<sender, receiver>>
      BY <1>4, <2>2 DEF ReadRaises
    <3>2. TypeOK'
      BY <2>1, <3>1 DEF Inv, TypeOK, sender, waiting, receiver
    <3>3. RequestInv' /\ FileInv'
      BY <2>1, <3>1, ChannelFrame DEF sender, receiver
    <3>4. QED
      BY <3>1, <3>2, <3>3, SenderFrame DEF Inv, receiver
  <2>3. CASE call # "idle"
    <3>1. CallEnds(NoAnswer) /\ UNCHANGED <<conn, pending>>
      BY <1>4, <2>3 DEF ReadRaises
    <3>2. NoAnswer \in Outcomes /\ Tells(NoAnswer)
      BY NoPacketIs DEF Tells
    <3>3. QED
      BY <2>1, <3>1, <3>2, CallEndsInv
  <2>4. QED
    BY <2>2, <2>3
<1>5. QED
  BY <1>1, <1>2, <1>3, <1>4, GoesOnInv DEF ClientSteps

-----------------------------------------------------------------------------
(***************************************************************************)
(* recvfile.                                                               *)
(***************************************************************************)
\* A step that leaves the file, and may close the channel.
LEMMA ReceiverStep ==
  ASSUME Inv, UNCHANGED <<sender, file, received>>, UNCHANGED channel \/ ChannelCloses,
         stage' \in Stages, gotfile' \in BOOLEAN, gotdisconnect' \in BOOLEAN,
         disconnected' \in BOOLEAN, fault' \in BOOLEAN
  PROVE  Inv'
<1>1. TypeOK'
  BY ClosesIs DEF Inv, TypeOK, sender, waiting, channel
<1>2. RequestInv' /\ FileInv'
  BY ChannelFrame, ClosesIs DEF sender
<1>3. QED
  BY <1>1, <1>2, SenderFrame DEF Inv

LEMMA RecvFileInv ==
  ASSUME Inv, RecvFile
  PROVE  Inv'
<1>1. /\ ~up /\ stage' \in {"accept", "raised"} /\ gotfile' = FALSE /\ gotdisconnect' = FALSE
      /\ disconnected' = FALSE /\ fault' = FALSE /\ file' = <<>>
      /\ UNCHANGED <<sender, channel, received>>
  BY DEF RecvFile
<1>2. TypeOK'
  <2>1. file' \in Seq(Pieces)
    BY <1>1, NoPieces
  <2>2. stage' \in Stages
    BY <1>1 DEF Stages
  <2>3. QED
    BY <1>1, <2>1, <2>2 DEF Inv, TypeOK, sender, waiting, channel
<1>3. RequestInv'
  BY <1>1 DEF Inv, RequestInv, ReadInv, sender, channel
<1>4. request.op # "Put"
  BY <1>1, NoPacketIs DEF Inv, RequestInv, Ops
<1>5. FileInv'
  BY <1>1, <1>4 DEF FileInv, channel
<1>6. QED
  BY <1>1, <1>2, <1>3, <1>5, SenderFrame DEF Inv

LEMMA AcceptsInv ==
  ASSUME Inv, Accepts
  PROVE  Inv'
<1>1. /\ up' = TRUE /\ stage' = "waiting"
      /\ UNCHANGED <<sender, request, response, gotfile, gotdisconnect, disconnected,
                     fault, file, received>>
  BY DEF Accepts
<1>2. TypeOK'
  BY <1>1 DEF Inv, TypeOK, sender, waiting, Stages
<1>3. RequestInv' /\ FileInv'
  BY <1>1 DEF Inv, RequestInv, ReadInv, FileInv, LastAre, sender
<1>4. QED
  BY <1>1, <1>2, <1>3, SenderFrame DEF Inv

\* A request that is no Put is answered.
LEMMA AnswersRequest ==
  ASSUME Inv, NEW op \in Ops \ {"Put"}, Serves(op), NEW code \in Codes \ {"Continue"},
         Answers(code), UNCHANGED <<sender, stage, gotfile, file, received>>,
         gotdisconnect' \in BOOLEAN, disconnected' \in BOOLEAN, fault' \in BOOLEAN
  PROVE  Inv'
<1>1. /\ up /\ request.op = op /\ response' = code /\ UNCHANGED <<up, request>>
  BY DEF Serves, Answers
<1>2. request # NoPacket
  BY <1>1, NoPacketIs
<1>3. TypeOK'
  BY <1>1 DEF Inv, TypeOK, sender, waiting
<1>4. RequestInv' /\ FileInv'
  BY <1>1, <1>2 DEF Inv, RequestInv, ReadInv, FileInv, sender
<1>5. QED
  BY <1>3, <1>4, SenderFrame DEF Inv

LEMMA ServeOtherInv ==
  ASSUME Inv, ServeOther \/ ServeDisconnect
  PROVE  Inv'
<1>1. {"Connect", "Delete", "Get", "SetPath", "Disconnect"} \subseteq Ops \ {"Put"}
      /\ {"OK", "NotImplemented"} \subseteq Codes \ {"Continue"}
  BY DEF Ops, Codes
<1>2. CASE ServeOther
  <2>1. UNCHANGED <<sender, stage, gotfile, gotdisconnect, disconnected, file, received>>
    BY <1>2 DEF ServeOther
  <2>2. ASSUME NEW op \in Ops \ {"Put"}, NEW code \in {"OK", "NotImplemented"},
               Serves(op), Answers(code), UNCHANGED fault
        PROVE  Inv'
    BY <1>1, <2>1, <2>2, AnswersRequest DEF Inv, TypeOK
  <2>3. ASSUME CannotAnswer PROVE Inv'
    BY <2>1, <2>3, ReceiverStep DEF CannotAnswer, ErrorOccurred, Inv, TypeOK
  <2>4. QED
    BY <1>1, <1>2, <2>2, <2>3 DEF ServeOther
<1>3. CASE ServeDisconnect
  <2>1. Serves("Disconnect") /\ gotdisconnect' = TRUE
        /\ UNCHANGED <<sender, stage, gotfile, file, received>>
    BY <1>3 DEF ServeDisconnect
  <2>2. CASE Answers("OK") /\ disconnected' = TRUE /\ UNCHANGED fault
    BY <1>1, <2>1, <2>2, AnswersRequest DEF Inv, TypeOK
  <2>3. CASE CannotAnswer /\ UNCHANGED disconnected
    BY <2>1, <2>3, ReceiverStep DEF CannotAnswer, ErrorOccurred, Inv, TypeOK
  <2>4. QED
    BY <1>3, <2>2, <2>3 DEF ServeDisconnect
<1>4. QED
  BY <1>2, <1>3

\* What the file holds after one more part.
LEMMA PartIsLast ==
  ASSUME file \in Seq(Pieces), NEW n \in 1..Parts, LastAre(n - 1),
         file' = Append(file, Part(request.req, n)), request' = request
  PROVE  LastAre(n)'
<1>1. /\ Len(file) \in Nat /\ Len(file') = Len(file) + 1 /\ n - 1 <= Len(file) /\ n \in Nat
      /\ file'[Len(file) + 1] = Part(request.req, n)
      /\ \A i \in 1..Len(file) : file'[i] = file[i]
      /\ \A k \in 1..(n - 1) : file[Len(file) - (n - 1) + k] = Part(request.req, k)
  BY PartsAre DEF LastAre
<1>2. ASSUME NEW k \in 1..n PROVE file'[Len(file') - n + k] = Part(request.req, k)
  <2>1. CASE k = n
    BY <1>1, <2>1
  <2>2. CASE k # n
    <3>1. k \in 1..(n - 1) /\ Len(file) - (n - 1) + k \in 1..Len(file)
          /\ Len(file') - n + k = Len(file) - (n - 1) + k
      BY <1>1, <2>2
    <3>2. QED
      BY <1>1, <3>1
  <2>3. QED
    BY <2>1, <2>2
<1>3. QED
  BY <1>1, <1>2 DEF LastAre

LEMMA LastIsWhole ==
  ASSUME file \in Seq(Pieces), LastAre(Parts)
  PROVE  Whole(file, request.req)
<1>1. /\ Len(file) - Parts \in 0..Len(file) /\ (Len(file) - Parts) + Parts <= Len(file)
      /\ \A k \in 1..Parts : file[(Len(file) - Parts) + k] = Part(request.req, k)
  BY PartsAre DEF LastAre
<1>2. QED
  BY <1>1 DEF Whole

LEMMA ServePutInv ==
  ASSUME Inv, ServePut
  PROVE  Inv'
<1> DEFINE piece == Piece(request)
           code == IF request.last THEN "OK" ELSE "Continue"
<1>1. /\ up /\ request.op = "Put" /\ response = "none"
      /\ UNCHANGED <<sender, stage, gotdisconnect, disconnected>>
  BY DEF ServePut, Serves
<1>2. /\ request # NoPacket /\ request.req \in Nat /\ request.part \in 1..Parts
  BY <1>1, NoPacketIs, PacketIs DEF Inv
<1>3. /\ piece \in Pieces /\ file \in Seq(Pieces) /\ Append(file, piece) \in Seq(Pieces)
  <2>1. request.whole \in BOOLEAN
    BY <1>2 DEF Inv, TypeOK, Packets
  <2>2. QED
    BY <1>2, <2>1 DEF Piece, Pieces, Inv, TypeOK
<1>4. /\ request.part = Parts => request.last
      /\ source = "exact" => /\ LastAre(request.part - 1)
                             /\ piece = Part(request.req, request.part)
                             /\ request.last => request.part = Parts
  BY <1>1, <1>2 DEF Inv, FileInv, RequestInv, ReadInv, Part, Piece
<1>8. code \in {"OK", "Continue"} /\ (code = "OK" <=> request.last)
  OBVIOUS
<1> HIDE DEF piece, code
<1>5. CASE /\ Write(code)
           /\ gotfile' = (gotfile \/ response' # "Continue")
           /\ received' = received \cup {r \in {request.req} : Whole(file', r)}
           /\ UNCHANGED <<up, request>>
  <2>1. received \subseteq received' /\ received' \subseteq Nat
    BY <1>2, <1>5 DEF Inv, TypeOK
  <2>2. CASE file' = Append(file, piece) /\ response' = code /\ UNCHANGED fault
    <3>1. file' \in Seq(Pieces)
      BY <1>3, <2>2
    <3>2. source = "exact" => LastAre(request.part)'
      BY <1>2, <1>3, <1>4, <1>5, <2>2, PartIsLast
    <3>3. source = "exact" /\ request.last => request.req \in received'
      <4>1. ASSUME source = "exact", request.last PROVE Whole(file, request.req)'
        <5>1. LastAre(Parts)'
          BY <1>4, <1>5, <3>2, <4>1
        <5>2. (file \in Seq(Pieces) /\ LastAre(Parts) => Whole(file, request.req))'
          BY LastIsWhole, PTL
        <5>3. QED
          BY <3>1, <5>1, <5>2
      <4>2. QED
        BY <1>5, <4>1
    <3>4. TypeOK'
      BY <1>1, <1>5, <1>8, <2>1, <2>2, <3>1 DEF Inv, TypeOK, sender, waiting, Codes
    <3>5. RequestInv'
      BY <1>1, <1>2, <1>4, <1>5, <1>8, <2>2, PartsAre DEF Inv, RequestInv, ReadInv, sender
    <3>6. FileInv'
      BY <1>1, <1>5, <1>8, <2>2, <3>2, <3>3 DEF FileInv, sender
    <3>7. QED
      BY <1>1, <2>1, <3>4, <3>5, <3>6, SenderFrame DEF Inv
  <2>3. CASE UNCHANGED file /\ response' = "InternalError" /\ fault' = TRUE
    <3>1. TypeOK'
      BY <1>1, <1>5, <2>1, <2>3 DEF Inv, TypeOK, sender, waiting, Codes
    <3>2. RequestInv' /\ FileInv'
      BY <1>1, <1>2, <1>5, <2>3 DEF Inv, RequestInv, ReadInv, FileInv, sender
    <3>3. QED
      BY <1>1, <2>1, <3>1, <3>2, SenderFrame DEF Inv
  <2>4. QED
    BY <1>5, <2>2, <2>3 DEF Write, ErrorOccurred, piece
<1>6. CASE CannotAnswer /\ file' \in {file, Append(file, piece)} /\ UNCHANGED <<gotfile, received>>
  <2>1. ChannelCloses /\ fault' = TRUE /\ file' \in Seq(Pieces)
    BY <1>3, <1>6 DEF CannotAnswer, ErrorOccurred
  <2>2. TypeOK'
    BY <1>1, <1>6, <2>1, ClosesIs DEF Inv, TypeOK, sender, waiting
  <2>3. RequestInv' /\ FileInv'
    BY <1>1, <1>6, <2>1, ChannelFrame, ClosesIs DEF sender
  <2>4. QED
    BY <1>1, <1>6, <2>2, <2>3, SenderFrame DEF Inv
<1>7. QED
  BY <1>5, <1>6 DEF ServePut, piece, code

\* Steps of run, and the end of the channel.
LEMMA RunsInv ==
  ASSUME Inv, LinkDies \/ LinkLost \/ Run \/ RunInterrupted
  PROVE  Inv'
<1>1. {"closing", "closed", "returned", "raised"} \subseteq Stages
  BY DEF Stages
<1>2. CASE LinkDies
  BY <1>2, ReceiverStep DEF LinkDies, receiver, Inv, TypeOK
<1>3. CASE LinkLost
  BY <1>3, ReceiverStep DEF LinkLost, ErrorOccurred, Inv, TypeOK
<1>4. CASE Run
  <2>1. UNCHANGED <<sender, gotfile, gotdisconnect, disconnected, fault, file, received>>
    BY <1>4 DEF Run
  <2>2. stage' \in Stages /\ (UNCHANGED channel \/ ChannelCloses)
    BY <1>1, <1>4 DEF Run, RunEndsHere, GoesOnTo
  <2>3. QED
    BY <2>1, <2>2, ReceiverStep DEF Inv, TypeOK
<1>5. CASE RunInterrupted
  BY <1>1, <1>5, ReceiverStep DEF RunInterrupted, Inv, TypeOK
<1>6. QED
  BY <1>2, <1>3, <1>4, <1>5

-----------------------------------------------------------------------------
(***************************************************************************)
(* The theorems.                                                           *)
(***************************************************************************)
LEMMA InitInv ==
  ASSUME Init
  PROVE  Inv
<1>1. /\ call = "idle" /\ conn = FALSE /\ busy = FALSE /\ error = "none"
      /\ answer = NoAnswer /\ pending = 0 /\ made = 0 /\ script = "none" /\ put = NoAnswer
      /\ source \in Sources
      /\ up = FALSE /\ request = NoPacket /\ response = "none"
      /\ stage = "idle" /\ gotfile = FALSE /\ gotdisconnect = FALSE
      /\ disconnected = FALSE /\ fault = FALSE /\ file = <<>> /\ received = {}
  BY CallsAssumption DEF Init
<1>2. TypeOK
  <2>1. file \in Seq(Pieces)
    BY <1>1, NoPieces
  <2>2. QED
    BY <1>1, <2>1, NoPacketIs DEF TypeOK, Scripts, Stages
<1>3. QED
  BY <1>1, <1>2, NoPacketIs
     DEF Inv, ScriptInv, RequestInv, FileInv, AnswerIsOwn, AnswersInv, Ops

LEMMA StepInv ==
  ASSUME Inv, [Next]_vars
  PROVE  Inv'
<1>1. CASE UNCHANGED vars
  <2>1. UNCHANGED <<sender, file, received, stage, gotfile, gotdisconnect, disconnected, fault>>
        /\ UNCHANGED channel
    BY <1>1 DEF vars, receiver
  <2>2. QED
    BY <2>1, ReceiverStep DEF Inv, TypeOK
<1>2. QED
  BY <1>1, SendFileInv, ReturnsInv, ClientStepsInv, StartsInv, NoStartsInv, RecvFileInv,
     AcceptsInv, ServeOtherInv, ServePutInv, RunsInv
     DEF Next, ServerSteps

\* The inductive invariant holds of every behaviour.
THEOREM Invariance == Spec => []Inv
<1>1. Init => Inv
  BY InitInv
<1>2. Inv /\ [Next]_vars => Inv'
  BY StepInv
<1>3. QED
  BY <1>1, <1>2, PTL DEF Spec

\* The attributes of OBEXClient and the server's flags have their types.
THEOREM TypeCorrect == Spec => []TypeOK
<1>1. Inv => TypeOK
  BY DEF Inv
<1>2. QED
  BY <1>1, Invariance, PTL

\* A wait of OBEXClient is over only with the outcome of the request its call
\* has made, however many calls before it were interrupted.
THEOREM OwnAnswers == Spec => []AnswerIsOwn
<1>1. Inv => AnswerIsOwn
  BY DEF Inv
<1>2. QED
  BY <1>1, Invariance, PTL

\* A file of text with one octet for a character, read short only at its end,
\* that sendfile has sent without an error was written whole by the program at
\* the other end, however many packets it takes.
THEOREM WhatIsSentIsReceived == Spec => []SentIsReceived
<1>1. Inv => SentIsReceived
  BY DEF Inv, AnswersInv, Tells, SentIsReceived
<1>2. QED
  BY <1>1, Invariance, PTL
=============================================================================

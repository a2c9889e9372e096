----------------------------- MODULE OBEXClient -----------------------------
(***************************************************************************)
(* BBBluetoothOBEXClient and the BBOBEXRequest classes of LightAquaBlue:   *)
(* one client at its end of a session.                                     *)
(*                                                                         *)
(* Calls of the user and events of the session come one at a time.  A      *)
(* callback may call the client: an abort there has the effect of one made *)
(* right after the step (or none, as in the first callback of a Put, made  *)
(* before the request is the current one); only a request made from the    *)
(* callback that ends another one differs, see EndsIdle.  A call that      *)
(* returns an error leaves the client as it was and is no step.            *)
(*                                                                         *)
(* The server is any that keeps to OBEX: it answers each packet at most    *)
(* once, and Continue only where the request can go on.                    *)
(***************************************************************************)
EXTENDS OBEXLink

CONSTANTS
  MaxPackets,          \* bound: packets with a body in a Put
  GivesUp,             \* the client may end a request though the channel is up
  RequestsInCallbacks  \* the delegate makes a request when told the end of one

ASSUME ClientAssumption == /\ MaxPackets \in Nat
                           /\ GivesUp \in BOOLEAN
                           /\ RequestsInCallbacks \in BOOLEAN

VARIABLES
  alive,            \* the client has not been deallocated
  current,          \* mCurrentRequest: none, a request of the user or an Abort
  aborting,         \* mAborting
  hasConnectionID,  \* mHasConnectionID
  last,             \* the last request the user began and how far it has come
  outcome,          \* what the delegate was told of each request
  asked,            \* the requests abortCurrentRequest took effect on
  missed,           \* the Gets of which data did not reach the stream
  raised,           \* reading the stream of a Put failed
  silent            \* the server left a packet without an answer

told   == <<outcome, asked, missed, raised, silent>>
client == <<alive, current, aborting, hasConnectionID, last, told>>
vars   == <<link, client>>

\* final: the last packet was sent; given: packets with a body that were sent;
\* more: the stream has not been read to its end; short: it gave fewer octets
\* than it was asked for, before its end.
Last == [op : Ops \cup {"none"}, req : 0..MaxRequests, final : BOOLEAN,
         given : 0..MaxPackets, more : BOOLEAN, short : BOOLEAN]

Outcomes == FinalCodes \cup {"none", "failed", "aborted", "abortFailed"}

Init == /\ LinkInit
        /\ alive = TRUE
        /\ current = "none"
        /\ aborting = FALSE
        /\ hasConnectionID = FALSE
        /\ last = [op |-> "none", req |-> 0, final |-> FALSE, given |-> 0,
                   more |-> FALSE, short |-> FALSE]
        /\ outcome = [r \in Requests |-> "none"]
        /\ asked = {}
        /\ missed = {}
        /\ raised = FALSE
        /\ silent = FALSE

-----------------------------------------------------------------------------
(***************************************************************************)
(* The user's calls.                                                       *)
(***************************************************************************)

\* Mutation of LastChunk: every chunk is taken for the last.
LastChunkAlways(full) == TRUE

\* A chunk that does not fill its packet is the last, also when the stream only
\* had no more octets at hand.
LastChunk(full) == ~full

\* The session takes the first packet of a request.  That of a Put from a stream
\* has a body, if only an empty one; a Put without a stream is to delete.
Begins(op, body, full, short) ==
  /\ full => body /\ ~short
  /\ short => body
  /\ body => op = "Put" /\ MaxPackets > 0
  /\ last.req < MaxRequests
  /\ SendsRequest([type |-> op, req |-> last.req + 1, body |-> body,
                   final |-> LastChunk(full), parses |-> TRUE])
  /\ last' = [op |-> op, req |-> last.req + 1, final |-> LastChunk(full),
              given |-> IF body THEN 1 ELSE 0, more |-> full \/ short,
              short |-> short]

\* Mutation of SendRequest: a current request is replaced.
SendRequestBusy(op, body, full, short) ==
  /\ alive
  /\ request = NoPacket /\ response = NoResponse
  /\ Begins(op, body, full, short)
  /\ current' = "request"
  /\ UNCHANGED <<alive, aborting, hasConnectionID, told>>

\* The session takes no packet while one is under way.
SendRequest(op, body, full, short) ==
  /\ alive
  /\ current = "none"
  /\ request = NoPacket /\ response = NoResponse
  /\ Begins(op, body, full, short)
  /\ current' = "request"
  /\ UNCHANGED <<alive, aborting, hasConnectionID, told>>

\* Only marks the request: the Abort goes out when the server has answered.
AbortCurrentRequest ==
  /\ alive
  /\ current # "none"
  /\ ~aborting
  /\ aborting' = TRUE
  /\ asked' = asked \cup {last.req}
  /\ UNCHANGED <<link, alive, current, hasConnectionID, last, outcome, missed,
                 raised, silent>>

\* The object is deallocated and closes the channel.
Dealloc ==
  /\ alive
  /\ alive' = FALSE
  /\ linkUp' = FALSE
  /\ request' = NoPacket
  /\ response' = NoResponse
  /\ UNCHANGED <<current, aborting, hasConnectionID, last, told>>

-----------------------------------------------------------------------------
(***************************************************************************)
(* The end of a request.                                                   *)
(***************************************************************************)

\* The delegate is told by the method of the request or by that of an Abort.
Told(error, code) == IF current = "Abort"
                     THEN IF error THEN "abortFailed" ELSE "aborted"
                     ELSE IF error THEN "failed" ELSE code

\* Mutation of Ends: the mark of an abort is kept.
EndsMarked(error, code) ==
  /\ current' = "none"
  /\ outcome' = [outcome EXCEPT ![last.req] = Told(error, code)]
  /\ UNCHANGED <<alive, aborting, asked, raised, silent>>

\* finishedCurrentRequestWithError: the delegate is told and the request
\* forgotten.
Ends(error, code) ==
  /\ current' = "none"
  /\ aborting' = FALSE
  /\ outcome' = [outcome EXCEPT ![last.req] = Told(error, code)]
  /\ UNCHANGED <<alive, asked, raised, silent>>

\* The same with a session that is idle: the delegate may begin a request when
\* it is told of the end, and this new request is the one that is forgotten.
EndsIdle(error, code) ==
  /\ Ends(error, code)
  /\ \/ /\ request' = NoPacket
        /\ response' = NoResponse
        /\ UNCHANGED <<linkUp, last>>
     \/ /\ RequestsInCallbacks
        /\ \E op \in Ops, body, full, short \in BOOLEAN : Begins(op, body, full, short)

\* The next packet cannot be sent: the channel is gone, or the session or the
\* stream has no room or no data for it.
FailsToSend == \/ Ends(TRUE, "none") /\ LinkDies /\ UNCHANGED last
               \/ GivesUp /\ EndsIdle(TRUE, "none")

-----------------------------------------------------------------------------
(***************************************************************************)
(* handleSessionEvent.                                                     *)
(***************************************************************************)
Receives(codes) == /\ alive
                   /\ current # "none"
                   /\ response.code \in codes

\* The data in a response goes to the stream of the Get.  It is lost when the
\* headers cannot be parsed or writing fails; neither is noticed.
ReceivesData ==
  \/ UNCHANGED missed
  \/ /\ last.op = "Get" /\ current = "request" /\ response.body
     /\ missed' = missed \cup {last.req}

\* A connection id is kept from the answer to a Connect to that to a Disconnect.
NotesConnectionID ==
  IF current = "request" /\ last.op = "Disconnect" THEN hasConnectionID' = FALSE
  ELSE \/ UNCHANGED hasConnectionID
       \/ current = "request" /\ last.op = "Connect" /\ hasConnectionID' = TRUE

\* performAbort, on Continue.
PerformAbort ==
  /\ Receives({"Continue"})
  /\ aborting
  /\ \/ /\ SendsRequest([type |-> "Abort", req |-> last.req, body |-> FALSE,
                         final |-> TRUE, parses |-> TRUE])
        /\ current' = "Abort"
        /\ UNCHANGED <<alive, aborting, last, told>>
     \/ /\ LinkDies
        /\ current' = "none"
        /\ aborting' = FALSE
        /\ outcome' = [outcome EXCEPT ![last.req] = "abortFailed"]
        /\ UNCHANGED <<alive, last, asked, missed, raised, silent>>
  /\ UNCHANGED hasConnectionID

\* Mutation of MayGoOn: the mark of an abort is not looked at.
MayGoOnMarked(op) == Receives({"Continue"}) /\ last.op = op

\* A request that is not to be aborted goes on after Continue.
MayGoOn(op) == Receives({"Continue"}) /\ last.op = op /\ ~aborting

\* The next chunk of a Put; an empty one makes a packet without a body.
SendNextPut ==
  /\ MayGoOn("Put")
  /\ \E body, full, short \in BOOLEAN :
       /\ full => body /\ ~short
       /\ short => body
       /\ body => last.given < MaxPackets
       /\ SendsRequest([type |-> "Put", req |-> last.req, body |-> body,
                        final |-> LastChunk(full), parses |-> TRUE])
       /\ last' = [op |-> "Put", req |-> last.req, final |-> LastChunk(full),
                   given |-> IF body THEN last.given + 1 ELSE last.given,
                   more |-> full \/ short, short |-> short]
  /\ UNCHANGED <<alive, current, aborting, hasConnectionID, told>>

\* Reading it fails: an exception leaves the request where it is.
NextPutRaises ==
  /\ MayGoOn("Put")
  /\ response' = NoResponse
  /\ raised' = TRUE
  /\ UNCHANGED <<linkUp, request, alive, current, aborting, hasConnectionID,
                 last, outcome, asked, missed, silent>>

\* Mutation of SendNextGet: the data is taken and no more is asked for.
SendNextGetForgets ==
  /\ MayGoOn("Get")
  /\ ReceivesData
  /\ response' = NoResponse
  /\ UNCHANGED <<linkUp, request, alive, current, aborting, hasConnectionID,
                 last, outcome, asked, raised, silent>>

SendNextGet ==
  /\ MayGoOn("Get")
  /\ ReceivesData
  /\ SendsRequest([type |-> "Get", req |-> last.req, body |-> FALSE,
                   final |-> TRUE, parses |-> TRUE])
  /\ UNCHANGED <<alive, current, aborting, hasConnectionID, last, outcome,
                 asked, raised, silent>>

SendNextFails ==
  /\ MayGoOn("Put") \/ MayGoOn("Get")
  /\ ReceivesData
  /\ FailsToSend
  /\ UNCHANGED hasConnectionID

\* A final answer ends a request, also one that was to be aborted.
HandleFinal ==
  /\ Receives(FinalCodes)
  /\ ReceivesData
  /\ NotesConnectionID
  /\ EndsIdle(FALSE, response.code)

\* An answer that comes while there is no request.
IgnoreResponse ==
  /\ alive
  /\ current = "none"
  /\ response # NoResponse
  /\ response' = NoResponse
  /\ UNCHANGED <<linkUp, request, client>>

\* An event that is no answer to the current request, with the session idle ...
HandleOtherIdle ==
  /\ GivesUp
  /\ alive /\ linkUp
  /\ current # "none"
  /\ request = NoPacket /\ response = NoResponse
  /\ EndsIdle(TRUE, "none")
  /\ UNCHANGED <<hasConnectionID, missed>>

\* ... or busy.
HandleOtherBusy ==
  /\ GivesUp
  /\ alive /\ linkUp
  /\ current # "none"
  /\ request # NoPacket \/ response # NoResponse
  /\ Ends(TRUE, "none")
  /\ UNCHANGED <<link, hasConnectionID, last, missed>>

\* The channel is gone.
HandleError ==
  /\ alive /\ ~linkUp
  /\ current # "none"
  /\ Ends(TRUE, "none")
  /\ UNCHANGED <<link, hasConnectionID, last, missed>>

HandleResponse == \/ PerformAbort
                  \/ SendNextPut
                  \/ NextPutRaises
                  \/ SendNextGet
                  \/ SendNextFails
                  \/ HandleFinal
                  \/ IgnoreResponse

HandleOther == HandleOtherIdle \/ HandleOtherBusy

User == \/ \E op \in Ops, body, full, short \in BOOLEAN :
             SendRequest(op, body, full, short)
        \/ AbortCurrentRequest
        \/ Dealloc

Client == User \/ HandleResponse \/ HandleOther \/ HandleError

-----------------------------------------------------------------------------
(***************************************************************************)
(* The server and the channel (external).                                  *)
(***************************************************************************)

\* The codes a packet may be answered with.
Answers(p) == CASE p.type = "Put" /\ ~p.final -> Codes \ {"Success"}
                [] p.type = "Get"             -> Codes
                [] OTHER                      -> FinalCodes

ServerAnswers ==
  /\ linkUp
  /\ request # NoPacket
  /\ request' = NoPacket
  /\ \E code \in Answers(request), body \in BOOLEAN :
       /\ body => request.type = "Get"
       /\ response' = [code |-> code, body |-> body]
  /\ UNCHANGED <<linkUp, client>>

ServerIsSilent ==
  /\ linkUp
  /\ request # NoPacket
  /\ request' = NoPacket
  /\ silent' = TRUE
  /\ UNCHANGED <<linkUp, response, alive, current, aborting, hasConnectionID,
                 last, outcome, asked, missed, raised>>

Server == ServerAnswers \/ ServerIsSilent

LinkBreaks == LinkDies /\ UNCHANGED client

Next == Client \/ Server \/ LinkBreaks

Spec == Init /\ [][Next]_vars

\* The run loop delivers the events that arrive.  The server takes its packets,
\* and what a Get fetches has an end.
ServerEnds == ServerAnswers /\ response'.code \in FinalCodes

FairSpec == /\ Spec
            /\ WF_vars(HandleResponse)
            /\ WF_vars(HandleError)
            /\ WF_vars(Server)
            /\ SF_vars(ServerEnds)

-----------------------------------------------------------------------------
(***************************************************************************)
(* Properties.                                                             *)
(***************************************************************************)

\* Each variable has its type.
TypeOK == /\ LinkOK
          /\ alive \in BOOLEAN
          /\ current \in {"none", "request", "Abort"}
          /\ aborting \in BOOLEAN
          /\ hasConnectionID \in BOOLEAN
          /\ last \in Last
          /\ outcome \in [Requests -> Outcomes]
          /\ asked \subseteq Requests
          /\ missed \subseteq Requests
          /\ raised \in BOOLEAN
          /\ silent \in BOOLEAN

\* A request that was begun is either the current one or its delegate has been
\* told its end, and never both.  (For a delegate that makes no request when it
\* is told the end of one.)
Begun(r) == r <= last.req

NoneForgotten ==
  ~RequestsInCallbacks =>
    \A r \in Requests : Begun(r) => (outcome[r] = "none" <=> current # "none" /\ r = last.req)

\* An abort hits the request it was asked for: none is aborted, or told to be,
\* for a call made during an earlier one.
AbortHitsItsRequest ==
  /\ \A r \in Requests : outcome[r] \in {"aborted", "abortFailed"} => r \in asked
  /\ request.type = "Abort" => request.req \in asked

\* What a delegate was told of a request stands: it is not told twice.
ToldOnce ==
  [][\A r \in Requests : outcome[r] # "none" => outcome'[r] = outcome[r]]_vars

\* Once a request is to be aborted, no packet but an Abort goes out.
AbortStopsRequest ==
  [][aborting /\ aborting' /\ request' # NoPacket /\ request' # request
       => request'.type = "Abort"]_vars

\* Success of a Put means that the last packet was sent and, unless the stream
\* gave less than it was asked for before its end, that it was read to its end:
\* also when its length is a multiple of what a packet holds.
PutSucceeded == last.op = "Put" /\ last.req > 0 /\ outcome[last.req] = "Success"

PutSuccessIsWhole == PutSucceeded => last.final /\ (last.more => last.short)

\* Each request comes to an end the delegate is told of, unless the server does
\* not answer, the stream raises or the client is deallocated.
RequestEnds ==
  \A r \in Requests :
    Begun(r) ~> (outcome[r] # "none" \/ silent \/ raised \/ ~alive)

(***************************************************************************)
(* What the documentation says and the code does not do.                   *)
(***************************************************************************)

\* "The delegate is informed through ... when the request is finished": a request
\* that was begun is not dropped.
DelegateIsInformed ==
  \A r \in Requests :
    Begun(r) /\ outcome[r] = "none" => current # "none" /\ r = last.req

\* "Sends a Put request ... that will send the data from the given <inputStream>":
\* the data is what the stream gives until its end.
SuccessSendsTheStream == PutSucceeded => ~last.more

\* "<error> is set to kOBEXSuccess if the request finished without an error": the
\* data of a Get that ends so has reached its stream.
GetSuccessIsTrue ==
  \A r \in missed : outcome[r] # "Success"
=============================================================================

---------------------------- MODULE OBEXTransfer ----------------------------
(***************************************************************************)
(* An OBEXClient and an OBEXServer at the two ends of one session, in      *)
(* place of the any-client and the any-server they are specified against,  *)
(* as when macos/_obex.py is at both ends: a client that sends to a        *)
(* session of its own end only and whose user waits for the end of a       *)
(* request before he makes another (GivesUp and RequestsInCallbacks are    *)
(* FALSE), and a server whose delegate sets no response code late.         *)
(***************************************************************************)
EXTENDS OBEXClient

VARIABLES
  \* of OBEXServer, whose error and raised are serverError and serverRaised
  running, handler, taken, cut, fate, headers, notice, serverError, serverRaised,
  abortSent       \* the last request an Abort was sent for, 0 if none was

clientState  == <<alive, current, aborting, hasConnectionID, last, outcome,
                  asked, missed, raised>>
serverState  == <<running, handler, fate, serverRaised>>
observations == <<taken, cut, headers, notice, serverError>>
transferVars == <<vars, serverState, observations, abortSent>>

\* The client as the server's specification knows it.  A request that failed
\* because the channel is gone is one that the server does not see the end of.
Unended == current # "none" \/ outcome[last.req] \in {"failed", "abortFailed"}

peer == [state |-> IF last.req = 0 THEN "idle"
                   ELSE IF ~Unended THEN "idle"
                   ELSE IF abortSent = last.req THEN "aborting" ELSE "busy",
         op |-> last.op, req |-> last.req, final |-> last.final, given |-> last.given]

S == INSTANCE OBEXServer WITH SetsCodeLate <- FALSE, error <- serverError,
                              raised <- serverRaised, aborted <- (abortSent # 0)

TransferInit == Init /\ abortSent = 0 /\ S!Init

\* What is noted of the present request starts anew with each.
NotesRequest ==
  IF last'.req # last.req
  THEN /\ taken' = 0 /\ cut' = FALSE
       /\ headers' = {} /\ notice' = "none" /\ serverError' = FALSE
  ELSE UNCHANGED observations

ClientStep ==
  /\ Client
  /\ NotesRequest
  /\ abortSent' = IF request'.type = "Abort" THEN last.req ELSE abortSent
  /\ UNCHANGED serverState

\* The server has taken a packet and left it without an answer.
LeavesUnanswered == /\ linkUp'
                    /\ request # NoPacket /\ request' = NoPacket
                    /\ response' = NoResponse

ServerStep ==
  /\ UNCHANGED <<clientState, abortSent>>
  /\ S!Server
  /\ silent' = (silent \/ LeavesUnanswered)

ChannelBreaks == LinkBreaks /\ UNCHANGED <<serverState, observations, abortSent>>

TransferNext == ClientStep \/ ServerStep \/ ChannelBreaks

TransferSpec == TransferInit /\ [][TransferNext]_transferVars

\* The run loops of both ends deliver the events that arrive, and what a Get
\* fetches has an end.
ServerHandles == ServerStep /\ request # NoPacket /\ request' = NoPacket
ServerAnswersLast == ServerHandles /\ response'.code \in FinalCodes
ClientHandles == ClientStep /\ (HandleResponse \/ HandleError)

FairTransferSpec == /\ TransferSpec
                    /\ WF_transferVars(ServerHandles)
                    /\ SF_transferVars(ServerAnswersLast)
                    /\ WF_transferVars(ClientHandles)

-----------------------------------------------------------------------------
\* Each end meets what the other's specification expects of it: the client is
\* one the server's specification allows, and the server one the client's does.
ServerMeetsItsClient == S!Spec
ClientMeetsItsServer == Spec

\* When the sender is told that a Put succeeded, every packet of it that was
\* sent is in the receiver's stream, which was given back, and the sender's
\* stream was read to its end.  A stream that takes only a part of what is
\* written to it (cut), or gives less than it is asked for before its end
\* (short), is not noticed by either side.
PutArrives ==
  LET r == last.req
  IN  r > 0 /\ last.op = "Put" /\ last.given > 0 /\ outcome[r] = "Success"
        => /\ taken = last.given \/ cut
           /\ last.more => last.short
           /\ fate[r] = "back"

\* When the sender is told that a request ended or was aborted, over a channel
\* that is up, the receiver's stream is not left open.
StreamsEndTogether ==
  \A r \in Requests : outcome[r] \in FinalCodes \cup {"aborted"} => fate[r] # "open"

=============================================================================

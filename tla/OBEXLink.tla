------------------------------ MODULE OBEXLink ------------------------------
(***************************************************************************)
(* What an OBEX client and an OBEX server of LightAquaBlue share: the      *)
(* session between them (OBEXSession of IOBluetooth, external).  OBEX is   *)
(* half duplex: the client has one command under way and sends the next    *)
(* one after the server has answered, so the session holds at most one     *)
(* packet, of either side.                                                 *)
(***************************************************************************)
EXTENDS Naturals

CONSTANT MaxRequests    \* bound: requests a client makes

ASSUME RequestsAssumption == MaxRequests \in Nat

VARIABLES
  linkUp,     \* the RFCOMM channel below the session is open
  request,    \* the client's packet the server has not yet seen
  response    \* the server's packet the client has not yet seen

link == <<linkUp, request, response>>

Requests == 1..MaxRequests

\* The operations, and the kinds of request they make: a Put without a body is
\* a request to delete.
SingleOps == {"Connect", "Disconnect", "SetPath"}
Ops       == SingleOps \cup {"Put", "Get"}
Kinds     == Ops \cup {"PutDelete"}

\* Response codes.  "Refused" stands for every final code that the server
\* does not produce of its own.
FinalCodes == {"Success", "Forbidden", "NotImplemented", "BadRequest",
               "InternalError", "Refused"}
Codes      == FinalCodes \cup {"Continue"}

\* A packet of request req: whether it carries a Body or End-of-Body header,
\* whether it is the last of the request, whether its headers can be parsed.
Packet   == [type : Ops \cup {"Abort"}, req : Requests,
             body : BOOLEAN, final : BOOLEAN, parses : BOOLEAN]
NoPacket == [type |-> "none", req |-> 0,
             body |-> FALSE, final |-> FALSE, parses |-> FALSE]

Response   == [code : Codes, body : BOOLEAN]
NoResponse == [code |-> "none", body |-> FALSE]

LinkOK == /\ linkUp \in BOOLEAN
          /\ request \in Packet \cup {NoPacket}
          /\ response \in Response \cup {NoResponse}

LinkInit == /\ linkUp = TRUE
            /\ request = NoPacket
            /\ response = NoResponse

\* The client's packet p goes out, in place of the response it follows.
SendsRequest(p) == /\ linkUp
                   /\ request' = p
                   /\ response' = NoResponse
                   /\ UNCHANGED linkUp

\* The channel breaks: what was under way is lost.
LinkDies == /\ linkUp
            /\ linkUp' = FALSE
            /\ request' = NoPacket
            /\ response' = NoResponse
=============================================================================

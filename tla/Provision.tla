----------------------------- MODULE Provision -----------------------------
(***************************************************************************)
(* Profile provisioning: vSIMs (vsim/fpga-provision: the enclave and the   *)
(* Keystone host that lends it a socket) and the operator's server         *)
(* (provider/provider.cpp) agree on session keys over TCP: request,        *)
(* response, attestation, acknowledgement, each one message.               *)
(*                                                                         *)
(* TCP delivers the bytes of a direction in order, cut anywhere; neither   *)
(* side frames its messages nor reads again for the rest of one.  Here a   *)
(* message travels as a head of HeadSize bytes and a tail, and a read      *)
(* returns any part of what has been sent.  The server handles one         *)
(* connection at a time, the others wait in the backlog.  Both sides can   *)
(* be killed and the server started again (with new keys); the machine of  *)
(* a vSIM can vanish without closing its connection.                       *)
(*                                                                         *)
(* Abstractions.  A vSIM run is named by a member v of Vsims: v is also    *)
(* its nonce and its public key, both fresh in every run and sent in the   *)
(* same message.  The n-th run of the server has the public key n.  A      *)
(* session key is the pair of the two.  Encryption is perfect: a message   *)
(* opens iff all its bytes are there and the keys match.  Both builds      *)
(* carry the same development keys and the same quote of the provider.     *)
(***************************************************************************)
EXTENDS Naturals, Sequences

CONSTANTS
  Vsims,           \* provisioning runs of vSIMs, each happens at most once
  Expected,        \* those whose enclave measurement is the expected one
  HeadSize,        \* where TCP cuts a message
  MaxServerRuns,   \* bound: how many times the server is started
  Faults           \* which faults may happen, a subset of AllFaults

AllFaults == {"kill_vsim", "vanish", "kill_server", "no_route", "cut"}

(* Bytes of each message: a sealed box adds 48, a secret box 40. *)
Length == [request |-> 104, response |-> 233, attestation |-> 168, ack |-> 72]

NONCEBYTES == 24     \* crypto_secretbox_NONCEBYTES

NoClient  == "none"
NoSession == [vsim |-> NoClient, run |-> 0]

ASSUME ConstantsAssumption ==
  /\ NoClient \notin Vsims
  /\ Expected \subseteq Vsims
  /\ HeadSize \in 1 .. Length.ack - 1
  /\ MaxServerRuns \in Nat
  /\ Faults \subseteq AllFaults

(***************************************************************************)
(* Messages.  In a request vsim is the nonce and public key of the sender; *)
(* in a response vsim is the echoed nonce and run the server's public key; *)
(* attestation and ack are encrypted under the session key of vsim and run.*)
(***************************************************************************)
Message == [type : DOMAIN Length, vsim : Vsims, run : 0 .. MaxServerRuns]

Request(v)     == [type |-> "request", vsim |-> v, run |-> 0]
Response(s)    == [type |-> "response", vsim |-> s.vsim, run |-> s.run]
Attestation(s) == [type |-> "attestation", vsim |-> s.vsim, run |-> s.run]
Ack(s)         == [type |-> "ack", vsim |-> s.vsim, run |-> s.run]

Session == [vsim : Vsims, run : 1 .. MaxServerRuns]

(* A message on the wire *)
Pieces(m) == <<[msg |-> m, part |-> "head"], [msg |-> m, part |-> "tail"]>>

Size(piece) ==
  IF piece.part = "head" THEN HeadSize ELSE Length[piece.msg.type] - HeadSize

(* The bytes of what one read returned: at most one message is under way   *)
(* in each direction (see OneMessageInFlight).                             *)
Bytes(pieces) ==
  IF pieces = <<>> THEN 0
  ELSE IF Len(pieces) = 1 THEN Size(pieces[1])
  ELSE Size(pieces[1]) + Size(pieces[2])

(* How many pieces one read may return *)
ReadSizes(stream) ==
  IF "cut" \in Faults THEN 1 .. Len(stream) ELSE {Len(stream)} \ {0}

Read(stream, n) == SubSeq(stream, 1, n)
Rest(stream, n) == SubSeq(stream, n + 1, Len(stream))

VARIABLES
  (* the connection of each vSIM: bytes under way, open ends, and whether *)
  (* the server's end has been reset                                      *)
  toServer, toVsim, vsimOpen, serverOpen, reset, backlog,
  (* the server *)
  serverRuns, serverPc, client, session,
  (* the vSIMs *)
  vsimPc, vsimKey, copySize, copy,
  (* history *)
  attested,    \* sessions whose attestation the server decrypted
  acked        \* sessions the server sent its acknowledgement for

netVars    == <<toServer, toVsim, vsimOpen, serverOpen, reset, backlog>>
serverVars == <<serverRuns, serverPc, client, session>>
vsimVars   == <<vsimPc, vsimKey, copySize, copy>>
histVars   == <<attested, acked>>
vars       == <<netVars, serverVars, vsimVars, histVars>>

Ended(v) == vsimPc[v] \in {"done", "failed", "killed", "vanished"}

-----------------------------------------------------------------------------
(***************************************************************************)
(* The provider server.                                                    *)
(***************************************************************************)

(* start: new key pairs, then listen *)
ServerStart ==
  /\ serverPc = "down"
  /\ serverRuns < MaxServerRuns
  /\ serverRuns' = serverRuns + 1
  /\ serverPc' = "accept"
  /\ backlog' = <<>>
  /\ client' = NoClient
  /\ session' = NoSession
  /\ UNCHANGED <<toServer, toVsim, vsimOpen, serverOpen, reset, vsimVars,
                 histVars>>

ServerAccept ==
  /\ serverPc = "accept"
  /\ backlog # <<>>
  /\ client' = Head(backlog)
  /\ backlog' = Tail(backlog)
  /\ serverPc' = "recv_request"
  /\ UNCHANGED <<toServer, toVsim, vsimOpen, serverOpen, reset, serverRuns,
                 session, vsimVars, histVars>>

(* A slip: the client survives the connection. *)
CloseConnection_KeepsClient ==
  /\ serverOpen' = [serverOpen EXCEPT ![client] = FALSE]
  /\ serverPc' = "accept"
  /\ client' = client

(* A slip: the socket is not closed. *)
CloseConnection_KeepsOpen ==
  /\ serverPc' = "accept"
  /\ client' = NoClient
  /\ UNCHANGED serverOpen

(* handleConnection throws or returns: the socket is closed and the loop   *)
(* accepts the next connection.                                            *)
CloseConnection ==
  /\ serverOpen' = [serverOpen EXCEPT ![client] = FALSE]
  /\ serverPc' = "accept"
  /\ client' = NoClient

(* A slip: the server derives session keys only when it has none. *)
ServerRecvRequest_KeepsSession ==
  /\ serverPc = "recv_request"
  /\ \E n \in ReadSizes(toServer[client]) :
       LET got == Read(toServer[client], n)
           m   == got[1].msg
       IN /\ toServer' = [toServer EXCEPT ![client] = Rest(@, n)]
          /\ IF m.type = "request" /\ got = Pieces(m)
             THEN /\ session' = IF session = NoSession
                                THEN [vsim |-> m.vsim, run |-> serverRuns]
                                ELSE session
                  /\ serverPc' = "send_response"
                  /\ UNCHANGED <<serverOpen, client>>
             ELSE CloseConnection /\ UNCHANGED session
  /\ UNCHANGED <<toVsim, vsimOpen, reset, backlog, serverRuns, vsimVars,
                 histVars>>

(***************************************************************************)
(* The first recv.  A request that is not there in full does not open (a   *)
(* short one makes the length of the unused plaintext vector wrap around,  *)
(* which throws as well).                                                  *)
(***************************************************************************)
ServerRecvRequest ==
  /\ serverPc = "recv_request"
  /\ \E n \in ReadSizes(toServer[client]) :
       LET got == Read(toServer[client], n)
           m   == got[1].msg
       IN /\ toServer' = [toServer EXCEPT ![client] = Rest(@, n)]
          /\ IF m.type = "request" /\ got = Pieces(m)
             THEN /\ session' = [vsim |-> m.vsim, run |-> serverRuns]
                  /\ serverPc' = "send_response"
                  /\ UNCHANGED <<serverOpen, client>>
             ELSE CloseConnection /\ UNCHANGED session
  /\ UNCHANGED <<toVsim, vsimOpen, reset, backlog, serverRuns, vsimVars,
                 histVars>>

(***************************************************************************)
(* A peer that has gone is noticed by the next recv only: what is sent to  *)
(* it is answered with a reset.  The flags of send are 0, so a send on a   *)
(* connection that has been reset would raise SIGPIPE and end the server   *)
(* (NoSigpipe: there is none).                                             *)
(***************************************************************************)
SendToVsim(m) ==
  /\ toVsim' = [toVsim EXCEPT ![client] =
                  IF vsimOpen[client] THEN @ \o Pieces(m) ELSE @]
  /\ reset' = [reset EXCEPT ![client] = @ \/ ~vsimOpen[client]]

(* A slip: the server does not wait for the attestation. *)
ServerSendResponse_NoWait ==
  /\ serverPc = "send_response"
  /\ SendToVsim(Response(session))
  /\ serverPc' = "send_ack"
  /\ UNCHANGED <<toServer, vsimOpen, serverOpen, backlog, serverRuns, client,
                 session, vsimVars, histVars>>

ServerSendResponse ==
  /\ serverPc = "send_response"
  /\ SendToVsim(Response(session))
  /\ serverPc' = "recv_attestation"
  /\ UNCHANGED <<toServer, vsimOpen, serverOpen, backlog, serverRuns, client,
                 session, vsimVars, histVars>>

(* A slip: the server acknowledges an attestation that did not open. *)
ServerRecvAttestation_Lenient ==
  /\ serverPc = "recv_attestation"
  /\ \E n \in ReadSizes(toServer[client]) :
       LET got == Read(toServer[client], n)
       IN /\ toServer' = [toServer EXCEPT ![client] = Rest(@, n)]
          /\ attested' = IF got = Pieces(Attestation(session))
                         THEN attested \cup {session} ELSE attested
          /\ serverPc' = "send_ack"
  /\ UNCHANGED <<toVsim, vsimOpen, serverOpen, reset, backlog, serverRuns,
                 client, session, vsimVars, acked>>

(***************************************************************************)
(* The second recv.  The measurement in the report is compared and the     *)
(* outcome printed; either way the server goes on to acknowledge.          *)
(***************************************************************************)
ServerRecvAttestation ==
  /\ serverPc = "recv_attestation"
  /\ \E n \in ReadSizes(toServer[client]) :
       LET got == Read(toServer[client], n)
       IN /\ toServer' = [toServer EXCEPT ![client] = Rest(@, n)]
          /\ IF got = Pieces(Attestation(session))
             THEN /\ attested' = attested \cup {session}
                  /\ serverPc' = "send_ack"
                  /\ UNCHANGED <<serverOpen, client>>
             ELSE CloseConnection /\ UNCHANGED attested
  /\ UNCHANGED <<toVsim, vsimOpen, reset, backlog, serverRuns, session,
                 vsimVars, acked>>

ServerSendAck ==
  /\ serverPc = "send_ack"
  /\ SendToVsim(Ack(session))
  /\ acked' = acked \cup {session}
  /\ CloseConnection
  /\ UNCHANGED <<toServer, vsimOpen, backlog, serverRuns, session, vsimVars,
                 attested>>

(* A slip: the server notices a lost peer in the first recv only. *)
ServerRecvNothing_FirstOnly ==
  /\ serverPc = "recv_request"
  /\ toServer[client] = <<>>
  /\ ~vsimOpen[client]
  /\ CloseConnection
  /\ UNCHANGED <<toServer, toVsim, vsimOpen, reset, backlog, serverRuns,
                 session, vsimVars, histVars>>

(* A slip: a lost peer after the response is taken for an attested one. *)
ServerRecvNothing_Acknowledges ==
  /\ serverPc \in {"recv_request", "recv_attestation"}
  /\ toServer[client] = <<>>
  /\ ~vsimOpen[client]
  /\ IF serverPc = "recv_attestation"
     THEN serverPc' = "send_ack" /\ UNCHANGED <<serverOpen, client>>
     ELSE CloseConnection
  /\ UNCHANGED <<toServer, toVsim, vsimOpen, reset, backlog, serverRuns,
                 session, vsimVars, histVars>>

(* recv returns 0 or an error: nothing to read and the peer has closed or  *)
(* reset the connection                                                    *)
ServerRecvNothing ==
  /\ serverPc \in {"recv_request", "recv_attestation"}
  /\ toServer[client] = <<>>
  /\ ~vsimOpen[client]
  /\ CloseConnection
  /\ UNCHANGED <<toServer, toVsim, vsimOpen, reset, backlog, serverRuns,
                 session, vsimVars, histVars>>

(* A response that a vanished peer never acknowledged times out in the     *)
(* kernel, and recv reports it; a peer that owes nothing is never missed.  *)
ServerSendTimesOut ==
  /\ serverPc = "recv_attestation"
  /\ toServer[client] = <<>>
  /\ vsimPc[client] = "vanished"
  /\ toVsim[client] # <<>>
  /\ CloseConnection
  /\ UNCHANGED <<toServer, toVsim, vsimOpen, reset, backlog, serverRuns,
                 session, vsimVars, histVars>>

ServerDies(lost) ==
  /\ serverPc' = "down"
  /\ toServer' = [v \in Vsims |-> <<>>]
  /\ serverOpen' = [v \in Vsims |-> FALSE]
  /\ toVsim' = [v \in Vsims |-> IF v \in lost THEN <<>> ELSE toVsim[v]]
  /\ backlog' = <<>>
  /\ client' = NoClient
  /\ UNCHANGED <<vsimOpen, reset, serverRuns, session, vsimVars, histVars>>

(* The process dies; resets may overtake what it sent. *)
ServerKilled ==
  /\ "kill_server" \in Faults
  /\ serverPc # "down"
  /\ \E lost \in SUBSET Vsims : ServerDies(lost)

(***************************************************************************)
(* An attestation shorter than its nonce: clen wraps around and the nonce  *)
(* pointer points before the buffer.  The code may survive to a failed     *)
(* decryption (ServerRecvAttestation) or crash.                            *)
(***************************************************************************)
ServerLengthWraps ==
  /\ serverPc = "recv_attestation"
  /\ \E n \in ReadSizes(toServer[client]) :
       Bytes(Read(toServer[client], n)) < NONCEBYTES
  /\ \E lost \in SUBSET Vsims : ServerDies(lost)

-----------------------------------------------------------------------------
(***************************************************************************)
(* A vSIM: establish_secure_channel in the enclave, with the ocalls the    *)
(* host serves for it.                                                     *)
(***************************************************************************)

(* init: key pair and nonce *)
VsimStart(v) ==
  /\ vsimPc[v] = "off"
  /\ vsimPc' = [vsimPc EXCEPT ![v] = "connect"]
  /\ UNCHANGED <<netVars, serverVars, vsimKey, copySize, copy, histVars>>

(* send_ra_req connects *)
VsimConnect(v) ==
  /\ vsimPc[v] = "connect"
  /\ serverPc # "down"
  /\ vsimOpen' = [vsimOpen EXCEPT ![v] = TRUE]
  /\ serverOpen' = [serverOpen EXCEPT ![v] = TRUE]
  /\ backlog' = Append(backlog, v)
  /\ vsimPc' = [vsimPc EXCEPT ![v] = "send_request"]
  /\ UNCHANGED <<toServer, toVsim, reset, serverVars, vsimKey, copySize, copy,
                 histVars>>

(* send_ra_req cannot connect, prints so and returns; the enclave, which   *)
(* is not told, goes on to wait for the response.                          *)
VsimConnectFails(v) ==
  /\ vsimPc[v] = "connect"
  /\ serverPc = "down" \/ "no_route" \in Faults
  /\ vsimPc' = [vsimPc EXCEPT ![v] = "read_response"]
  /\ UNCHANGED <<netVars, serverVars, vsimKey, copySize, copy, histVars>>

(* A send that fails is printed and otherwise ignored. *)
Send(v, m) ==
  toServer' = [toServer EXCEPT ![v] =
                 IF serverOpen[v] THEN @ \o Pieces(m) ELSE @]

VsimSendRequest(v) ==
  /\ vsimPc[v] = "send_request"
  /\ Send(v, Request(v))
  /\ vsimPc' = [vsimPc EXCEPT ![v] = "read_response"]
  /\ UNCHANGED <<toVsim, vsimOpen, serverOpen, reset, backlog, serverVars,
                 vsimKey, copySize, copy, histVars>>

(* EAPP_RETURN, then the host process ends: its end is closed, with a      *)
(* reset when there are bytes it has not read.                             *)
VsimEnds(v, pc) ==
  /\ vsimPc' = [vsimPc EXCEPT ![v] = pc]
  /\ vsimOpen' = [vsimOpen EXCEPT ![v] = FALSE]
  /\ reset' = [reset EXCEPT ![v] = @ \/ toVsim'[v] # <<>>]

(* A slip: the vSIM ignores that the response did not open. *)
VsimReadResponse_Lenient(v) ==
  /\ vsimPc[v] = "read_response"
  /\ \E n \in ReadSizes(toVsim[v]) :
       LET got == Read(toVsim[v], n)
       IN /\ toVsim' = [toVsim EXCEPT ![v] = Rest(@, n)]
          /\ copy' = [copy EXCEPT ![v] = got]
          /\ copySize' = [copySize EXCEPT ![v] = Bytes(got)]
          /\ vsimKey' = [vsimKey EXCEPT ![v] = [vsim |-> v, run |-> got[1].msg.run]]
          /\ vsimPc' = [vsimPc EXCEPT ![v] = "send_attestation"]
  /\ UNCHANGED <<toServer, vsimOpen, serverOpen, reset, backlog, serverVars,
                 histVars>>

(***************************************************************************)
(* wait_for_message, then the checks on the response: it opens, the nonce  *)
(* is this run's, the quote the provider's.  The copy of the ciphertext    *)
(* stays in data_copy, a buffer of the size of what was read.              *)
(***************************************************************************)
VsimReadResponse(v) ==
  /\ vsimPc[v] = "read_response"
  /\ \E n \in ReadSizes(toVsim[v]) :
       LET got == Read(toVsim[v], n)
           m   == got[1].msg
       IN /\ toVsim' = [toVsim EXCEPT ![v] = Rest(@, n)]
          /\ copy' = [copy EXCEPT ![v] = got]
          /\ copySize' = [copySize EXCEPT ![v] = Bytes(got)]
          /\ IF m.type = "response" /\ got = Pieces(m) /\ m.vsim = v
             THEN /\ vsimKey' = [vsimKey EXCEPT ![v] = [vsim |-> v, run |-> m.run]]
                  /\ vsimPc' = [vsimPc EXCEPT ![v] = "send_attestation"]
                  /\ UNCHANGED <<vsimOpen, reset>>
             ELSE VsimEnds(v, "failed") /\ UNCHANGED vsimKey
  /\ UNCHANGED <<toServer, serverOpen, backlog, serverVars, histVars>>

VsimSendAttestation(v) ==
  /\ vsimPc[v] = "send_attestation"
  /\ Send(v, Attestation(vsimKey[v]))
  /\ vsimPc' = [vsimPc EXCEPT ![v] = "read_ack"]
  /\ UNCHANGED <<toVsim, vsimOpen, serverOpen, reset, backlog, serverVars,
                 vsimKey, copySize, copy, histVars>>

(* A slip: the vSIM takes any bytes for the acknowledgement. *)
Acknowledged_Anything(v, pieces) == pieces # <<>>

(* What channel_unbox and the comparison with Ack make of data_copy; a     *)
(* failed channel_unbox is not reported, only the comparison can refuse.   *)
Acknowledged(v, pieces) == pieces = Pieces(Ack(vsimKey[v]))

(* wait_for_message, then the Ack is copied over data_copy and checked *)
VsimReadAck(v) ==
  /\ vsimPc[v] = "read_ack"
  /\ \E n \in ReadSizes(toVsim[v]) :
       LET got == Read(toVsim[v], n)
       IN /\ toVsim' = [toVsim EXCEPT ![v] = Rest(@, n)]
          /\ copy' = [copy EXCEPT ![v] = got]
          /\ VsimEnds(v, IF Acknowledged(v, got) THEN "done" ELSE "failed")
  /\ UNCHANGED <<toServer, serverOpen, backlog, serverVars, vsimKey, copySize,
                 histVars>>

(***************************************************************************)
(* read fails or returns 0: wait_for_message hands over a message of no    *)
(* bytes.  As a response it does not open; as an Ack it leaves data_copy   *)
(* as it was, and that is what gets checked.                               *)
(***************************************************************************)
VsimReadNothing(v) ==
  /\ vsimPc[v] \in {"read_response", "read_ack"}
  /\ toVsim[v] = <<>>
  /\ ~serverOpen[v]
  /\ UNCHANGED <<toServer, toVsim, serverOpen, backlog, serverVars, vsimKey,
                 copySize, copy, histVars>>
  /\ VsimEnds(v, IF vsimPc[v] = "read_ack" /\ Acknowledged(v, copy[v])
                 THEN "done" ELSE "failed")

(* The host process dies; its end is closed, a reset may overtake what it  *)
(* sent.                                                                   *)
VsimKilled(v) ==
  /\ "kill_vsim" \in Faults
  /\ vsimPc[v] # "off" /\ ~Ended(v)
  /\ \E lost \in BOOLEAN :
       toServer' = [toServer EXCEPT ![v] = IF lost THEN <<>> ELSE @]
  /\ UNCHANGED <<toVsim, serverOpen, backlog, serverVars, vsimKey, copySize,
                 copy, histVars>>
  /\ VsimEnds(v, "killed")

(* The machine loses its power or its network: nobody closes its end.      *)
VsimVanishes(v) ==
  /\ "vanish" \in Faults
  /\ vsimPc[v] # "off" /\ ~Ended(v)
  /\ vsimPc' = [vsimPc EXCEPT ![v] = "vanished"]
  /\ \E lost \in BOOLEAN :
       toServer' = [toServer EXCEPT ![v] = IF lost THEN <<>> ELSE @]
  /\ UNCHANGED <<toVsim, vsimOpen, serverOpen, reset, backlog, serverVars,
                 vsimKey, copySize, copy, histVars>>

-----------------------------------------------------------------------------
Init ==
  /\ toServer = [v \in Vsims |-> <<>>]
  /\ toVsim = [v \in Vsims |-> <<>>]
  /\ vsimOpen = [v \in Vsims |-> FALSE]
  /\ serverOpen = [v \in Vsims |-> FALSE]
  /\ reset = [v \in Vsims |-> FALSE]
  /\ backlog = <<>>
  /\ serverRuns = 0 /\ serverPc = "down"
  /\ client = NoClient /\ session = NoSession
  /\ vsimPc = [v \in Vsims |-> "off"]
  /\ vsimKey = [v \in Vsims |-> NoSession]
  /\ copySize = [v \in Vsims |-> 0]
  /\ copy = [v \in Vsims |-> <<>>]
  /\ attested = {} /\ acked = {}

ServerStep ==
  \/ ServerAccept \/ ServerRecvRequest \/ ServerSendResponse
  \/ ServerRecvAttestation \/ ServerSendAck \/ ServerRecvNothing

VsimStep(v) ==
  \/ VsimConnect(v) \/ VsimConnectFails(v) \/ VsimSendRequest(v)
  \/ VsimReadResponse(v) \/ VsimSendAttestation(v) \/ VsimReadAck(v)
  \/ VsimReadNothing(v)

Environment ==
  \/ ServerStart \/ ServerKilled \/ ServerLengthWraps \/ ServerSendTimesOut
  \/ \E v \in Vsims : VsimStart(v) \/ VsimKilled(v) \/ VsimVanishes(v)

Next == ServerStep \/ (\E v \in Vsims : VsimStep(v)) \/ Environment

Spec == Init /\ [][Next]_vars

(***************************************************************************)
(* Every process that can take a step and is not killed takes one.  The    *)
(* kernel closes the sockets of a process that dies, so the other end      *)
(* learns of it.  Nothing tells the server that a vSIM has vanished.       *)
(***************************************************************************)
FairSpec ==
  Spec /\ WF_vars(ServerStep) /\ \A v \in Vsims : WF_vars(VsimStep(v))

-----------------------------------------------------------------------------
(***************************************************************************)
(* Properties.                                                             *)
(***************************************************************************)

Piece == [msg : Message, part : {"head", "tail"}]

ServerPcs == {"down", "accept", "recv_request", "send_response",
              "recv_attestation", "send_ack"}
VsimPcs == {"off", "connect", "send_request", "read_response",
            "send_attestation", "read_ack", "done", "failed", "killed",
            "vanished"}

(* Every variable has its type; the server has a client while it handles a *)
(* connection and a session once it has read the request.                  *)
TypeOK ==
  /\ toServer \in [Vsims -> Seq(Piece)]
  /\ toVsim \in [Vsims -> Seq(Piece)]
  /\ vsimOpen \in [Vsims -> BOOLEAN]
  /\ serverOpen \in [Vsims -> BOOLEAN]
  /\ reset \in [Vsims -> BOOLEAN]
  /\ backlog \in Seq(Vsims)
  /\ serverRuns \in 0 .. MaxServerRuns
  /\ serverPc \in ServerPcs
  /\ client \in IF serverPc \in {"down", "accept"} THEN {NoClient} ELSE Vsims
  /\ session \in Session \cup {NoSession}
  /\ vsimPc \in [Vsims -> VsimPcs]
  /\ vsimKey \in [Vsims -> Session \cup {NoSession}]
  /\ copySize \in [Vsims -> 0 .. 2 * Length.response]
  /\ copy \in [Vsims -> Seq(Piece)]
  /\ attested \subseteq Session
  /\ acked \subseteq attested

(* A vSIM that took the acknowledgement for good holds the very session    *)
(* key under which the server decrypted its attestation, whatever was cut, *)
(* lost, killed or restarted on the way.                                   *)
(* (fpga-provision.c 137-149, provider.cpp 280-384)                        *)
AckMeansAttested ==
  \A v \in Vsims : vsimPc[v] = "done" => vsimKey[v] \in attested

(* What comes back over a connection is for the vSIM at its other end, and *)
(* for the run of the server it is connected to.  (provider.cpp 100-120)   *)
OwnConnection ==
  \A v \in Vsims : toVsim[v] # <<>> =>
    /\ toVsim[v][1].msg.vsim = v
    /\ client = v => session = [vsim |-> v, run |-> serverRuns]

(* No read can return parts of two messages: neither side sends before the *)
(* previous message of its own has been read or the connection is lost.    *)
(* The unframed reads on both sides depend on it.                          *)
(* (provider.cpp 182, 280; host-fpga.cpp 178)                              *)
OneMessageInFlight ==
  \A v \in Vsims : Len(toServer[v]) <= 2 /\ Len(toVsim[v]) <= 2

(* The Ack is copied into the buffer that was allocated for the response:  *)
(* it always fits.  (fpga-provision.c 63, 139)                             *)
AckFits ==
  \A v \in Vsims : vsimPc[v] = "read_ack" => Bytes(toVsim[v]) <= copySize[v]

(* Only an Ack that was just read off the connection ends a handshake      *)
(* well, never what an earlier read left in data_copy.                     *)
(* (fpga-provision.c 137-149, host-fpga.cpp 257-277)                       *)
AckIsFresh ==
  [][\A v \in Vsims : vsimPc[v] # "done" /\ vsimPc'[v] = "done" =>
       toVsim[v] # <<>>]_vars

(* The four messages and everything that can go wrong with them implement  *)
(* Agreement: what the vSIM settles on, the server attests once, then      *)
(* acknowledges once, and only then the vSIM ends well.                    *)
(* (fpga-provision.c 36-152, provider.cpp 180-385)                         *)
Outcome(v) ==
  IF Ended(v) THEN IF vsimPc[v] = "done" THEN "done" ELSE "failed" ELSE "open"

Promise == INSTANCE Agreement WITH
  Sessions <- Session,
  key      <- vsimKey,
  outcome  <- [v \in Vsims |-> Outcome(v)]

Agrees == Promise!Spec

(* The server never sends on a connection that has been reset: of two      *)
(* sends one recv that succeeded lies in between, and a vSIM that sends    *)
(* has read everything before.  (provider.cpp 267, 382)                    *)
NoSigpipe ==
  serverPc \in {"send_response", "send_ack"} => ~reset[client]

(* Nobody is forgotten, and the two sides never wait for each other: a     *)
(* vSIM that waits for an answer is in the backlog, or the server has what *)
(* it needs to go on with it; a server that waits for its client has one   *)
(* that can go on, or one that vanished.                                   *)
(* (host-fpga.cpp 257-277, provider.cpp 100-120, 182, 280)                 *)
NoMutualWait ==
  /\ \A v \in Vsims :
       /\ vsimPc[v] \in {"read_response", "read_ack"}
       /\ toVsim[v] = <<>> /\ serverOpen[v]
       => \/ \E i \in DOMAIN backlog : backlog[i] = v
          \/ /\ client = v
             /\ serverPc \in {"send_response", "send_ack"} \/ toServer[v] # <<>>
  /\ /\ serverPc \in {"recv_request", "recv_attestation"}
     /\ toServer[client] = <<>> /\ vsimOpen[client]
     => \/ vsimPc[client] \in {"send_request", "send_attestation", "vanished"}
        \/ vsimPc[client] = "read_response" /\ toVsim[client] # <<>>

(* recv has no timeout and connections are served in turn: a vSIM that     *)
(* vanished may hold the server for ever.  That is the only way to wait    *)
(* for ever: otherwise every vSIM that starts ends, served or not.         *)
(* (fpga-provision.c 36-152, provider.cpp 100-120, 182, 280)               *)
HeldByVanished == client # NoClient /\ vsimPc[client] = "vanished"

EveryVsimEnds ==
  \/ <>[]HeldByVanished
  \/ \A v \in Vsims : (vsimPc[v] # "off") ~> Ended(v)

(* provider.cpp 329: "Verify hash": only an enclave whose measurement is   *)
(* the expected one is acknowledged.                                       *)
AckedIsVerified == \A s \in acked : s.vsim \in Expected
=============================================================================

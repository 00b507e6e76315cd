------------------------- MODULE ProvisionProgress --------------------------
(***************************************************************************)
(* Nobody is forgotten in a handshake, and the two sides never wait for    *)
(* each other (NoMutualWait), for any number of vSIMs and server runs, any *)
(* place where TCP cuts a message and any faults.                          *)
(*                                                                         *)
(* Inv says what may be under way; it does not say that something is.      *)
(* Moving adds that: the server's end of a connection is open as long as   *)
(* the server is to serve it or serves it (Held), and whoever is waited    *)
(* for has sent, or is about to (InFlight).                                *)
(*                                                                         *)
(* The second part counts: how many steps a vSIM takes, how many the       *)
(* server takes for it, and in which order the vSIMs are served.           *)
(***************************************************************************)
EXTENDS ProvisionProofs

USE ConstantsAssumption

(* The server has a connection of v to serve. *)
Held(v) == Queued(v) \/ client = v

(* While the server waits for something of v, v is not waiting for the     *)
(* server, or there is something under way.                                *)
InFlight(v) ==
  /\ Queued(v) \/ (client = v /\ serverPc = "recv_request") =>
       (vsimPc[v] = "read_response" => toServer[v] # <<>>)
  /\ client = v /\ serverPc = "recv_attestation" =>
       /\ vsimPc[v] = "read_response" => toVsim[v] # <<>>
       /\ vsimPc[v] = "read_ack" => toServer[v] # <<>>

(* A vSIM that ends closes its end, unless it vanishes. *)
Closes(v) == vsimOpen[v] /\ Ended(v) => vsimPc[v] = "vanished"

Moving(v) == /\ serverOpen[v] <=> Held(v)
             /\ InFlight(v)
             /\ Closes(v)

AllMoving == \A v \in Vsims : Moving(v)

-----------------------------------------------------------------------------
LEMMA InitMoving == Init => AllMoving
<1> SUFFICES ASSUME Init, NEW v \in Vsims PROVE Moving(v)
  BY DEF AllMoving
<1>1. ~Queued(v) /\ client # v /\ ~serverOpen[v] /\ ~vsimOpen[v]
  BY DEF Init, Queued
<1> QED
  BY <1>1 DEF Moving, Held, InFlight, Closes

(* What Moving(w) depends on stays as it is. *)
Still(w) ==
  /\ toServer'[w] = toServer[w] /\ toVsim'[w] = toVsim[w]
  /\ vsimOpen'[w] = vsimOpen[w] /\ serverOpen'[w] = serverOpen[w]
  /\ vsimPc'[w] = vsimPc[w]
  /\ Queued(w)' <=> Queued(w)
  /\ client' = w <=> client = w
  /\ client = w => serverPc' = serverPc

LEMMA StillMoving ==
  ASSUME NEW w \in Vsims, Moving(w), Still(w)
  PROVE  Moving(w)'
<1>1. serverOpen'[w] <=> Held(w)'
  BY DEF Moving, Still, Held
<1>2. InFlight(w)'
  BY DEF Moving, Still, InFlight
<1>3. Closes(w)'
  BY DEF Moving, Still, Closes, Ended
<1> QED
  BY <1>1, <1>2, <1>3 DEF Moving

LEMMA Others ==
  ASSUME NEW v, AllMoving, \A w \in Vsims \ {v} : Still(w),
         v \in Vsims => Moving(v)'
  PROVE  AllMoving'
<1>1. ASSUME NEW w \in Vsims, w # v PROVE Moving(w)'
  BY <1>1, StillMoving DEF AllMoving
<1> QED
  BY <1>1 DEF AllMoving

-----------------------------------------------------------------------------
(* The steps of a vSIM *)

LEMMA VsimStartMoving ==
  ASSUME NEW v \in Vsims, Inv, AllMoving, VsimStart(v)
  PROVE  AllMoving'
<1> USE DEF VsimStart, netVars, serverVars
<1>1. vsimPc'[v] = "connect"
  BY DEF Inv, TypeOK
<1>2. \A w \in Vsims \ {v} : Still(w)
  BY DEF Still, Queued, Inv, TypeOK
<1>3. Moving(v)'
  BY <1>1 DEF AllMoving, Moving, Held, Queued, InFlight, Closes, Ended
<1> QED
  BY <1>2, <1>3, Others

(* Before it connects, a vSIM is unknown to the server. *)
LEMMA Unknown ==
  ASSUME NEW v \in Vsims, Inv, vsimPc[v] \in {"off", "connect"}
  PROVE  ~Queued(v) /\ client # v
BY DEF Inv, Good, Waiting, Served, Connected

LEMMA VsimConnectMoving ==
  ASSUME NEW v \in Vsims, Inv, AllMoving, VsimConnect(v)
  PROVE  AllMoving'
<1> USE DEF VsimConnect
<1>1. vsimPc[v] = "connect" /\ vsimPc'[v] = "send_request" /\ serverOpen'[v]
  BY DEF Inv, TypeOK
<1>2. client' # v
  BY <1>1, Unknown DEF serverVars
<1>3. /\ DOMAIN backlog' = 1 .. Len(backlog) + 1
      /\ DOMAIN backlog = 1 .. Len(backlog) /\ Len(backlog) \in Nat
      /\ \A i \in DOMAIN backlog : backlog'[i] = backlog[i]
      /\ backlog'[Len(backlog) + 1] = v
  <2>1. backlog \in Seq(Vsims) /\ backlog' = Append(backlog, v)
    BY DEF Inv, TypeOK
  <2> QED
    BY <2>1, Appended
<1>4. Queued(v)' /\ \A w \in Vsims \ {v} : Queued(w)' <=> Queued(w)
  BY <1>3 DEF Queued
<1>5. \A w \in Vsims \ {v} : Still(w)
  BY <1>4 DEF Still, serverVars, Inv, TypeOK
<1>6. Moving(v)'
  BY <1>1, <1>2, <1>4 DEF Moving, Held, InFlight, Closes, Ended
<1> QED
  BY <1>5, <1>6, Others

LEMMA VsimConnectFailsMoving ==
  ASSUME NEW v \in Vsims, Inv, AllMoving, VsimConnectFails(v)
  PROVE  AllMoving'
<1> USE DEF VsimConnectFails, netVars, serverVars
<1>1. vsimPc[v] = "connect" /\ vsimPc'[v] = "read_response"
  BY DEF Inv, TypeOK
<1>2. ~Queued(v)' /\ client' # v /\ ~serverOpen'[v]
  BY <1>1, Unknown DEF Queued, AllMoving, Moving, Held
<1>3. \A w \in Vsims \ {v} : Still(w)
  BY DEF Still, Queued, Inv, TypeOK
<1>4. Moving(v)'
  BY <1>1, <1>2 DEF Moving, Held, InFlight, Closes, Ended
<1> QED
  BY <1>3, <1>4, Others

(* What v sends to an open connection is under way. *)
LEMMA Sends ==
  ASSUME NEW v \in Vsims, Inv, AllMoving, NEW m, Send(v, m), toServer[v] = <<>>
  PROVE  /\ Held(v) => toServer'[v] # <<>>
         /\ \A w \in Vsims \ {v} : toServer'[w] = toServer[w]
<1>1. Held(v) => toServer'[v] = Pieces(m)
  BY PiecesFacts DEF Send, AllMoving, Moving, Inv, TypeOK
<1> QED
  BY <1>1, PiecesFacts DEF Send, Inv, TypeOK

LEMMA VsimSendRequestMoving ==
  ASSUME NEW v \in Vsims, Inv, AllMoving, VsimSendRequest(v)
  PROVE  AllMoving'
<1>1. /\ vsimPc[v] = "send_request" /\ Send(v, Request(v))
      /\ vsimPc' = [vsimPc EXCEPT ![v] = "read_response"]
      /\ UNCHANGED <<toVsim, vsimOpen, serverOpen, reset, backlog>>
      /\ UNCHANGED serverVars
  BY DEF VsimSendRequest
<1>2. Good(v) /\ vsimPc'[v] = "read_response"
  BY <1>1 DEF Inv, TypeOK
<1>3. toServer[v] = <<>> /\ ~(client = v /\ serverPc = "recv_attestation")
  BY <1>1, <1>2 DEF Good, Streams, Served
<1>4. /\ Held(v) => toServer'[v] # <<>>
      /\ \A w \in Vsims \ {v} : toServer'[w] = toServer[w]
  BY <1>1, <1>3, Sends
<1>5. \A w \in Vsims \ {v} : Still(w)
  BY <1>1, <1>4 DEF Still, Queued, serverVars, Inv, TypeOK
<1>6. Moving(v)'
  BY <1>1, <1>2, <1>3, <1>4 DEF AllMoving, Moving, Held, Queued, InFlight,
     Closes, Ended, serverVars
<1> QED
  BY <1>5, <1>6, Others

LEMMA VsimSendAttestationMoving ==
  ASSUME NEW v \in Vsims, Inv, AllMoving, VsimSendAttestation(v)
  PROVE  AllMoving'
<1>1. /\ vsimPc[v] = "send_attestation" /\ Send(v, Attestation(vsimKey[v]))
      /\ vsimPc' = [vsimPc EXCEPT ![v] = "read_ack"]
      /\ UNCHANGED <<toVsim, vsimOpen, serverOpen, reset, backlog>>
      /\ UNCHANGED serverVars
  BY DEF VsimSendAttestation
<1>2. Good(v) /\ vsimPc'[v] = "read_ack"
  BY <1>1 DEF Inv, TypeOK
<1>3. toServer[v] = <<>>
  BY <1>1, <1>2 DEF Good, Streams
<1>4. /\ Held(v) => toServer'[v] # <<>>
      /\ \A w \in Vsims \ {v} : toServer'[w] = toServer[w]
  BY <1>1, <1>3, Sends
<1>5. \A w \in Vsims \ {v} : Still(w)
  BY <1>1, <1>4 DEF Still, Queued, serverVars, Inv, TypeOK
<1>6. Moving(v)'
  BY <1>1, <1>2, <1>4 DEF AllMoving, Moving, Held, Queued, InFlight, Closes,
     Ended, serverVars
<1> QED
  BY <1>5, <1>6, Others

LEMMA VsimReadResponseMoving ==
  ASSUME NEW v \in Vsims, Inv, AllMoving, VsimReadResponse(v)
  PROVE  AllMoving'
<1>1. /\ vsimPc[v] = "read_response" /\ toVsim[v] # <<>>
      /\ \E s : toVsim' = [toVsim EXCEPT ![v] = s]
      /\ \/ /\ vsimPc' = [vsimPc EXCEPT ![v] = "send_attestation"]
            /\ UNCHANGED vsimOpen
         \/ /\ vsimPc' = [vsimPc EXCEPT ![v] = "failed"]
            /\ vsimOpen' = [vsimOpen EXCEPT ![v] = FALSE]
      /\ UNCHANGED <<toServer, serverOpen, backlog>> /\ UNCHANGED serverVars
  <2>1. PICK n \in ReadSizes(toVsim[v]) :
          /\ toVsim' = [toVsim EXCEPT ![v] = Rest(@, n)]
          /\ \/ /\ vsimPc' = [vsimPc EXCEPT ![v] = "send_attestation"]
                /\ UNCHANGED vsimOpen
             \/ VsimEnds(v, "failed")
    BY DEF VsimReadResponse
  <2>2. toVsim[v] # <<>>
    BY <2>1 DEF ReadSizes
  <2>3. \E s : toVsim' = [toVsim EXCEPT ![v] = s]
    BY <2>1
  <2> QED
    BY <2>1, <2>2, <2>3 DEF VsimReadResponse, VsimEnds
<1>2. \/ vsimPc'[v] = "send_attestation"
      \/ vsimPc'[v] = "failed" /\ ~vsimOpen'[v]
  BY <1>1 DEF Inv, TypeOK
<1>3. \A w \in Vsims \ {v} : Still(w)
  BY <1>1 DEF Still, Queued, serverVars, Inv, TypeOK
<1>4. Moving(v)'
  BY <1>1, <1>2 DEF AllMoving, Moving, Held, Queued, InFlight, Closes, Ended,
     serverVars
<1> QED
  BY <1>3, <1>4, Others

(* A vSIM ends: it waits for nothing any more. *)
LEMMA EndingMoving ==
  ASSUME NEW v \in Vsims, Inv, AllMoving,
         NEW pc \in {"done", "failed", "killed", "vanished"},
         vsimPc' = [vsimPc EXCEPT ![v] = pc],
         pc = "vanished" \/ vsimOpen' = [vsimOpen EXCEPT ![v] = FALSE],
         \A w \in Vsims \ {v} :
           /\ toServer'[w] = toServer[w] /\ toVsim'[w] = toVsim[w]
           /\ vsimOpen'[w] = vsimOpen[w],
         UNCHANGED <<serverOpen, backlog, serverVars>>
  PROVE  AllMoving'
<1>1. vsimPc'[v] = pc /\ (pc = "vanished" \/ ~vsimOpen'[v])
  BY DEF Inv, TypeOK
<1>2. \A w \in Vsims \ {v} : Still(w)
  BY DEF Still, Queued, serverVars, Inv, TypeOK
<1>3. Moving(v)'
  BY <1>1 DEF AllMoving, Moving, Held, Queued, InFlight, Closes, Ended,
     serverVars
<1> QED
  BY <1>2, <1>3, Others

LEMMA VsimEndsMoving ==
  ASSUME NEW v \in Vsims, Inv, AllMoving,
         VsimReadAck(v) \/ VsimReadNothing(v) \/ VsimKilled(v) \/ VsimVanishes(v)
  PROVE  AllMoving'
<1>1. CASE VsimReadAck(v)
  <2>1. PICK pc \in {"done", "failed"} :
          /\ vsimPc' = [vsimPc EXCEPT ![v] = pc]
          /\ vsimOpen' = [vsimOpen EXCEPT ![v] = FALSE]
    BY <1>1 DEF VsimReadAck, VsimEnds
  <2>2. /\ \E s : toVsim' = [toVsim EXCEPT ![v] = s]
        /\ UNCHANGED <<toServer, serverOpen, backlog, serverVars>>
    BY <1>1 DEF VsimReadAck
  <2> QED
    BY <2>1, <2>2, EndingMoving DEF Inv, TypeOK
<1>2. CASE VsimReadNothing(v)
  <2>1. PICK pc \in {"done", "failed"} :
          /\ vsimPc' = [vsimPc EXCEPT ![v] = pc]
          /\ vsimOpen' = [vsimOpen EXCEPT ![v] = FALSE]
    BY <1>2 DEF VsimReadNothing, VsimEnds
  <2>2. UNCHANGED <<toVsim, toServer, serverOpen, backlog, serverVars>>
    BY <1>2 DEF VsimReadNothing
  <2> QED
    BY <2>1, <2>2, EndingMoving DEF Inv, TypeOK
<1>3. CASE VsimKilled(v)
  <2>1. /\ vsimPc' = [vsimPc EXCEPT ![v] = "killed"]
        /\ vsimOpen' = [vsimOpen EXCEPT ![v] = FALSE]
        /\ \A w \in Vsims \ {v} : toServer'[w] = toServer[w]
        /\ UNCHANGED <<toVsim, serverOpen, backlog, serverVars>>
    BY <1>3 DEF VsimKilled, VsimEnds, Inv, TypeOK
  <2> QED
    BY <2>1, EndingMoving DEF Inv, TypeOK
<1>4. CASE VsimVanishes(v)
  <2>1. /\ vsimPc' = [vsimPc EXCEPT ![v] = "vanished"]
        /\ \A w \in Vsims \ {v} : toServer'[w] = toServer[w]
        /\ UNCHANGED <<toVsim, vsimOpen, serverOpen, backlog, serverVars>>
    BY <1>4 DEF VsimVanishes, Inv, TypeOK
  <2> QED
    BY <2>1, EndingMoving
<1> QED
  BY <1>1, <1>2, <1>3, <1>4

-----------------------------------------------------------------------------
(* The steps of the server *)

LEMMA ServerStartMoving == ASSUME Inv, AllMoving, ServerStart PROVE AllMoving'
<1> USE DEF ServerStart, vsimVars
<1>1. client = NoClient /\ client' = NoClient /\ backlog = <<>> /\ backlog' = <<>>
  BY DEF Inv, TypeOK, Queue
<1>2. \A w \in Vsims : Still(w)
  BY <1>1 DEF Still, Queued
<1> QED
  BY <1>2, StillMoving DEF AllMoving

LEMMA ServerAcceptMoving == ASSUME Inv, AllMoving, ServerAccept PROVE AllMoving'
<1> USE DEF ServerAccept, vsimVars
<1>1. /\ backlog \in Seq(Vsims) /\ backlog # <<>> /\ client = NoClient
      /\ backlog' = Tail(backlog)
  BY DEF Inv, TypeOK
<1>2. PICK c \in Vsims : c = backlog[1]
  BY <1>1
<1>3. /\ DOMAIN backlog = 1 .. Len(backlog) /\ 1 \in DOMAIN backlog
      /\ DOMAIN backlog' = 1 .. Len(backlog) - 1 /\ Len(backlog) \in Nat
      /\ \A i \in DOMAIN backlog' : backlog'[i] = backlog[i + 1]
  BY <1>1
<1>4. client' = c /\ Queued(c)
  BY <1>1, <1>2, <1>3 DEF Queued
<1>5. ASSUME NEW w \in Vsims \ {c} PROVE Still(w)
  <2>1. Queued(w)' => Queued(w)
    BY <1>3 DEF Queued
  <2>2. ASSUME NEW i \in DOMAIN backlog, backlog[i] = w PROVE Queued(w)'
    <3>1. i # 1
      BY <1>2, <2>2
    <3>2. i - 1 \in DOMAIN backlog' /\ (i - 1) + 1 = i
      BY <1>3, <3>1
    <3>3. backlog'[i - 1] = w
      BY <1>3, <2>2, <3>2
    <3> QED
      BY <3>2, <3>3 DEF Queued
  <2>3. client # w /\ client' # w
    BY <1>1, <1>4
  <2> QED
    BY <2>1, <2>2, <2>3 DEF Still, Queued
<1>6. Moving(c)'
  BY <1>4 DEF AllMoving, Moving, Held, InFlight, Closes, Ended
<1> QED
  BY <1>5, <1>6, Others

(* A closed connection is no longer held. *)
LEMMA ClosedMoving ==
  ASSUME Inv, AllMoving, serverPc \notin {"down", "accept"}, CloseConnection,
         \A w \in Vsims \ {client} : toServer'[w] = toServer[w] /\ toVsim'[w] = toVsim[w],
         UNCHANGED <<vsimOpen, backlog, vsimPc>>
  PROVE  AllMoving'
<1> USE DEF CloseConnection
<1>1. client \in Vsims /\ ~Queued(client)
  BY ClientFacts
<1> PICK c \in Vsims : c = client
  BY <1>1
<1>2. ~Queued(c)' /\ client' # c /\ ~serverOpen'[c]
  BY <1>1 DEF Queued, Inv, TypeOK
<1>3. \A w \in Vsims \ {c} : Still(w)
  BY DEF Still, Queued, Inv, TypeOK
<1>4. Moving(c)'
  BY <1>2 DEF AllMoving, Moving, Held, InFlight, Closes, Ended
<1> QED
  BY <1>3, <1>4, Others

(* The server goes on with its client and waits for nothing of it. *)
LEMMA GoesOnMoving ==
  ASSUME Inv, AllMoving, serverPc \notin {"down", "accept"}, client' = client,
         serverPc' \in {"send_response", "send_ack"},
         \A w \in Vsims \ {client} : toServer'[w] = toServer[w],
         UNCHANGED <<toVsim, vsimOpen, serverOpen, backlog, vsimPc>>
  PROVE  AllMoving'
<1>1. client \in Vsims /\ ~Queued(client)
  BY ClientFacts
<1> PICK c \in Vsims : c = client
  BY <1>1
<1>2. \A w \in Vsims \ {c} : Still(w)
  BY DEF Still, Queued
<1>3. Moving(c)'
  BY <1>1 DEF AllMoving, Moving, Held, Queued, InFlight, Closes, Ended
<1> QED
  BY <1>2, <1>3, Others

LEMMA ServerRecvRequestMoving ==
  ASSUME Inv, AllMoving, ServerRecvRequest PROVE AllMoving'
<1>1. /\ serverPc = "recv_request"
      /\ \E s : toServer' = [toServer EXCEPT ![client] = s]
      /\ UNCHANGED <<toVsim, vsimOpen, backlog, vsimPc>>
      /\ CloseConnection \/ (serverPc' = "send_response" /\ UNCHANGED <<serverOpen, client>>)
  BY DEF ServerRecvRequest, vsimVars
<1>2. \A w \in Vsims \ {client} : toServer'[w] = toServer[w] /\ toVsim'[w] = toVsim[w]
  BY <1>1 DEF Inv, TypeOK
<1> QED
  BY <1>1, <1>2, ClosedMoving, GoesOnMoving

LEMMA ServerRecvAttestationMoving ==
  ASSUME Inv, AllMoving, ServerRecvAttestation PROVE AllMoving'
<1>1. /\ serverPc = "recv_attestation"
      /\ \E s : toServer' = [toServer EXCEPT ![client] = s]
      /\ UNCHANGED <<toVsim, vsimOpen, backlog, vsimPc>>
      /\ CloseConnection \/ (serverPc' = "send_ack" /\ UNCHANGED <<serverOpen, client>>)
  BY DEF ServerRecvAttestation, vsimVars
<1>2. \A w \in Vsims \ {client} : toServer'[w] = toServer[w] /\ toVsim'[w] = toVsim[w]
  BY <1>1 DEF Inv, TypeOK
<1> QED
  BY <1>1, <1>2, ClosedMoving, GoesOnMoving

LEMMA ServerClosesMoving ==
  ASSUME Inv, AllMoving, ServerSendAck \/ ServerRecvNothing \/ ServerSendTimesOut
  PROVE  AllMoving'
<1>1. /\ serverPc \notin {"down", "accept"} /\ CloseConnection
      /\ \A w \in Vsims \ {client} : toVsim'[w] = toVsim[w]
      /\ UNCHANGED <<toServer, vsimOpen, backlog, vsimPc>>
  BY DEF ServerSendAck, ServerRecvNothing, ServerSendTimesOut, SendToVsim,
     vsimVars, Inv, TypeOK
<1> QED
  BY <1>1, ClosedMoving

(* The response is under way to a client that waits for it. *)
LEMMA ServerSendResponseMoving ==
  ASSUME Inv, AllMoving, ServerSendResponse PROVE AllMoving'
<1> USE DEF ServerSendResponse, vsimVars
<1>1. client \in Vsims /\ Good(client) /\ ~Queued(client) /\ Connected(client)
  BY ClientFacts
<1> PICK c \in Vsims : c = client
  BY <1>1
<1>2. toVsim[c] = <<>> /\ vsimKey[c] = NoSession
  BY <1>1 DEF Good, Served, Unserved
<1>3. vsimPc[c] # "read_ack"
  BY <1>1, <1>2 DEF Good, Keys
<1>4. vsimPc[c] = "read_response" => toVsim'[c] # <<>>
  <2> SUFFICES ASSUME vsimPc[c] = "read_response" PROVE toVsim'[c] # <<>>
    OBVIOUS
  <2>1. vsimOpen[c]
    BY <1>1 DEF Connected, Ended
  <2>2. toVsim'[c] = Pieces(Response(session))
    BY <1>2, <2>1, PiecesFacts DEF SendToVsim, Inv, TypeOK
  <2> QED
    BY <2>2, PiecesFacts
<1>5. \A w \in Vsims \ {c} : Still(w)
  BY DEF Still, Queued, SendToVsim, Inv, TypeOK
<1>6. Moving(c)'
  BY <1>1, <1>3, <1>4 DEF AllMoving, Moving, Held, Queued, InFlight, Closes,
     Ended
<1> QED
  BY <1>5, <1>6, Others

LEMMA ServerDiesMoving ==
  ASSUME Inv, AllMoving, ServerKilled \/ ServerLengthWraps PROVE AllMoving'
<1>1. /\ serverOpen' = [v \in Vsims |-> FALSE]
      /\ backlog' = <<>> /\ client' = NoClient
      /\ UNCHANGED <<vsimOpen, vsimPc>>
  BY DEF ServerKilled, ServerLengthWraps, ServerDies, vsimVars
<1>2. ASSUME NEW v \in Vsims PROVE Moving(v)'
  <2>1. ~serverOpen'[v] /\ ~Queued(v)' /\ client' # v
    BY <1>1 DEF Queued
  <2> QED
    BY <1>1, <2>1 DEF AllMoving, Moving, Held, InFlight, Closes, Ended
<1> QED
  BY <1>2 DEF AllMoving

-----------------------------------------------------------------------------
LEMMA NextMoving == Inv /\ AllMoving /\ [Next]_vars => AllMoving'
<1> SUFFICES ASSUME Inv, AllMoving, [Next]_vars PROVE AllMoving'
  OBVIOUS
<1>1. CASE ServerStep
  BY <1>1, ServerAcceptMoving, ServerRecvRequestMoving,
     ServerSendResponseMoving, ServerRecvAttestationMoving,
     ServerClosesMoving DEF ServerStep
<1>2. ASSUME NEW v \in Vsims, VsimStep(v) PROVE AllMoving'
  BY <1>2, VsimConnectMoving, VsimConnectFailsMoving, VsimSendRequestMoving,
     VsimReadResponseMoving, VsimSendAttestationMoving, VsimEndsMoving
     DEF VsimStep
<1>3. CASE Environment
  BY <1>3, ServerStartMoving, ServerDiesMoving, ServerClosesMoving,
     VsimStartMoving, VsimEndsMoving DEF Environment
<1>4. CASE UNCHANGED vars
  <2>1. \A w \in Vsims : Still(w)
    BY <1>4 DEF Still, Queued, vars, netVars, serverVars, vsimVars
  <2> QED
    BY <2>1, StillMoving DEF AllMoving
<1> QED
  BY <1>1, <1>2, <1>3, <1>4 DEF Next

THEOREM MovingInvariance == Spec => []AllMoving
<1> QED
  BY InitMoving, NextMoving, Invariance, PTL DEF Spec

LEMMA NobodyWaits == Inv /\ AllMoving => NoMutualWait
<1> SUFFICES ASSUME Inv, AllMoving PROVE NoMutualWait
  OBVIOUS
<1>1. ASSUME NEW v \in Vsims, vsimPc[v] \in {"read_response", "read_ack"},
             toVsim[v] = <<>>, serverOpen[v], ~Queued(v)
      PROVE  client = v /\ (serverPc \in {"send_response", "send_ack"} \/ toServer[v] # <<>>)
  <2>1. client = v /\ InFlight(v)
    BY <1>1 DEF AllMoving, Moving, Held
  <2>2. serverPc \in {"recv_request", "send_response", "recv_attestation", "send_ack"}
    BY <2>1 DEF Inv, TypeOK, ServerPcs
  <2>3. serverPc = "recv_request" => vsimPc[v] # "read_ack"
    BY <2>1 DEF Inv, Good, Keys, Served, Unserved
  <2> QED
    BY <1>1, <2>1, <2>2, <2>3 DEF InFlight
<1>2. ASSUME serverPc \in {"recv_request", "recv_attestation"},
             toServer[client] = <<>>, vsimOpen[client]
      PROVE  \/ vsimPc[client] \in {"send_request", "send_attestation", "vanished"}
             \/ vsimPc[client] = "read_response" /\ toVsim[client] # <<>>
  <2>1. client \in Vsims /\ Good(client) /\ Connected(client) /\ Moving(client)
    BY <1>2, ClientFacts DEF AllMoving
  <2>2. vsimPc[client] \in VsimPcs /\ vsimPc[client] \notin {"off", "connect"}
    BY <2>1 DEF Inv, TypeOK, Connected
  <2>3. vsimPc[client] \in {"done", "failed", "killed", "vanished"} => vsimPc[client] = "vanished"
    BY <1>2, <2>1 DEF Moving, Closes, Ended
  <2>4. vsimPc[client] # "read_ack"
    BY <1>2, <2>1 DEF Moving, InFlight, Good, Keys, Served, Unserved
  <2>5. vsimPc[client] = "read_response" => toVsim[client] # <<>>
    BY <1>2, <2>1 DEF Moving, InFlight
  <2> QED
    BY <2>2, <2>3, <2>4, <2>5 DEF VsimPcs
<1> QED
  BY <1>1, <1>2 DEF NoMutualWait, Queued

(* Nobody is forgotten in a handshake and the two sides never wait for     *)
(* each other.                                                             *)
(* (host-fpga.cpp 257-277, provider.cpp 100-120, 182, 280)                 *)
THEOREM NoMutualWaitHolds == Spec => []NoMutualWait
<1> QED
  BY NobodyWaits, Invariance, MovingInvariance, PTL

-----------------------------------------------------------------------------
(***************************************************************************)
(* What EveryVsimEnds rests on besides fairness and NoMutualWait: that     *)
(* every step of a vSIM and every step of the server for a client brings   *)
(* the handshake closer to its end, and that the backlog is served in turn.*)
(***************************************************************************)

(* The steps a vSIM has yet to take until it ends *)
VsimLeft(v) ==
  CASE vsimPc[v] = "connect"          -> 5
    [] vsimPc[v] = "send_request"     -> 4
    [] vsimPc[v] = "read_response"    -> 3
    [] vsimPc[v] = "send_attestation" -> 2
    [] vsimPc[v] = "read_ack"         -> 1
    [] OTHER                          -> 0

(* The steps the server has yet to take for its client *)
ServerLeft ==
  CASE serverPc = "recv_request"     -> 4
    [] serverPc = "send_response"    -> 3
    [] serverPc = "recv_attestation" -> 2
    [] serverPc = "send_ack"         -> 1
    [] OTHER                         -> 0

(* A vSIM that has started never goes back, nor on once it has ended: a    *)
(* failed step ends it, nothing is tried again.  (fpga-provision.c 36-152) *)
VsimMovesOn ==
  [][\A v \in Vsims : vsimPc[v] # "off" =>
       vsimPc'[v] = vsimPc[v] \/ VsimLeft(v)' < VsimLeft(v)]_vars

(* The server takes up its client once, and after four steps at most it    *)
(* lets go of it.  (provider.cpp 100-120, 180-385)                         *)
ServerMovesOn ==
  [][client # NoClient =>
       \/ client' = NoClient
       \/ client' = client /\ (serverPc' = serverPc \/ ServerLeft' < ServerLeft)]_vars

(* The vSIM at place i of the backlog stays there, moves up, or is served. *)
KeepsPlace(i) ==
  \/ i \in DOMAIN backlog' /\ backlog'[i] = backlog[i]
  \/ i = 1 /\ client' = backlog[i]
  \/ i - 1 \in DOMAIN backlog' /\ backlog'[i - 1] = backlog[i]

(* Connections are served in the order they were made in, until the server *)
(* goes down.  (provider.cpp 100-120)                                      *)
ServedInTurn ==
  [][\A i \in DOMAIN backlog : serverPc' = "down" \/ KeepsPlace(i)]_vars

LEMMA VsimCloser ==
  ASSUME TypeOK, Next, NEW v \in Vsims, vsimPc[v] # "off"
  PROVE  vsimPc'[v] = vsimPc[v] \/ VsimLeft(v)' < VsimLeft(v)
<1>1. CASE UNCHANGED vsimPc
  BY <1>1
<1>2. ASSUME NEW w \in Vsims, NEW pc,
             vsimPc' = [vsimPc EXCEPT ![w] = pc],
             VsimLeft(w)' < VsimLeft(w) \/ vsimPc[w] = "off"
      PROVE  vsimPc'[v] = vsimPc[v] \/ VsimLeft(v)' < VsimLeft(v)
  BY <1>2 DEF TypeOK
<1>3. ASSUME NEW w \in Vsims, VsimStep(w)
      PROVE  vsimPc'[v] = vsimPc[v] \/ VsimLeft(v)' < VsimLeft(v)
  <2>1. CASE VsimConnect(w)
    BY <1>2, <2>1 DEF VsimConnect, VsimLeft, TypeOK
  <2>2. CASE VsimConnectFails(w)
    BY <1>2, <2>2 DEF VsimConnectFails, VsimLeft, TypeOK
  <2>3. CASE VsimSendRequest(w)
    BY <1>2, <2>3 DEF VsimSendRequest, VsimLeft, TypeOK
  <2>4. CASE VsimReadResponse(w)
    <3>1. PICK pc \in {"send_attestation", "failed"} :
            vsimPc' = [vsimPc EXCEPT ![w] = pc]
      BY <2>4 DEF VsimReadResponse, VsimEnds
    <3> QED
      BY <1>2, <2>4, <3>1 DEF VsimReadResponse, VsimLeft, TypeOK
  <2>5. CASE VsimSendAttestation(w)
    BY <1>2, <2>5 DEF VsimSendAttestation, VsimLeft, TypeOK
  <2>6. CASE VsimReadAck(w) \/ VsimReadNothing(w)
    <3>1. PICK pc \in {"done", "failed"} : vsimPc' = [vsimPc EXCEPT ![w] = pc]
      BY <2>6 DEF VsimReadAck, VsimReadNothing, VsimEnds
    <3>2. vsimPc[w] \in {"read_response", "read_ack"}
      BY <2>6 DEF VsimReadAck, VsimReadNothing
    <3> QED
      BY <1>2, <3>1, <3>2 DEF VsimLeft, TypeOK
  <2> QED
    BY <1>3, <2>1, <2>2, <2>3, <2>4, <2>5, <2>6 DEF VsimStep
<1>4. ASSUME NEW w \in Vsims, VsimStart(w) \/ VsimKilled(w) \/ VsimVanishes(w)
      PROVE  vsimPc'[v] = vsimPc[v] \/ VsimLeft(v)' < VsimLeft(v)
  <2>1. CASE VsimStart(w)
    BY <1>2, <2>1 DEF VsimStart
  <2>2. CASE VsimKilled(w) \/ VsimVanishes(w)
    <3>1. PICK pc \in {"killed", "vanished"} :
            vsimPc' = [vsimPc EXCEPT ![w] = pc]
      BY <2>2 DEF VsimKilled, VsimVanishes, VsimEnds
    <3>2. vsimPc[w] \in {"connect", "send_request", "read_response",
                         "send_attestation", "read_ack"}
      BY <2>2 DEF VsimKilled, VsimVanishes, Ended, TypeOK, VsimPcs
    <3> QED
      BY <1>2, <3>1, <3>2 DEF VsimLeft, TypeOK
  <2> QED
    BY <1>4, <2>1, <2>2
<1>5. CASE \/ ServerStep \/ ServerStart \/ ServerKilled \/ ServerLengthWraps
           \/ ServerSendTimesOut
  <2>1. UNCHANGED vsimPc
    BY <1>5 DEF ServerStep, ServerStart, ServerKilled, ServerLengthWraps,
       ServerSendTimesOut, ServerDies, ServerAccept, ServerRecvRequest,
       ServerSendResponse, ServerRecvAttestation, ServerSendAck,
       ServerRecvNothing, vsimVars
  <2> QED
    BY <1>1, <2>1
<1> QED
  BY <1>3, <1>4, <1>5 DEF Next, Environment

LEMMA ServerCloser ==
  ASSUME TypeOK, Next, client # NoClient
  PROVE  \/ client' = NoClient
         \/ client' = client /\ (serverPc' = serverPc \/ ServerLeft' < ServerLeft)
<1> USE DEF ServerLeft
<1>1. CASE ServerRecvRequest
  BY <1>1 DEF ServerRecvRequest, CloseConnection
<1>2. CASE ServerSendResponse
  BY <1>2 DEF ServerSendResponse
<1>3. CASE ServerRecvAttestation
  BY <1>3 DEF ServerRecvAttestation, CloseConnection
<1>4. CASE ServerSendAck \/ ServerRecvNothing \/ ServerSendTimesOut
  BY <1>4 DEF ServerSendAck, ServerRecvNothing, ServerSendTimesOut,
     CloseConnection
<1>5. CASE ServerKilled \/ ServerLengthWraps
  BY <1>5 DEF ServerKilled, ServerLengthWraps, ServerDies
<1>6. ~ServerStart /\ ~ServerAccept
  BY DEF ServerStart, ServerAccept, TypeOK
<1>7. ASSUME NEW v \in Vsims,
             VsimStep(v) \/ VsimStart(v) \/ VsimKilled(v) \/ VsimVanishes(v)
      PROVE  client' = client /\ serverPc' = serverPc
  BY <1>7 DEF VsimStep, VsimStart, VsimConnect, VsimConnectFails,
     VsimSendRequest, VsimReadResponse, VsimSendAttestation, VsimReadAck,
     VsimReadNothing, VsimKilled, VsimVanishes, serverVars
<1> QED
  BY <1>1, <1>2, <1>3, <1>4, <1>5, <1>6, <1>7 DEF Next, ServerStep, Environment

LEMMA PlaceKept ==
  ASSUME TypeOK, Queue, Next, NEW i \in DOMAIN backlog
  PROVE  serverPc' = "down" \/ KeepsPlace(i)
<1>1. ASSUME UNCHANGED backlog PROVE KeepsPlace(i)
  BY <1>1 DEF KeepsPlace
<1>2. /\ backlog \in Seq(Vsims) /\ DOMAIN backlog = 1 .. Len(backlog)
      /\ Len(backlog) \in Nat /\ i \in 1 .. Len(backlog)
  BY DEF TypeOK
<1>3. CASE ServerAccept
  <2>1. /\ backlog # <<>> /\ client' = backlog[1] /\ backlog' = Tail(backlog)
    BY <1>2, <1>3 DEF ServerAccept
  <2>2. CASE i = 1
    BY <2>1, <2>2 DEF KeepsPlace
  <2>3. CASE i # 1
    <3>1. /\ DOMAIN backlog' = 1 .. Len(backlog) - 1
          /\ \A j \in DOMAIN backlog' : backlog'[j] = backlog[j + 1]
      BY <1>2, <2>1
    <3>2. i - 1 \in DOMAIN backlog' /\ (i - 1) + 1 = i
      BY <1>2, <2>3, <3>1
    <3> QED
      BY <3>1, <3>2 DEF KeepsPlace
  <2> QED
    BY <2>2, <2>3
<1>4. ASSUME NEW v \in Vsims, VsimConnect(v) PROVE KeepsPlace(i)
  <2>1. backlog' = Append(backlog, v)
    BY <1>4 DEF VsimConnect
  <2>2. /\ DOMAIN backlog' = 1 .. Len(backlog) + 1
        /\ \A j \in DOMAIN backlog : backlog'[j] = backlog[j]
    BY <1>2, <2>1, Appended
  <2>3. i \in DOMAIN backlog'
    BY <1>2, <2>2
  <2> QED
    BY <2>2, <2>3 DEF KeepsPlace
<1>5. CASE ServerKilled \/ ServerLengthWraps
  BY <1>5 DEF ServerKilled, ServerLengthWraps, ServerDies
<1>6. ~ServerStart
  BY <1>2 DEF ServerStart, Queue
<1>7. CASE \/ ServerRecvRequest \/ ServerSendResponse \/ ServerRecvAttestation
           \/ ServerSendAck \/ ServerRecvNothing \/ ServerSendTimesOut
  BY <1>1, <1>7 DEF ServerRecvRequest, ServerSendResponse,
     ServerRecvAttestation, ServerSendAck, ServerRecvNothing,
     ServerSendTimesOut
<1>8. ASSUME NEW v \in Vsims,
             VsimStep(v) \/ VsimStart(v) \/ VsimKilled(v) \/ VsimVanishes(v),
             ~VsimConnect(v)
      PROVE  KeepsPlace(i)
  BY <1>1, <1>8 DEF VsimStep, VsimStart, VsimConnectFails, VsimSendRequest,
     VsimReadResponse, VsimSendAttestation, VsimReadAck, VsimReadNothing,
     VsimKilled, VsimVanishes, netVars
<1> QED
  BY <1>3, <1>4, <1>5, <1>6, <1>7, <1>8 DEF Next, ServerStep, Environment

(* A vSIM takes five steps at most and is served in the order in which it  *)
(* connected; the server takes four at most for each connection.  Together *)
(* with NoMutualWait, by which one of the two can always take its step:    *)
(* what EveryVsimEnds needs besides fairness.                              *)
(* (fpga-provision.c 36-152, provider.cpp 100-120, 180-385)                *)
THEOREM HandshakesMoveOn == Spec => VsimMovesOn /\ ServerMovesOn /\ ServedInTurn
<1>1. Inv /\ [Next]_vars =>
        [\A v \in Vsims : vsimPc[v] # "off" =>
           vsimPc'[v] = vsimPc[v] \/ VsimLeft(v)' < VsimLeft(v)]_vars
  BY VsimCloser DEF Inv
<1>2. Inv /\ [Next]_vars =>
        [client # NoClient =>
           \/ client' = NoClient
           \/ /\ client' = client
              /\ serverPc' = serverPc \/ ServerLeft' < ServerLeft]_vars
  BY ServerCloser DEF Inv
<1>3. Inv /\ [Next]_vars =>
        [\A i \in DOMAIN backlog : serverPc' = "down" \/ KeepsPlace(i)]_vars
  BY PlaceKept DEF Inv
<1> QED
  BY <1>1, <1>2, <1>3, Invariance, PTL
     DEF Spec, VsimMovesOn, ServerMovesOn, ServedInTurn
=============================================================================

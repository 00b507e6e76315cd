-------------------------- MODULE ProvisionProofs ---------------------------
(***************************************************************************)
(* Provision for any number of vSIMs and server runs, any place where TCP  *)
(* cuts a message and any faults.                                          *)
(*                                                                         *)
(* The argument is one about each vSIM v (Good): what may be under way to  *)
(* and from it (Streams), which key it may hold when (Keys), that nothing  *)
(* has happened to it before its connection is accepted (Waiting), and     *)
(* what the server knows of it while it serves it (Served).  A step is one *)
(* of a vSIM alone or of the server with its client; UntouchedGood covers  *)
(* all the other vSIMs.  The same facts then show which step of Agreement  *)
(* each step is.                                                           *)
(***************************************************************************)
EXTENDS Provision, SequenceTheorems, TLAPS

(* Who connects waits behind those who wait.                               *)
LEMMA Appended ==
  ASSUME NEW S, NEW s \in Seq(S), NEW e \in S
  PROVE  /\ Append(s, e) \in Seq(S)
         /\ Len(s) \in Nat /\ Len(Append(s, e)) = Len(s) + 1
         /\ DOMAIN s = 1 .. Len(s) /\ DOMAIN Append(s, e) = 1 .. Len(s) + 1
         /\ \A i \in DOMAIN s : Append(s, e)[i] = s[i]
         /\ Append(s, e)[Len(s) + 1] = e
<1>1. DOMAIN s = 1 .. Len(s) /\ Len(s) \in Nat
  BY LenProperties
<1>2. /\ Append(s, e) \in Seq(S) /\ Len(Append(s, e)) = Len(s) + 1
      /\ \A i \in 1 .. Len(s) : Append(s, e)[i] = s[i]
      /\ Append(s, e)[Len(s) + 1] = e
  BY AppendProperties
<1>3. DOMAIN Append(s, e) = 1 .. Len(Append(s, e))
  BY <1>2, LenProperties
<1> QED
  BY <1>1, <1>2, <1>3

USE ConstantsAssumption

(* What may be under way of a message of which some was read *)
Parts(m) == {<<>>, <<[msg |-> m, part |-> "tail"]>>, Pieces(m)}

LEMMA MessageTypes ==
  /\ NoSession \notin Session
  /\ \A v \in Vsims : Request(v) \in Message
  /\ \A s \in Session : Response(s) \in Message /\ Attestation(s) \in Message
                        /\ Ack(s) \in Message
BY DEF NoSession, Session, Message, Request, Response, Attestation, Ack, Length

LEMMA PiecesFacts ==
  ASSUME NEW m, NEW k
  PROVE  /\ Pieces(m) # <<>> /\ <<>> \o Pieces(m) = Pieces(m)
         /\ Pieces(m)[1].msg = m
         /\ Pieces(m) = Pieces(k) => m = k
         /\ <<>> \in Parts(m) /\ Pieces(m) \in Parts(m)
<1> DEFINE h == [msg |-> m, part |-> "head"]
           t == [msg |-> m, part |-> "tail"]
<1>1. Pieces(m) = <<h, t>> /\ h.msg = m
  BY DEF Pieces
<1>2. Pieces(m) = Pieces(k) => m = k
  BY DEF Pieces
<1>3. <<>> \in Parts(m) /\ Pieces(m) \in Parts(m)
  BY DEF Parts
<1> HIDE DEF h, t
<1> QED
  BY <1>1, <1>2, <1>3

LEMMA SubSeqOne ==
  ASSUME NEW S, NEW s \in Seq(S), NEW n \in 1 .. Len(s)
  PROVE  SubSeq(s, n, n) = <<s[n]>>
<1> DEFINE one == SubSeq(s, n, n)
           x == s[n]
<1>1. one \in Seq(S) /\ Len(one) = 1 /\ one[1] = x /\ x \in S
  OBVIOUS
<1> HIDE DEF one, x
<1>2. one = <<x>>
  BY <1>1
<1> QED
  BY <1>2 DEF one, x

(* A read takes from the front and leaves the rest. *)
LEMMA Cuts ==
  ASSUME NEW a, NEW b
  PROVE  /\ Read(<<a>>, 1) = <<a>> /\ Rest(<<a>>, 1) = <<>>
         /\ Read(<<a, b>>, 1) = <<a>> /\ Rest(<<a, b>>, 1) = <<b>>
         /\ Read(<<a, b>>, 2) = <<a, b>> /\ Rest(<<a, b>>, 2) = <<>>
<1> DEFINE S == {a, b}
           s == <<a, b>>
           t == <<a>>
<1>1. /\ s \in Seq(S) /\ Len(s) = 2 /\ s[1] = a /\ s[2] = b
      /\ t \in Seq(S) /\ Len(t) = 1 /\ t[1] = a
  OBVIOUS
<1> HIDE DEF S, s, t
<1>2. SubSeq(s, 1, 2) = s
  BY <1>1, SubSeqFull
<1>3. 1 \in 1 .. Len(s) /\ 2 \in 1 .. Len(s) /\ 1 \in 1 .. Len(t)
  BY <1>1
<1>4. /\ SubSeq(s, 1, 1) = <<s[1]>> /\ SubSeq(s, 2, 2) = <<s[2]>>
      /\ SubSeq(t, 1, 1) = <<t[1]>>
  BY ONLY <1>1, <1>3, SubSeqOne
<1>5. SubSeq(t, 2, 1) = <<>> /\ SubSeq(s, 3, 2) = <<>>
  OBVIOUS
<1>6. /\ Rest(t, 1) = SubSeq(t, 2, 1)
      /\ Rest(s, 1) = SubSeq(s, 2, 2) /\ Rest(s, 2) = SubSeq(s, 3, 2)
  BY <1>1 DEF Rest
<1> QED
  BY <1>1, <1>2, <1>4, <1>5, <1>6 DEF s, t, Read

LEMMA PartsFacts ==
  ASSUME NEW m \in Message, NEW s \in Parts(m)
  PROVE  /\ s \in Seq(Piece) /\ Len(s) <= 2
         /\ s # <<>> => s[1].msg = m
<1> DEFINE h == [msg |-> m, part |-> "head"]
           t == [msg |-> m, part |-> "tail"]
<1>1. s \in {<<>>, <<t>>, <<h, t>>}
  BY DEF Pieces, Parts
<1>2. h \in Piece /\ t \in Piece /\ h.msg = m /\ t.msg = m
  BY DEF Piece
<1> HIDE DEF h, t
<1>3. CASE s = <<>>
  BY <1>3
<1>4. CASE s = <<t>>
  BY <1>2, <1>4
<1>5. CASE s = <<h, t>>
  BY <1>2, <1>5
<1> QED
  BY <1>1, <1>3, <1>4, <1>5

(* What one read of a message returns and leaves *)
LEMMA ReadFacts ==
  ASSUME NEW m \in Message, NEW s \in Parts(m), NEW n \in ReadSizes(s)
  PROVE  LET got == Read(s, n)
         IN /\ s # <<>> /\ got # <<>> /\ got[1].msg = m /\ got \in Seq(Piece)
            /\ Rest(s, n) \in Parts(m)
            /\ got = Pieces(m) => s = Pieces(m) /\ Rest(s, n) = <<>>
            /\ \A k : got = Pieces(k) => k = m
            /\ Bytes(got) \in 0 .. 2 * Length.response
            /\ got = Pieces(m) => Bytes(got) = Length[m.type]
<1> DEFINE h == [msg |-> m, part |-> "head"]
           t == [msg |-> m, part |-> "tail"]
<1>1. h \in Piece /\ t \in Piece /\ h # t /\ h.msg = m /\ t.msg = m
  BY DEF Piece
<1>2. Pieces(m) = <<h, t>> /\ Parts(m) = {<<>>, <<t>>, <<h, t>>}
  BY DEF Pieces, Parts
<1>3. \A k : <<h>> # Pieces(k) /\ <<t>> # Pieces(k) /\ (<<h, t>> = Pieces(k) => k = m)
  BY <1>1 DEF Pieces
<1>4. n \in 1 .. Len(s)
  BY <1>2 DEF ReadSizes
<1>5. /\ Length[m.type] \in Nat /\ Length[m.type] > HeadSize
      /\ HeadSize \in Nat
      /\ Length[m.type] <= 2 * Length.response /\ Length.response \in Nat
  BY DEF Length, Message
<1>6. Size(h) = HeadSize /\ Size(t) = Length[m.type] - HeadSize
  BY DEF Size
<1> HIDE DEF h, t
<1>7. /\ Bytes(<<h>>) = HeadSize /\ Bytes(<<t>>) = Length[m.type] - HeadSize
      /\ Bytes(<<h, t>>) = Length[m.type]
  BY <1>5, <1>6 DEF Bytes
<1> DEFINE Small(x) == x \in 0 .. 2 * Length.response
<1>10. Small(Bytes(<<h>>)) /\ Small(Bytes(<<t>>)) /\ Small(Bytes(<<h, t>>))
  BY <1>5, <1>7
<1>11. /\ <<h, t>> # <<>> /\ <<h, t>>[1].msg = m /\ <<h, t>> \in Seq(Piece)
       /\ <<>> \in Parts(m)
  BY <1>1, <1>2
<1> SUFFICES LET got == Read(s, n)
             IN /\ s # <<>> /\ got # <<>> /\ got[1].msg = m /\ got \in Seq(Piece)
                /\ Rest(s, n) \in Parts(m)
                /\ got = Pieces(m) => s = Pieces(m) /\ Rest(s, n) = <<>>
                /\ \A k : got = Pieces(k) => k = m
                /\ Small(Bytes(got))
                /\ got = Pieces(m) => Bytes(got) = Length[m.type]
  OBVIOUS
<1> HIDE DEF Small
<1>8. CASE s = <<t>>
  <2>1. n = 1
    BY <1>4, <1>8
  <2>2. Read(s, n) = <<t>> /\ Rest(s, n) = <<>>
    BY <1>8, <2>1, Cuts
  <2> QED
    BY <1>1, <1>2, <1>3, <1>7, <1>10, <1>8, <2>2
<1>9. CASE s = <<h, t>>
  <2>0. n = 1 \/ n = 2
    BY <1>4, <1>9
  <2>1. CASE n = 1
    <3>1. Read(s, n) = <<h>> /\ Rest(s, n) = <<t>>
      BY <1>9, <2>1, Cuts
    <3> QED
      BY <1>1, <1>2, <1>3, <1>7, <1>10, <1>9, <3>1
  <2>2. CASE n = 2
    <3>1. Read(s, n) = <<h, t>> /\ Rest(s, n) = <<>>
      BY <1>9, <2>2, Cuts
    <3> QED
      BY <1>2, <1>3, <1>7, <1>9, <1>10, <1>11, <3>1
  <2> QED
    BY <2>0, <2>1, <2>2
<1> QED
  BY <1>2, <1>4, <1>8, <1>9

LEMMA PartsBytes ==
  ASSUME NEW m \in Message, NEW s \in Parts(m)
  PROVE  Bytes(s) \in 0 .. Length[m.type]
<1> DEFINE h == [msg |-> m, part |-> "head"]
           t == [msg |-> m, part |-> "tail"]
<1>1. s \in {<<>>, <<t>>, <<h, t>>}
  BY DEF Pieces, Parts
<1>2. Length[m.type] \in Nat /\ Length[m.type] > HeadSize /\ HeadSize \in Nat
  BY DEF Length, Message
<1>3. Size(h) = HeadSize /\ Size(t) = Length[m.type] - HeadSize
  BY DEF Size
<1> HIDE DEF h, t
<1> QED
  BY <1>1, <1>2, <1>3 DEF Bytes

(* The message a vSIM has sent last, or sends next *)
Sent(v) == IF vsimKey[v] = NoSession THEN Request(v) ELSE Attestation(vsimKey[v])

(* What may be under way to a vSIM *)
Answered(v) ==
  IF vsimKey[v] = NoSession
  THEN toServer[v] = <<>>
       /\ \E s \in Session : s.vsim = v /\ toVsim[v] \in Parts(Response(s))
  ELSE vsimKey[v] \in acked /\ toVsim[v] \in Parts(Ack(vsimKey[v]))

Streams(v) ==
  /\ toServer[v] \in Parts(Sent(v))
  /\ vsimPc[v] \in {"off", "connect", "send_request", "send_attestation"} =>
       toServer[v] = <<>>
  /\ vsimPc[v] = "send_request" => toVsim[v] = <<>>
  /\ toVsim[v] # <<>> => Answered(v)

Keys(v) ==
  /\ vsimKey[v] # NoSession => vsimKey[v] \in Session /\ vsimKey[v].vsim = v
  /\ vsimPc[v] \in {"off", "connect", "send_request", "read_response"} =>
       vsimKey[v] = NoSession
  /\ vsimPc[v] \in {"send_attestation", "read_ack", "done"} =>
       vsimKey[v] # NoSession
  /\ vsimPc[v] \in {"send_attestation", "read_ack"} =>
       /\ copySize[v] = Length.response
       /\ \E s \in Session : copy[v] = Pieces(Response(s))
  /\ vsimPc[v] = "done" => vsimKey[v] \in acked
  /\ reset[v] => Ended(v)

Unattested(v) == \A s \in attested : s.vsim # v

(* The server has not answered v yet. *)
Unserved(v) ==
  toVsim[v] = <<>> /\ ~reset[v] /\ vsimKey[v] = NoSession /\ Unattested(v)

Queued(v) == \E i \in DOMAIN backlog : backlog[i] = v

Connected(v) == vsimPc[v] \notin {"off", "connect"} /\ (vsimOpen[v] \/ Ended(v))

Waiting(v) ==
  /\ vsimPc[v] \in {"off", "connect"} => Unserved(v)
  /\ Queued(v) => Unserved(v) /\ Connected(v) /\ client # v

Served(v) ==
  client = v =>
    /\ Connected(v)
    /\ serverPc = "recv_request" => Unserved(v)
    /\ serverPc # "recv_request" =>
         /\ vsimPc[v] # "send_request"
         /\ session = [vsim |-> v, run |-> serverRuns]
    /\ serverPc = "send_response" => Unserved(v) /\ toServer[v] = <<>>
    /\ serverPc = "recv_attestation" =>
         /\ Unattested(v)
         /\ vsimKey[v] # NoSession => toVsim[v] = <<>> /\ ~reset[v]
    /\ serverPc = "send_ack" =>
         /\ toVsim[v] = <<>> /\ ~reset[v]
         /\ vsimKey[v] = session /\ session \in attested \ acked

Queue ==
  /\ serverPc = "down" => backlog = <<>>
  /\ serverPc # "down" => serverRuns > 0
  /\ \A i, j \in DOMAIN backlog : backlog[i] = backlog[j] => i = j

Good(v) == Streams(v) /\ Keys(v) /\ Waiting(v) /\ Served(v)

Inv == TypeOK /\ Queue /\ \A v \in Vsims : Good(v)

-----------------------------------------------------------------------------
LEMMA InitInv == Init => Inv
<1> SUFFICES ASSUME Init PROVE Inv
  OBVIOUS
<1>1. TypeOK
  BY DEF Init, TypeOK, Session, NoSession, VsimPcs, ServerPcs, Length
<1>2. Queue
  BY DEF Init, Queue
<1>3. ASSUME NEW v \in Vsims PROVE Good(v)
  <2>1. Streams(v)
    BY PiecesFacts DEF Init, Streams
  <2>2. Keys(v)
    BY DEF Init, Keys
  <2>3. Waiting(v) /\ Served(v)
    BY DEF Init, Waiting, Served, Unserved, Unattested, Queued
  <2> QED
    BY <2>1, <2>2, <2>3 DEF Good
<1> QED
  BY <1>1, <1>2, <1>3 DEF Inv

(* A step that leaves a vSIM, its connection and what the server holds of  *)
(* it alone *)
Untouched(w) ==
  /\ toServer'[w] = toServer[w] /\ toVsim'[w] = toVsim[w]
  /\ vsimOpen'[w] = vsimOpen[w] /\ reset'[w] = reset[w]
  /\ vsimPc'[w] = vsimPc[w] /\ vsimKey'[w] = vsimKey[w]
  /\ copySize'[w] = copySize[w] /\ copy'[w] = copy[w]
  /\ Queued(w)' => Queued(w)
  /\ client' = w => client = w
  /\ client = w => UNCHANGED <<serverVars, attested, acked>>
  /\ Unattested(w) => Unattested(w)'
  /\ acked \subseteq acked'

LEMMA UntouchedGood ==
  ASSUME NEW w \in Vsims, Good(w), Untouched(w)
  PROVE  Good(w)'
<1> USE DEF Good, Untouched
<1>1. Streams(w)'
  BY DEF Streams, Sent, Answered
<1>2. Keys(w)'
  BY DEF Keys, Ended
<1>3. Waiting(w)'
  BY DEF Waiting, Unserved, Connected, Ended
<1>4. Served(w)'
  BY DEF Served, Unserved, Connected, Ended, serverVars
<1> QED
  BY <1>1, <1>2, <1>3, <1>4

(* A step of v that neither the server nor another vSIM takes part in *)
Alone(v) ==
  /\ UNCHANGED <<serverVars, histVars>>
  /\ \A w \in Vsims \ {v} :
       /\ toServer'[w] = toServer[w] /\ toVsim'[w] = toVsim[w]
       /\ vsimOpen'[w] = vsimOpen[w] /\ reset'[w] = reset[w]
       /\ vsimPc'[w] = vsimPc[w] /\ vsimKey'[w] = vsimKey[w]
       /\ copySize'[w] = copySize[w] /\ copy'[w] = copy[w]
       /\ Queued(w)' => Queued(w)

LEMMA AloneInv ==
  ASSUME NEW v \in Vsims, Inv, Alone(v), TypeOK', Queue', Good(v)'
  PROVE  Inv'
<1>1. ASSUME NEW w \in Vsims, w # v PROVE Good(w)'
  <2>1. Untouched(w)
    BY <1>1 DEF Alone, Untouched, Unattested, serverVars, histVars
  <2> QED
    BY <2>1, UntouchedGood DEF Inv
<1> QED
  BY <1>1 DEF Inv

LEMMA VsimStartInv == ASSUME NEW v \in Vsims PROVE Inv /\ VsimStart(v) => Inv'
<1> SUFFICES ASSUME Inv, VsimStart(v) PROVE Inv'
  OBVIOUS
<1> USE DEF VsimStart, netVars
<1>1. TypeOK'
  BY DEF Inv, TypeOK, VsimPcs, serverVars, histVars
<1>2. vsimPc[v] = "off" /\ vsimPc'[v] = "connect"
  BY DEF Inv, TypeOK
<1>3. Alone(v)
  BY DEF Alone, Queued, Inv, TypeOK
<1>4. Queue'
  BY DEF Queue, Inv, serverVars
<1>5. Good(v)
  BY DEF Inv
<1>6. Streams(v)' /\ Keys(v)'
  BY <1>2, <1>5 DEF Good, Streams, Keys, Sent, Answered, histVars, Ended
<1>7. Waiting(v)' /\ Served(v)'
  BY <1>2, <1>5 DEF Good, Waiting, Served, Unserved, Unattested, Queued,
     Connected,
     Ended, histVars, serverVars
<1> QED
  BY <1>1, <1>3, <1>4, <1>6, <1>7, AloneInv DEF Good

LEMMA VsimConnectFailsInv ==
  ASSUME NEW v \in Vsims PROVE Inv /\ VsimConnectFails(v) => Inv'
<1> SUFFICES ASSUME Inv, VsimConnectFails(v) PROVE Inv'
  OBVIOUS
<1> USE DEF VsimConnectFails, netVars
<1>1. TypeOK'
  BY DEF Inv, TypeOK, VsimPcs, serverVars, histVars
<1>2. vsimPc[v] = "connect" /\ vsimPc'[v] = "read_response"
  BY DEF Inv, TypeOK
<1>3. Alone(v)
  BY DEF Alone, Queued, Inv, TypeOK
<1>4. Queue'
  BY DEF Queue, Inv, serverVars
<1>5. Good(v)
  BY DEF Inv
<1>6. Streams(v)' /\ Keys(v)'
  BY <1>2, <1>5 DEF Good, Streams, Keys, Sent, Answered, histVars, Ended
<1>7. Waiting(v)' /\ Served(v)'
  BY <1>2, <1>5 DEF Good, Waiting, Served, Unserved, Unattested, Queued,
     Connected,
     Ended, histVars, serverVars
<1> QED
  BY <1>1, <1>3, <1>4, <1>6, <1>7, AloneInv DEF Good

LEMMA VsimConnectInv ==
  ASSUME NEW v \in Vsims
  PROVE  Inv /\ VsimConnect(v) => Inv'
<1> SUFFICES ASSUME Inv, VsimConnect(v) PROVE Inv'
  OBVIOUS
<1> USE DEF VsimConnect
<1>1. TypeOK'
  BY DEF Inv, TypeOK, VsimPcs, serverVars, histVars
<1>2. vsimPc[v] = "connect" /\ vsimPc'[v] = "send_request" /\ vsimOpen'[v]
  BY DEF Inv, TypeOK
<1>3. Good(v)
  BY DEF Inv
<1>4. Unserved(v) /\ ~Queued(v) /\ client # v
  BY <1>2, <1>3 DEF Good, Waiting, Served, Connected
<1>5. /\ backlog \in Seq(Vsims) /\ Len(backlog') = Len(backlog) + 1
      /\ \A i \in DOMAIN backlog : backlog'[i] = backlog[i]
      /\ backlog'[Len(backlog) + 1] = v
      /\ DOMAIN backlog' = 1 .. Len(backlog) + 1
      /\ DOMAIN backlog = 1 .. Len(backlog)
  <2>1. backlog \in Seq(Vsims) /\ backlog' = Append(backlog, v)
    BY DEF Inv, TypeOK
  <2> QED
    BY <2>1, Appended
<1>6. \A w \in Vsims \ {v} : Queued(w)' => Queued(w)
  BY <1>5 DEF Queued
<1>7. Alone(v)
  BY <1>6 DEF Alone, Inv, TypeOK
<1>8. Queue'
  BY <1>4, <1>5 DEF Queue, Inv, serverVars, Queued
<1>9. Streams(v)' /\ Keys(v)'
  BY <1>2, <1>3, <1>4 DEF Good, Streams, Keys, Sent, Answered, histVars,
     Ended, Unserved
<1>10. Waiting(v)' /\ Served(v)'
  BY <1>2, <1>4 DEF Waiting, Served, Unserved, Unattested, Connected,
     Ended, histVars, serverVars
<1> QED
  BY <1>1, <1>7, <1>8, <1>9, <1>10, AloneInv DEF Good

LEMMA VsimSendRequestInv ==
  ASSUME NEW v \in Vsims PROVE Inv /\ VsimSendRequest(v) => Inv'
<1> SUFFICES ASSUME Inv, VsimSendRequest(v) PROVE Inv'
  OBVIOUS
<1> USE DEF VsimSendRequest
<1>1. vsimPc[v] = "send_request" /\ vsimPc'[v] = "read_response"
  BY DEF Inv, TypeOK
<1>2. Good(v)
  BY DEF Inv
<1>3. toServer[v] = <<>> /\ toVsim[v] = <<>> /\ vsimKey[v] = NoSession
  BY <1>1, <1>2 DEF Good, Streams, Keys
<1>4. /\ toServer'[v] \in Parts(Request(v))
      /\ \A w \in Vsims \ {v} : toServer'[w] = toServer[w]
      /\ toServer' \in [Vsims -> Seq(Piece)]
  <2>1. toServer'[v] = <<>> \/ toServer'[v] = Pieces(Request(v))
    BY <1>3, PiecesFacts DEF Send, Inv, TypeOK
  <2>2. toServer'[v] \in Parts(Request(v))
    BY <2>1, PiecesFacts
  <2>3. toServer'[v] \in Seq(Piece)
    BY <2>2, PartsFacts, MessageTypes
  <2> QED
    BY <2>2, <2>3 DEF Send, Inv, TypeOK
<1>5. TypeOK'
  BY <1>4 DEF Inv, TypeOK, VsimPcs, serverVars, histVars
<1>6. Alone(v)
  BY <1>4 DEF Alone, Queued, Inv, TypeOK
<1>7. Queue'
  BY DEF Queue, Inv, serverVars
<1>8. Streams(v)' /\ Keys(v)'
  BY <1>1, <1>2, <1>3, <1>4 DEF Good, Streams, Keys, Sent, histVars, Ended
<1>9. Waiting(v)' /\ Served(v)'
  BY <1>1, <1>2 DEF Good, Waiting, Served, Unserved, Unattested, Queued,
     Connected,
     Ended, histVars, serverVars
<1> QED
  BY <1>5, <1>6, <1>7, <1>8, <1>9, AloneInv DEF Good

LEMMA VsimReadResponseReads ==
  ASSUME NEW v \in Vsims, Inv, vsimPc[v] = "read_response", toVsim[v] # <<>>
  PROVE  /\ vsimKey[v] = NoSession /\ toServer[v] = <<>>
         /\ \E s \in Session : s.vsim = v /\ toVsim[v] \in Parts(Response(s))
BY DEF Inv, Good, Streams, Keys, Answered

(* The end of a vSIM: what was under way may be read or lost. *)
LEMMA EndedGood ==
  ASSUME NEW v \in Vsims, Inv, ~Ended(v), UNCHANGED <<backlog, serverVars, histVars>>,
         vsimPc'[v] \in {"done", "failed", "killed", "vanished"},
         vsimKey'[v] = vsimKey[v],
         toServer'[v] \in {<<>>, toServer[v]},
         toVsim'[v] # <<>> =>
           /\ toVsim[v] # <<>>
           /\ \A m \in Message : toVsim[v] \in Parts(m) => toVsim'[v] \in Parts(m),
         reset'[v] => reset[v] \/ toVsim'[v] # <<>>,
         vsimPc'[v] = "done" => vsimKey[v] # NoSession /\ vsimKey[v] \in acked
  PROVE  Good(v)'
<1>1. Good(v) /\ Ended(v)'
  BY DEF Inv, Ended
<1>2. Streams(v)'
  <2>1. toServer'[v] \in Parts(Sent(v)')
    BY <1>1, PiecesFacts DEF Good, Streams, Sent
  <2>2. ASSUME toVsim'[v] # <<>> PROVE Answered(v)'
    <3>1. Answered(v)
      BY <1>1, <2>2 DEF Good, Streams
    <3>2. CASE vsimKey[v] = NoSession
      <4>1. PICK s \in Session : s.vsim = v /\ toVsim[v] \in Parts(Response(s))
        BY <3>1, <3>2 DEF Answered
      <4>2. toVsim'[v] \in Parts(Response(s))
        BY <2>2, <4>1, MessageTypes
      <4> QED
        BY <3>1, <3>2, <4>1, <4>2 DEF Answered
    <3>3. CASE vsimKey[v] # NoSession
      <4>1. vsimKey[v] \in Session
        BY <1>1, <3>3 DEF Good, Keys
      <4> QED
        BY <2>2, <3>1, <3>3, <4>1, MessageTypes DEF Answered, histVars
    <3> QED
      BY <3>2, <3>3
  <2> QED
    BY <2>1, <2>2 DEF Streams
<1>3. Keys(v)'
  BY <1>1 DEF Good, Keys, histVars
<1>4. Waiting(v)'
  <2>1. Queued(v)' => Queued(v)
    BY DEF Queued
  <2>2. Unserved(v) => Unserved(v)'
    BY DEF Unserved, Unattested, histVars
  <2> QED
    BY <1>1, <2>1, <2>2 DEF Good, Waiting, Connected, serverVars
<1>5. Served(v)'
  <2>1. Unserved(v) => Unserved(v)'
    BY DEF Unserved, Unattested, histVars
  <2>2. Unattested(v) => Unattested(v)'
    BY DEF Unattested, histVars
  <2>3. serverPc' = serverPc /\ client' = client /\ session' = session
        /\ serverRuns' = serverRuns /\ attested' = attested /\ acked' = acked
    BY DEF serverVars, histVars
  <2> QED
    BY <1>1, <2>1, <2>2, <2>3 DEF Good, Served, Connected
<1> QED
  BY <1>2, <1>3, <1>4, <1>5 DEF Good

LEMMA VsimReadResponseInv ==
  ASSUME NEW v \in Vsims PROVE Inv /\ VsimReadResponse(v) => Inv'
<1> SUFFICES ASSUME Inv, VsimReadResponse(v) PROVE Inv'
  OBVIOUS
<1>1. PICK n \in ReadSizes(toVsim[v]) :
        LET got == Read(toVsim[v], n)
            m   == got[1].msg
        IN /\ toVsim' = [toVsim EXCEPT ![v] = Rest(@, n)]
           /\ copy' = [copy EXCEPT ![v] = got]
           /\ copySize' = [copySize EXCEPT ![v] = Bytes(got)]
           /\ IF m.type = "response" /\ got = Pieces(m) /\ m.vsim = v
              THEN /\ vsimKey' = [vsimKey EXCEPT ![v] = [vsim |-> v, run |-> m.run]]
                   /\ vsimPc' = [vsimPc EXCEPT ![v] = "send_attestation"]
                   /\ UNCHANGED <<vsimOpen, reset>>
              ELSE VsimEnds(v, "failed") /\ UNCHANGED vsimKey
  BY DEF VsimReadResponse
<1>2. vsimPc[v] = "read_response" /\ UNCHANGED <<toServer, serverOpen, backlog>>
      /\ UNCHANGED <<serverVars, histVars>>
  BY DEF VsimReadResponse
<1> DEFINE got == Read(toVsim[v], n)
           left == Rest(toVsim[v], n)
<1>3. toVsim[v] # <<>>
  BY <1>1 DEF ReadSizes
<1>4. PICK s \in Session : s.vsim = v /\ toVsim[v] \in Parts(Response(s))
  BY <1>2, <1>3, VsimReadResponseReads
<1>5. Response(s) \in Message /\ Response(s).type = "response"
      /\ Response(s).vsim = v /\ Response(s).run = s.run
  BY <1>4, MessageTypes DEF Response
<1>6. /\ got[1].msg = Response(s) /\ got \in Seq(Piece)
      /\ left \in Parts(Response(s))
      /\ got = Pieces(Response(s)) => left = <<>>
      /\ Bytes(got) \in 0 .. 2 * Length.response
      /\ got = Pieces(Response(s)) => Bytes(got) = Length.response
  BY <1>1, <1>4, <1>5, ReadFacts
<1>7. left \in Seq(Piece)
  BY <1>5, <1>6, PartsFacts
<1> HIDE DEF got, left
<1>8. /\ toVsim' = [toVsim EXCEPT ![v] = left]
      /\ copy' = [copy EXCEPT ![v] = got]
      /\ copySize' = [copySize EXCEPT ![v] = Bytes(got)]
  BY <1>1 DEF got, left
<1>9. Good(v) /\ toServer[v] = <<>> /\ vsimKey[v] = NoSession
  BY <1>2, <1>3, VsimReadResponseReads DEF Inv
<1>10. [vsim |-> v, run |-> s.run] = s
  BY <1>4 DEF Session
<1>11. Queue'
  BY <1>2 DEF Queue, Inv, serverVars
<1>12. CASE got = Pieces(Response(s))
  <2>1. /\ vsimKey' = [vsimKey EXCEPT ![v] = s]
        /\ vsimPc' = [vsimPc EXCEPT ![v] = "send_attestation"]
        /\ UNCHANGED <<vsimOpen, reset>> /\ left = <<>>
        /\ Bytes(got) = Length.response
    BY <1>1, <1>5, <1>6, <1>10, <1>12 DEF got
  <2>2. TypeOK'
    BY <1>2, <1>6, <1>7, <1>8, <2>1 DEF Inv, TypeOK, VsimPcs, serverVars,
       histVars
  <2>3. Alone(v)
    BY <1>2, <1>8, <2>1 DEF Alone, Queued, Inv, TypeOK
  <2>4. /\ vsimKey'[v] = s /\ vsimPc'[v] = "send_attestation"
        /\ toVsim'[v] = <<>>
        /\ copy'[v] = got /\ copySize'[v] = Length.response /\ s # NoSession
    BY <1>8, <2>1, MessageTypes DEF Inv, TypeOK
  <2>5. ~Ended(v)
    BY <1>2 DEF Ended
  <2>6. Streams(v)'
    BY <1>2, <1>9, <2>4, PiecesFacts DEF Streams, Sent
  <2>7. Keys(v)'
    BY <1>4, <1>9, <1>12, <2>1, <2>4, <2>5 DEF Good, Keys
  <2>8. ~Unserved(v)
    BY <1>3 DEF Unserved
  <2>9. Waiting(v)' /\ Served(v)'
    BY <1>2, <1>3, <1>9, <2>1, <2>4, <2>5, <2>8 DEF Good, Keys, Waiting,
       Served, Unattested,
       Queued, Connected, Ended, serverVars, histVars
  <2> QED
    BY <1>11, <2>2, <2>3, <2>6, <2>7, <2>9, AloneInv DEF Good
<1>13. CASE got # Pieces(Response(s))
  <2>1. VsimEnds(v, "failed") /\ UNCHANGED vsimKey
    BY <1>1, <1>6, <1>13 DEF got
  <2>2. TypeOK'
    BY <1>2, <1>6, <1>7, <1>8, <2>1 DEF Inv, TypeOK, VsimPcs, VsimEnds,
       serverVars, histVars
  <2>3. Alone(v)
    BY <1>2, <1>8, <2>1 DEF Alone, Queued, Inv, TypeOK, VsimEnds
  <2>4. \A m \in Message : toVsim[v] \in Parts(m) => m = Response(s)
    BY <1>3, <1>4, <1>5, PartsFacts
  <2>5. /\ vsimPc'[v] = "failed" /\ toVsim'[v] = left
        /\ reset'[v] => reset[v] \/ toVsim'[v] # <<>>
    BY <1>8, <2>1 DEF VsimEnds, Inv, TypeOK
  <2>6. ~Ended(v)
    BY <1>2 DEF Ended
  <2>7. Good(v)'
    BY <1>2, <1>3, <1>6, <2>1, <2>4, <2>5, <2>6, EndedGood
  <2> QED
    BY <1>11, <2>2, <2>3, <2>7, AloneInv
<1> QED
  BY <1>12, <1>13

LEMMA VsimSendAttestationInv ==
  ASSUME NEW v \in Vsims PROVE Inv /\ VsimSendAttestation(v) => Inv'
<1> SUFFICES ASSUME Inv, VsimSendAttestation(v) PROVE Inv'
  OBVIOUS
<1> USE DEF VsimSendAttestation
<1> DEFINE m == Attestation(vsimKey[v])
<1>1. vsimPc[v] = "send_attestation" /\ vsimPc'[v] = "read_ack"
  BY DEF Inv, TypeOK
<1>2. Good(v)
  BY DEF Inv
<1>3. toServer[v] = <<>> /\ vsimKey[v] # NoSession /\ vsimKey[v] \in Session
  BY <1>1, <1>2 DEF Good, Streams, Keys
<1>4. m \in Message
  BY <1>3, MessageTypes
<1> HIDE DEF m
<1>5. /\ toServer'[v] \in Parts(m)
      /\ \A w \in Vsims \ {v} : toServer'[w] = toServer[w]
      /\ toServer' \in [Vsims -> Seq(Piece)]
  <2>1. toServer'[v] = <<>> \/ toServer'[v] = Pieces(m)
    BY <1>3, PiecesFacts DEF Send, Inv, TypeOK, m
  <2>2. toServer'[v] \in Parts(m)
    BY <2>1, PiecesFacts
  <2>3. toServer'[v] \in Seq(Piece)
    BY <1>4, <2>2, PartsFacts
  <2> QED
    BY <2>2, <2>3 DEF Send, Inv, TypeOK
<1>6. TypeOK'
  BY <1>5 DEF Inv, TypeOK, VsimPcs, serverVars, histVars
<1>7. Alone(v)
  BY <1>5 DEF Alone, Queued, Inv, TypeOK
<1>8. Queue'
  BY DEF Queue, Inv, serverVars
<1>9. Streams(v)' /\ Keys(v)'
  BY <1>1, <1>2, <1>3, <1>5 DEF Good, Streams, Keys, Sent, Answered, histVars,
     Ended, m
<1>10. ~Unserved(v)
  BY <1>3 DEF Unserved
<1>11. Waiting(v)' /\ Served(v)'
  BY <1>1, <1>2, <1>10 DEF Good, Waiting, Served, Unattested, Queued,
     Connected,
     Ended, histVars, serverVars
<1> QED
  BY <1>6, <1>7, <1>8, <1>9, <1>11, AloneInv DEF Good

(* What a vSIM that holds a key reads *)
LEMMA AckReads ==
  ASSUME NEW v \in Vsims, Inv, vsimPc[v] = "read_ack", toVsim[v] # <<>>
  PROVE  /\ vsimKey[v] \in acked /\ vsimKey[v] \in Session /\ vsimKey[v] # NoSession
         /\ toVsim[v] \in Parts(Ack(vsimKey[v])) /\ Ack(vsimKey[v]) \in Message
<1>1. /\ vsimKey[v] \in acked /\ vsimKey[v] \in Session
      /\ vsimKey[v] # NoSession
      /\ toVsim[v] \in Parts(Ack(vsimKey[v]))
  BY DEF Inv, Good, Streams, Keys, Answered
<1> QED
  BY <1>1, MessageTypes

LEMMA VsimReadAckInv ==
  ASSUME NEW v \in Vsims
  PROVE  Inv /\ VsimReadAck(v) => Inv'
<1> SUFFICES ASSUME Inv, VsimReadAck(v) PROVE Inv'
  OBVIOUS
<1>1. PICK n \in ReadSizes(toVsim[v]) :
        LET got == Read(toVsim[v], n)
        IN /\ toVsim' = [toVsim EXCEPT ![v] = Rest(@, n)]
           /\ copy' = [copy EXCEPT ![v] = got]
           /\ VsimEnds(v, IF Acknowledged(v, got) THEN "done" ELSE "failed")
  BY DEF VsimReadAck
<1>2. /\ vsimPc[v] = "read_ack"
      /\ UNCHANGED <<toServer, serverOpen, backlog, vsimKey, copySize>>
      /\ UNCHANGED <<serverVars, histVars>>
  BY DEF VsimReadAck
<1> DEFINE got == Read(toVsim[v], n)
           left == Rest(toVsim[v], n)
           m == Ack(vsimKey[v])
<1>3. toVsim[v] # <<>>
  BY <1>1 DEF ReadSizes
<1>4. /\ vsimKey[v] \in acked /\ vsimKey[v] \in Session
      /\ vsimKey[v] # NoSession
      /\ toVsim[v] \in Parts(m) /\ m \in Message
  BY <1>2, <1>3, AckReads
<1> HIDE DEF m
<1>5. got \in Seq(Piece) /\ left \in Parts(m)
  BY <1>1, <1>4, ReadFacts
<1>6. left \in Seq(Piece)
  BY <1>4, <1>5, PartsFacts
<1> HIDE DEF got, left
<1>7. \E pc \in {"done", "failed"} :
        /\ toVsim' = [toVsim EXCEPT ![v] = left]
        /\ copy' = [copy EXCEPT ![v] = got]
        /\ VsimEnds(v, pc)
  BY <1>1 DEF got, left
<1>8. PICK pc \in {"done", "failed"} :
        /\ toVsim' = [toVsim EXCEPT ![v] = left]
        /\ copy' = [copy EXCEPT ![v] = got]
        /\ VsimEnds(v, pc)
  BY <1>7
<1>9. TypeOK'
  BY <1>2, <1>5, <1>6, <1>8 DEF Inv, TypeOK, VsimPcs, VsimEnds, serverVars,
     histVars
<1>10. Alone(v)
  BY <1>2, <1>8 DEF Alone, Queued, Inv, TypeOK, VsimEnds
<1>11. Queue'
  BY <1>2 DEF Queue, Inv, serverVars
<1>12. \A k \in Message : toVsim[v] \in Parts(k) => k = m
  BY <1>3, <1>4, PartsFacts
<1>13. /\ vsimPc'[v] \in {"done", "failed"} /\ toVsim'[v] = left
       /\ reset'[v] => reset[v] \/ toVsim'[v] # <<>>
  BY <1>8 DEF VsimEnds, Inv, TypeOK
<1>14. ~Ended(v)
  BY <1>2 DEF Ended
<1>15. Good(v)'
  BY <1>2, <1>3, <1>4, <1>5, <1>12, <1>13, <1>14, EndedGood
<1> QED
  BY <1>9, <1>10, <1>11, <1>15, AloneInv

(* A copy of a response is no acknowledgement. *)
LEMMA StaleCopy ==
  ASSUME NEW v \in Vsims, Inv, vsimPc[v] = "read_ack"
  PROVE  ~Acknowledged(v, copy[v])
<1>1. PICK s \in Session : copy[v] = Pieces(Response(s))
  BY DEF Inv, Good, Keys
<1>2. Response(s) # Ack(vsimKey[v])
  BY DEF Response, Ack
<1> QED
  BY <1>1, <1>2, PiecesFacts DEF Acknowledged

LEMMA VsimReadNothingInv ==
  ASSUME NEW v \in Vsims PROVE Inv /\ VsimReadNothing(v) => Inv'
<1> SUFFICES ASSUME Inv, VsimReadNothing(v) PROVE Inv'
  OBVIOUS
<1>1. /\ vsimPc[v] \in {"read_response", "read_ack"}
      /\ UNCHANGED <<toServer, toVsim, serverOpen, backlog, vsimKey, copySize, copy>>
      /\ UNCHANGED <<serverVars, histVars>>
      /\ VsimEnds(v, "failed")
  BY StaleCopy DEF VsimReadNothing
<1>2. TypeOK'
  BY <1>1 DEF Inv, TypeOK, VsimPcs, VsimEnds, serverVars, histVars
<1>3. Alone(v)
  BY <1>1 DEF Alone, Queued, Inv, TypeOK, VsimEnds
<1>4. Queue'
  BY <1>1 DEF Queue, Inv, serverVars
<1>5. /\ vsimPc'[v] = "failed" /\ ~Ended(v)
      /\ reset'[v] => reset[v] \/ toVsim'[v] # <<>>
  BY <1>1 DEF VsimEnds, Inv, TypeOK, Ended
<1>6. Good(v)'
  BY <1>1, <1>5, EndedGood
<1> QED
  BY <1>2, <1>3, <1>4, <1>6, AloneInv

LEMMA VsimKilledInv ==
  ASSUME NEW v \in Vsims
  PROVE  Inv /\ VsimKilled(v) => Inv'
<1> SUFFICES ASSUME Inv, VsimKilled(v) PROVE Inv'
  OBVIOUS
<1>1. /\ ~Ended(v)
      /\ UNCHANGED <<toVsim, serverOpen, backlog, vsimKey, copySize, copy>>
      /\ UNCHANGED <<serverVars, histVars>>
      /\ VsimEnds(v, "killed")
  BY DEF VsimKilled
<1>2. PICK lost \in BOOLEAN :
        toServer' = [toServer EXCEPT ![v] = IF lost THEN <<>> ELSE @]
  BY DEF VsimKilled
<1>3. /\ toServer'[v] \in {<<>>, toServer[v]}
      /\ toServer' \in [Vsims -> Seq(Piece)]
      /\ \A w \in Vsims \ {v} : toServer'[w] = toServer[w]
  BY <1>2 DEF Inv, TypeOK
<1>4. TypeOK'
  BY <1>1, <1>3 DEF Inv, TypeOK, VsimPcs, VsimEnds, serverVars, histVars
<1>5. Alone(v)
  BY <1>1, <1>3 DEF Alone, Queued, Inv, TypeOK, VsimEnds
<1>6. Queue'
  BY <1>1 DEF Queue, Inv, serverVars
<1>7. vsimPc'[v] = "killed" /\ (reset'[v] => reset[v] \/ toVsim'[v] # <<>>)
  BY <1>1 DEF VsimEnds, Inv, TypeOK
<1>8. Good(v)'
  BY <1>1, <1>3, <1>7, EndedGood
<1> QED
  BY <1>4, <1>5, <1>6, <1>8, AloneInv

LEMMA VsimVanishesInv ==
  ASSUME NEW v \in Vsims
  PROVE  Inv /\ VsimVanishes(v) => Inv'
<1> SUFFICES ASSUME Inv, VsimVanishes(v) PROVE Inv'
  OBVIOUS
<1>1. /\ ~Ended(v) /\ vsimPc' = [vsimPc EXCEPT ![v] = "vanished"]
      /\ UNCHANGED <<toVsim, vsimOpen, serverOpen, reset, backlog, vsimKey, copySize, copy>>
      /\ UNCHANGED <<serverVars, histVars>>
  BY DEF VsimVanishes
<1>2. PICK lost \in BOOLEAN :
        toServer' = [toServer EXCEPT ![v] = IF lost THEN <<>> ELSE @]
  BY DEF VsimVanishes
<1>3. /\ toServer'[v] \in {<<>>, toServer[v]}
      /\ toServer' \in [Vsims -> Seq(Piece)]
      /\ \A w \in Vsims \ {v} : toServer'[w] = toServer[w]
  BY <1>2 DEF Inv, TypeOK
<1>4. TypeOK'
  BY <1>1, <1>3 DEF Inv, TypeOK, VsimPcs, serverVars, histVars
<1>5. Alone(v)
  BY <1>1, <1>3 DEF Alone, Queued, Inv, TypeOK
<1>6. Queue'
  BY <1>1 DEF Queue, Inv, serverVars
<1>7. vsimPc'[v] = "vanished"
  BY <1>1 DEF Inv, TypeOK
<1>8. Good(v)'
  BY <1>1, <1>3, <1>7, EndedGood
<1> QED
  BY <1>4, <1>5, <1>6, <1>8, AloneInv

-----------------------------------------------------------------------------
(* A step of the server that takes only c and its connection along *)
Elsewhere(c) ==
  \A w \in Vsims \ {c} :
    /\ toServer'[w] = toServer[w] /\ toVsim'[w] = toVsim[w]
    /\ vsimOpen'[w] = vsimOpen[w] /\ reset'[w] = reset[w]
    /\ vsimPc'[w] = vsimPc[w] /\ vsimKey'[w] = vsimKey[w]
    /\ copySize'[w] = copySize[w] /\ copy'[w] = copy[w]
    /\ Queued(w)' => Queued(w)
    /\ client # w /\ client' # w
    /\ \A s \in attested' \ attested : s.vsim # w
    /\ acked \subseteq acked'

LEMMA ElsewhereInv ==
  ASSUME NEW c, Inv, Elsewhere(c), TypeOK', Queue', c \in Vsims => Good(c)'
  PROVE  Inv'
<1>1. ASSUME NEW w \in Vsims, w # c PROVE Good(w)'
  <2>1. Untouched(w)
    BY <1>1 DEF Elsewhere, Untouched, Unattested
  <2> QED
    BY <2>1, UntouchedGood DEF Inv
<1> QED
  BY <1>1 DEF Inv

LEMMA ServerStartInv == Inv /\ ServerStart => Inv'
<1> SUFFICES ASSUME Inv, ServerStart PROVE Inv'
  OBVIOUS
<1> USE DEF ServerStart, vsimVars, histVars
<1>1. TypeOK'
  BY DEF Inv, TypeOK, ServerPcs
<1>2. client = NoClient
  BY DEF Inv, TypeOK
<1>3. Elsewhere(NoClient)
  BY <1>2 DEF Elsewhere, Queued
<1>4. Queue'
  BY DEF Queue, Inv, TypeOK
<1> QED
  BY <1>1, <1>3, <1>4, ElsewhereInv

LEMMA ServerAcceptInv == Inv /\ ServerAccept => Inv'
<1> SUFFICES ASSUME Inv, ServerAccept PROVE Inv'
  OBVIOUS
<1> USE DEF ServerAccept, vsimVars, histVars
<1>0. Head(backlog) \in Vsims
  BY DEF Inv, TypeOK
<1> PICK c \in Vsims : c = Head(backlog)
  BY <1>0
<1>1. /\ backlog \in Seq(Vsims) /\ backlog # <<>> /\ client = NoClient
      /\ backlog' = Tail(backlog) /\ client' = c
  BY DEF Inv, TypeOK
<1>2. /\ c = backlog[1]
      /\ DOMAIN backlog = 1 .. Len(backlog) /\ 1 \in DOMAIN backlog
      /\ backlog' \in Seq(Vsims)
      /\ DOMAIN backlog' = 1 .. Len(backlog) - 1
      /\ \A i \in DOMAIN backlog' : i + 1 \in DOMAIN backlog /\ backlog'[i] = backlog[i + 1]
  BY <1>1
<1>3. TypeOK'
  BY <1>1, <1>2 DEF Inv, TypeOK, ServerPcs
<1>4. Queued(c) /\ Good(c)
  BY <1>2 DEF Queued, Inv
<1>5. ~Queued(c)'
  <2> SUFFICES ASSUME NEW i \in DOMAIN backlog', backlog'[i] = c PROVE FALSE
    BY DEF Queued
  <2>1. i + 1 \in DOMAIN backlog /\ 1 \in DOMAIN backlog /\ backlog[i + 1] = backlog[1]
    BY <1>2
  <2>2. i + 1 = 1
    BY <2>1 DEF Inv, Queue
  <2> QED
    BY <1>2, <2>2
<1>6. \A w \in Vsims : Queued(w)' => Queued(w)
  BY <1>2 DEF Queued
<1>7. Elsewhere(c)
  BY <1>1, <1>6 DEF Elsewhere
<1>8. Queue'
  <2> SUFFICES ASSUME NEW i \in DOMAIN backlog', NEW j \in DOMAIN backlog',
                      backlog'[i] = backlog'[j]
               PROVE  i = j
    BY DEF Queue, Inv
  <2>1. i + 1 = j + 1
    BY <1>2 DEF Queue, Inv
  <2> QED
    BY <1>2, <2>1
<1>9. Unserved(c) /\ Connected(c)
  BY <1>4 DEF Good, Waiting
<1>10. Streams(c)' /\ Keys(c)'
  BY <1>4 DEF Good, Streams, Keys, Sent, Answered, Ended
<1>11. Waiting(c)' /\ Served(c)'
  BY <1>5, <1>9 DEF Waiting, Served, Unserved, Connected, Ended, Unattested
<1> QED
  BY <1>3, <1>7, <1>8, <1>10, <1>11, ElsewhereInv DEF Good

(* What the client has sent, and a session closed *)
LEMMA ClientFacts ==
  ASSUME Inv, serverPc \notin {"down", "accept"}
  PROVE  /\ client \in Vsims /\ Good(client) /\ ~Queued(client) /\ Connected(client)
         /\ Sent(client) \in Message
         /\ toServer[client] \in Parts(Sent(client))
         /\ serverPc # "recv_request" => session \in Session /\ session.vsim = client
<1>1. client \in Vsims
  BY DEF Inv, TypeOK
<1>2. Good(client)
  BY <1>1 DEF Inv
<1>3. ~Queued(client) /\ Connected(client)
  BY <1>2 DEF Good, Waiting, Served
<1>4. Sent(client) \in Message
  BY <1>1, <1>2, MessageTypes DEF Good, Keys, Sent
<1>5. ASSUME serverPc # "recv_request"
      PROVE  session \in Session /\ session.vsim = client
  <2>1. session = [vsim |-> client, run |-> serverRuns]
    BY <1>2, <1>5 DEF Good, Served
  <2>2. serverRuns \in 1 .. MaxServerRuns
    BY DEF Inv, TypeOK, Queue
  <2> QED
    BY <1>1, <2>1, <2>2 DEF Session
<1> QED
  BY <1>1, <1>2, <1>3, <1>4, <1>5 DEF Good, Streams

(* The connection of the client is closed, something of it read perhaps. *)
LEMMA ClosedInv ==
  ASSUME Inv, serverPc \notin {"down", "accept"}, CloseConnection,
         NEW left \in Parts(Sent(client)),
         toServer' = [toServer EXCEPT ![client] = left],
         toServer[client] = <<>> => left = <<>>,
         UNCHANGED <<toVsim, vsimOpen, reset, backlog, serverRuns, session,
                     vsimVars, histVars>>
  PROVE  Inv'
<1> USE DEF CloseConnection, vsimVars, histVars
<1>0. PICK c \in Vsims : c = client
  BY ClientFacts
<1>1. /\ Good(c) /\ ~Queued(c) /\ Connected(c) /\ Sent(c) \in Message
  BY <1>0, ClientFacts
<1>2. left \in Seq(Piece)
  BY <1>0, <1>1, PartsFacts
<1>3. TypeOK'
  BY <1>0, <1>1, <1>2 DEF Inv, TypeOK, ServerPcs
<1>4. c # NoClient
  BY <1>0, <1>1
<1>5. Elsewhere(c)
  BY <1>0, <1>1 DEF Elsewhere, Queued, Inv, TypeOK
<1>6. Queue'
  BY DEF Queue, Inv
<1>7. toServer'[c] = left
  BY <1>0, <1>1 DEF Inv, TypeOK
<1>8. Streams(c)'
  BY <1>0, <1>1, <1>7 DEF Good, Streams, Sent, Answered
<1>9. Keys(c)'
  BY <1>0, <1>1 DEF Good, Keys, Ended
<1>10. Waiting(c)' /\ Served(c)'
  BY <1>0, <1>1, <1>4 DEF Waiting, Served, Queued, Connected, Ended
<1> QED
  BY <1>3, <1>5, <1>6, <1>8, <1>9, <1>10, ElsewhereInv DEF Good

LEMMA ServerRecvRequestInv == Inv /\ ServerRecvRequest => Inv'
<1> SUFFICES ASSUME Inv, ServerRecvRequest PROVE Inv'
  OBVIOUS
<1>1. PICK n \in ReadSizes(toServer[client]) :
        LET got == Read(toServer[client], n)
            m   == got[1].msg
        IN /\ toServer' = [toServer EXCEPT ![client] = Rest(@, n)]
           /\ IF m.type = "request" /\ got = Pieces(m)
              THEN /\ session' = [vsim |-> m.vsim, run |-> serverRuns]
                   /\ serverPc' = "send_response"
                   /\ UNCHANGED <<serverOpen, client>>
              ELSE CloseConnection /\ UNCHANGED session
  BY DEF ServerRecvRequest
<1>2. /\ serverPc = "recv_request"
      /\ UNCHANGED <<toVsim, vsimOpen, reset, backlog, serverRuns, vsimVars, histVars>>
  BY DEF ServerRecvRequest
<1>3. PICK c \in Vsims : c = client
  BY <1>2, ClientFacts
<1>4. Good(c) /\ ~Queued(c) /\ Connected(c) /\ Unserved(c)
  BY <1>2, <1>3, ClientFacts DEF Good, Served
<1>5. Sent(c) = Request(c) /\ Request(c) \in Message /\ toServer[c] \in Parts(Request(c))
  BY <1>2, <1>3, <1>4, ClientFacts, MessageTypes DEF Unserved, Sent
<1> DEFINE got == Read(toServer[c], n)
           left == Rest(toServer[c], n)
<1>6. /\ toServer[c] # <<>> /\ got[1].msg = Request(c)
      /\ left \in Parts(Request(c))
      /\ got = Pieces(Request(c)) => left = <<>>
  BY <1>1, <1>3, <1>5, ReadFacts
<1>7. Request(c).type = "request" /\ Request(c).vsim = c
  BY DEF Request
<1>8. toServer' = [toServer EXCEPT ![c] = left] /\ toServer'[c] = left
  BY <1>1, <1>3 DEF Inv, TypeOK
<1>9. CASE got = Pieces(Request(c))
  <2>1. /\ session' = [vsim |-> c, run |-> serverRuns]
        /\ serverPc' = "send_response" /\ client' = c /\ left = <<>>
        /\ UNCHANGED serverOpen
    BY <1>1, <1>3, <1>6, <1>7, <1>9
  <2> HIDE DEF got, left
  <2>2. session' \in Session
    BY <1>2, <2>1 DEF Session, Inv, Queue, TypeOK
  <2>3. TypeOK'
    BY <1>2, <1>3, <1>8, <2>1, <2>2 DEF Inv, TypeOK, ServerPcs, vsimVars,
       histVars
  <2>4. Elsewhere(c)
    BY <1>2, <1>3, <1>8, <2>1 DEF Elsewhere, Queued, vsimVars, histVars, Inv,
       TypeOK
  <2>5. Queue'
    BY <1>2, <2>1 DEF Queue, Inv
  <2>6. vsimPc[c] # "send_request"
    BY <1>4, <1>6 DEF Good, Streams
  <2>7. Streams(c)'
    BY <1>2, <1>4, <1>8, <2>1, PiecesFacts
       DEF Good, Streams, Sent, Answered, vsimVars, histVars
  <2>8. Keys(c)'
    BY <1>2, <1>4 DEF Good, Keys, Ended, vsimVars, histVars
  <2>9. Waiting(c)' /\ Served(c)'
    BY <1>2, <1>4, <1>8, <2>1, <2>6 DEF Good, Waiting, Served, Unserved,
       Unattested, Queued,
       Connected, Ended, vsimVars, histVars
  <2> QED
    BY <2>3, <2>4, <2>5, <2>7, <2>8, <2>9, ElsewhereInv DEF Good
<1>10. CASE got # Pieces(Request(c))
  <2>1. CloseConnection /\ UNCHANGED session
    BY <1>1, <1>3, <1>6, <1>7, <1>10
  <2> HIDE DEF got, left
  <2> QED
    BY <1>2, <1>3, <1>5, <1>6, <1>8, <2>1, ClosedInv
<1> QED
  BY <1>9, <1>10

LEMMA ServerSendResponseInv == Inv /\ ServerSendResponse => Inv'
<1> SUFFICES ASSUME Inv, ServerSendResponse PROVE Inv'
  OBVIOUS
<1> USE DEF ServerSendResponse
<1>1. PICK c \in Vsims : c = client
  BY ClientFacts
<1>2. Good(c) /\ ~Queued(c) /\ Connected(c) /\ session \in Session /\ session.vsim = c
  BY <1>1, ClientFacts
<1>3. /\ Unserved(c) /\ toServer[c] = <<>> /\ vsimPc[c] # "send_request"
      /\ session = [vsim |-> c, run |-> serverRuns]
  BY <1>1, <1>2 DEF Good, Served
<1>4. toVsim[c] = <<>> /\ vsimKey[c] = NoSession
  BY <1>3 DEF Unserved
<1>5. toVsim'[c] = <<>> \/ toVsim'[c] = Pieces(Response(session))
  BY <1>1, <1>4, PiecesFacts DEF SendToVsim, Inv, TypeOK
<1>6. toVsim'[c] \in Parts(Response(session)) /\ toVsim'[c] \in Seq(Piece)
  <2>1. toVsim'[c] \in Parts(Response(session)) /\ Response(session) \in Message
    BY <1>2, <1>5, PiecesFacts, MessageTypes
  <2> QED
    BY <2>1, PartsFacts
<1>7. reset'[c] => Ended(c)
  BY <1>1, <1>2, <1>3 DEF SendToVsim, Inv, TypeOK, Connected, Unserved
<1>8. TypeOK'
  BY <1>1, <1>6 DEF Inv, TypeOK, ServerPcs, SendToVsim, vsimVars, histVars
<1>9. Elsewhere(c)
  BY <1>1 DEF Elsewhere, Queued, vsimVars, histVars, Inv, TypeOK, SendToVsim
<1>10. Queue'
  BY DEF Queue, Inv
<1>11. Streams(c)'
  <2>1. toServer'[c] \in Parts(Sent(c)')
    BY <1>3, PiecesFacts
  <2>2. Answered(c)'
    BY <1>2, <1>3, <1>4, <1>6 DEF Answered, vsimVars
  <2>3. vsimPc'[c] # "send_request"
    BY <1>3 DEF vsimVars
  <2> QED
    BY <1>3, <2>1, <2>2, <2>3 DEF Streams
<1>12. Keys(c)'
  BY <1>2, <1>7 DEF Good, Keys, Ended, vsimVars, histVars
<1>13. Waiting(c)' /\ Served(c)'
  BY <1>1, <1>2, <1>3, <1>4 DEF Waiting, Served, Unserved, Unattested, Queued,
     Connected, Ended, vsimVars, histVars
<1> QED
  BY <1>8, <1>9, <1>10, <1>11, <1>12, <1>13, ElsewhereInv DEF Good

(* The attestation that opens is that of the session the server is in. *)
LEMMA AttestationReads ==
  ASSUME Inv, serverPc = "recv_attestation", NEW n \in ReadSizes(toServer[client]),
         Read(toServer[client], n) = Pieces(Attestation(session))
  PROVE  vsimKey[client] = session /\ Rest(toServer[client], n) = <<>>
<1>1. /\ client \in Vsims /\ Good(client) /\ session \in Session
      /\ Sent(client) \in Message /\ toServer[client] \in Parts(Sent(client))
  BY ClientFacts
<1>2. Attestation(session) = Sent(client)
  BY <1>1, ReadFacts
<1>3. Rest(toServer[client], n) = <<>>
  BY <1>1, <1>2, ReadFacts
<1>4. Request(client).type # Attestation(session).type
  BY DEF Request, Attestation
<1>5. vsimKey[client] # NoSession /\ Attestation(session) = Attestation(vsimKey[client])
  BY <1>2, <1>4 DEF Sent
<1>6. vsimKey[client] \in Session
  BY <1>1, <1>5 DEF Good, Keys
<1>7. session.vsim = vsimKey[client].vsim /\ session.run = vsimKey[client].run
  BY <1>5 DEF Attestation
<1>8. vsimKey[client] = session
  BY <1>1, <1>6, <1>7 DEF Session
<1> QED
  BY <1>3, <1>8

LEMMA ServerRecvAttestationInv == Inv /\ ServerRecvAttestation => Inv'
<1> SUFFICES ASSUME Inv, ServerRecvAttestation PROVE Inv'
  OBVIOUS
<1>1. PICK n \in ReadSizes(toServer[client]) :
        LET got == Read(toServer[client], n)
        IN /\ toServer' = [toServer EXCEPT ![client] = Rest(@, n)]
           /\ IF got = Pieces(Attestation(session))
              THEN /\ attested' = attested \cup {session}
                   /\ serverPc' = "send_ack"
                   /\ UNCHANGED <<serverOpen, client>>
              ELSE CloseConnection /\ UNCHANGED attested
  BY DEF ServerRecvAttestation
<1>2. /\ serverPc = "recv_attestation"
      /\ UNCHANGED <<toVsim, vsimOpen, reset, backlog, serverRuns, session, vsimVars, acked>>
  BY DEF ServerRecvAttestation
<1>3. PICK c \in Vsims : c = client
  BY <1>2, ClientFacts
<1>4. /\ Good(c) /\ ~Queued(c) /\ Connected(c) /\ session \in Session
      /\ session.vsim = c
      /\ Sent(c) \in Message /\ toServer[c] \in Parts(Sent(c))
  BY <1>2, <1>3, ClientFacts
<1>5. /\ Unattested(c) /\ vsimPc[c] # "send_request"
      /\ session = [vsim |-> c, run |-> serverRuns]
      /\ vsimKey[c] # NoSession => toVsim[c] = <<>> /\ ~reset[c]
  BY <1>2, <1>3, <1>4 DEF Good, Served
<1>6. /\ toServer[c] # <<>> /\ Rest(toServer[c], n) \in Parts(Sent(c))
      /\ toServer' = [toServer EXCEPT ![c] = Rest(toServer[c], n)]
  BY <1>1, <1>3, <1>4, ReadFacts
<1>7. CASE Read(toServer[c], n) = Pieces(Attestation(session))
  <2>1. /\ attested' = attested \cup {session}
        /\ serverPc' = "send_ack" /\ client' = c /\ UNCHANGED serverOpen
    BY <1>1, <1>3, <1>7
  <2>2. vsimKey[c] = session /\ Rest(toServer[c], n) = <<>>
    BY <1>1, <1>2, <1>3, <1>7, AttestationReads
  <2>3. toServer' = [toServer EXCEPT ![c] = <<>>] /\ toServer'[c] = <<>>
    BY <1>6, <2>2 DEF Inv, TypeOK
  <2>4. session # NoSession /\ toVsim[c] = <<>> /\ ~reset[c]
    BY <1>4, <1>5, <2>2, MessageTypes
  <2>5. TypeOK'
    BY <1>2, <1>3, <1>4, <2>1, <2>3 DEF Inv, TypeOK, ServerPcs, vsimVars
  <2>6. Elsewhere(c)
    BY <1>2, <1>3, <1>4, <2>1, <2>3 DEF Elsewhere, Queued, vsimVars, Inv,
       TypeOK
  <2>7. Queue'
    BY <1>2, <2>1 DEF Queue, Inv
  <2>8. Streams(c)'
    BY <1>2, <1>5, <2>3, <2>4, PiecesFacts DEF Streams, vsimVars
  <2>9. Keys(c)'
    BY <1>2, <1>4 DEF Good, Keys, Ended, vsimVars
  <2>10. session \notin attested /\ session \notin acked
    BY <1>4, <1>5 DEF Unattested, Inv, TypeOK
  <2>11. Waiting(c)' /\ Served(c)'
    BY <1>2, <1>4, <1>5, <2>1, <2>2, <2>4, <2>10 DEF Waiting, Served, Queued,
       Connected,
       Ended, vsimVars
  <2> QED
    BY <2>5, <2>6, <2>7, <2>8, <2>9, <2>11, ElsewhereInv DEF Good
<1>8. CASE Read(toServer[c], n) # Pieces(Attestation(session))
  <2>1. CloseConnection /\ UNCHANGED attested
    BY <1>1, <1>3, <1>8
  <2>2. UNCHANGED histVars
    BY <1>2, <2>1 DEF histVars
  <2> DEFINE left == Rest(toServer[c], n)
  <2> HIDE DEF left
  <2>3. left \in Parts(Sent(client)) /\ toServer' = [toServer EXCEPT ![client] = left]
    BY <1>3, <1>6 DEF left
  <2> QED
    BY <1>2, <1>3, <1>6, <2>1, <2>2, <2>3, ClosedInv
<1> QED
  BY <1>7, <1>8

LEMMA ServerSendAckInv == Inv /\ ServerSendAck => Inv'
<1> SUFFICES ASSUME Inv, ServerSendAck PROVE Inv'
  OBVIOUS
<1> USE DEF ServerSendAck, CloseConnection
<1>1. PICK c \in Vsims : c = client
  BY ClientFacts
<1>2. /\ Good(c) /\ ~Queued(c) /\ Connected(c) /\ session \in Session
      /\ session.vsim = c
      /\ toServer[c] \in Parts(Sent(c))
  BY <1>1, ClientFacts
<1>3. /\ toVsim[c] = <<>> /\ ~reset[c] /\ vsimPc[c] # "send_request"
      /\ vsimKey[c] = session /\ session \in attested \ acked
      /\ session # NoSession
  BY <1>1, <1>2, MessageTypes DEF Good, Served
<1>4. toVsim'[c] = <<>> \/ toVsim'[c] = Pieces(Ack(session))
  BY <1>1, <1>3, PiecesFacts DEF SendToVsim, Inv, TypeOK
<1>5. toVsim'[c] \in Parts(Ack(session)) /\ toVsim'[c] \in Seq(Piece)
  <2>1. toVsim'[c] \in Parts(Ack(session)) /\ Ack(session) \in Message
    BY <1>2, <1>4, PiecesFacts, MessageTypes
  <2> QED
    BY <2>1, PartsFacts
<1>6. reset'[c] => Ended(c)
  BY <1>1, <1>2, <1>3 DEF SendToVsim, Inv, TypeOK, Connected
<1>7. TypeOK'
  BY <1>1, <1>3, <1>5 DEF Inv, TypeOK, ServerPcs, SendToVsim, vsimVars
<1>8. client' # c
  BY DEF NoClient
<1>9. Elsewhere(c)
  BY <1>1 DEF Elsewhere, Queued, vsimVars, Inv, TypeOK, SendToVsim
<1>10. Queue'
  BY DEF Queue, Inv
<1>11. Streams(c)'
  BY <1>2, <1>3, <1>5 DEF Good, Streams, Sent, Answered, vsimVars
<1>12. Keys(c)'
  BY <1>2, <1>6 DEF Good, Keys, Ended, vsimVars
<1>13. Waiting(c)' /\ Served(c)'
  BY <1>2, <1>8 DEF Waiting, Served, Queued, Connected, vsimVars
<1> QED
  BY <1>7, <1>9, <1>10, <1>11, <1>12, <1>13, ElsewhereInv DEF Good

LEMMA ServerRecvNothingInv == Inv /\ (ServerRecvNothing \/ ServerSendTimesOut) => Inv'
<1> SUFFICES ASSUME Inv, ServerRecvNothing \/ ServerSendTimesOut PROVE Inv'
  OBVIOUS
<1>1. /\ serverPc \in {"recv_request", "recv_attestation"} /\ CloseConnection
      /\ toServer[client] = <<>>
      /\ UNCHANGED <<toServer, toVsim, vsimOpen, reset, backlog, serverRuns, session,
                     vsimVars, histVars>>
  BY DEF ServerRecvNothing, ServerSendTimesOut
<1>2. toServer' = [toServer EXCEPT ![client] = <<>>]
  BY <1>1 DEF Inv, TypeOK
<1>3. <<>> \in Parts(Sent(client))
  BY PiecesFacts
<1> QED
  BY <1>1, <1>2, <1>3, ClosedInv

LEMMA ServerDiesInv ==
  ASSUME NEW lost \in SUBSET Vsims PROVE Inv /\ ServerDies(lost) => Inv'
<1> SUFFICES ASSUME Inv, ServerDies(lost) PROVE Inv'
  OBVIOUS
<1> USE DEF ServerDies, vsimVars, histVars
<1>1. TypeOK'
  BY DEF Inv, TypeOK, ServerPcs
<1>2. Queue'
  BY DEF Queue
<1>3. ASSUME NEW v \in Vsims PROVE Good(v)'
  <2>1. Good(v)
    BY DEF Inv
  <2>2. toServer'[v] = <<>> /\ toVsim'[v] \in {<<>>, toVsim[v]}
    OBVIOUS
  <2>3. ~Queued(v)' /\ client' # v
    BY DEF Queued
  <2>4. Streams(v)'
    BY <2>1, <2>2, PiecesFacts DEF Good, Streams, Answered
  <2>5. Keys(v)'
    BY <2>1 DEF Good, Keys, Ended
  <2>6. Waiting(v)' /\ Served(v)'
    BY <2>1, <2>2, <2>3 DEF Good, Waiting, Served, Unserved, Unattested
  <2> QED
    BY <2>4, <2>5, <2>6 DEF Good
<1> QED
  BY <1>1, <1>2, <1>3 DEF Inv

LEMMA NextInv == Inv /\ [Next]_vars => Inv'
<1> SUFFICES ASSUME Inv, [Next]_vars PROVE Inv'
  OBVIOUS
<1>1. CASE UNCHANGED vars
  <2> USE <1>1 DEF vars, netVars, serverVars, vsimVars, histVars
  <2>1. TypeOK' /\ Queue'
    BY DEF Inv, TypeOK, Queue
  <2>2. ASSUME NEW w \in Vsims PROVE Good(w)'
    <3>1. Untouched(w)
      BY DEF Untouched, Queued, Unattested
    <3> QED
      BY <3>1, UntouchedGood DEF Inv
  <2> QED
    BY <2>1, <2>2 DEF Inv
<1>2. CASE ServerStep
  BY <1>2, ServerAcceptInv, ServerRecvRequestInv, ServerSendResponseInv,
     ServerRecvAttestationInv, ServerSendAckInv,
     ServerRecvNothingInv DEF ServerStep
<1>3. ASSUME NEW v \in Vsims, VsimStep(v) PROVE Inv'
  BY <1>3, VsimConnectInv, VsimConnectFailsInv, VsimSendRequestInv,
     VsimReadResponseInv,
     VsimSendAttestationInv, VsimReadAckInv, VsimReadNothingInv DEF VsimStep
<1>4. CASE Environment
  <2>1. CASE ServerStart \/ ServerSendTimesOut
    BY <2>1, ServerStartInv, ServerRecvNothingInv
  <2>2. CASE ServerKilled \/ ServerLengthWraps
    BY <2>2, ServerDiesInv DEF ServerKilled, ServerLengthWraps
  <2>3. ASSUME NEW v \in Vsims, VsimStart(v) \/ VsimKilled(v) \/ VsimVanishes(v)
        PROVE  Inv'
    BY <2>3, VsimStartInv, VsimKilledInv, VsimVanishesInv
  <2> QED
    BY <1>4, <2>1, <2>2, <2>3 DEF Environment
<1> QED
  BY <1>1, <1>2, <1>3, <1>4 DEF Next

(* The inductive invariant holds whatever the number of vSIMs and server   *)
(* runs, wherever TCP cuts and whatever faults may happen.                 *)
THEOREM Invariance == Spec => []Inv
BY InitInv, NextInv, PTL DEF Spec

-----------------------------------------------------------------------------
(* Every variable keeps its type.  (provider.cpp, fpga-provision.c,        *)
(* host-fpga.cpp)                                                          *)
THEOREM TypeCorrect == Spec => []TypeOK
<1>1. Inv => TypeOK
  BY DEF Inv
<1> QED
  BY <1>1, Invariance, PTL

(* A vSIM that took the acknowledgement for good was attested under its    *)
(* very session key.  (fpga-provision.c 137-149, provider.cpp 280-384)     *)
THEOREM AckMeansAttestedHolds == Spec => []AckMeansAttested
<1>1. Inv => AckMeansAttested
  BY DEF Inv, Good, Keys, AckMeansAttested, TypeOK
<1> QED
  BY <1>1, Invariance, PTL

(* What comes back over a connection is for the vSIM at its other end.     *)
(* (provider.cpp 100-120)                                                  *)
THEOREM OwnConnectionHolds == Spec => []OwnConnection
<1>1. ASSUME Inv, NEW v \in Vsims, toVsim[v] # <<>>
      PROVE  /\ toVsim[v][1].msg.vsim = v
             /\ client = v => session = [vsim |-> v, run |-> serverRuns]
  <2>1. Good(v) /\ Answered(v)
    BY <1>1 DEF Inv, Good, Streams
  <2>2. CASE vsimKey[v] = NoSession
    <3>1. PICK s \in Session : s.vsim = v /\ toVsim[v] \in Parts(Response(s))
      BY <2>1, <2>2 DEF Answered
    <3>2. toVsim[v][1].msg = Response(s)
      BY <1>1, <3>1, PartsFacts, MessageTypes
    <3> QED
      BY <1>1, <2>1, <3>1, <3>2 DEF Good, Served, Unserved, Response
  <2>3. CASE vsimKey[v] # NoSession
    <3>1. /\ vsimKey[v] \in Session /\ vsimKey[v].vsim = v
          /\ toVsim[v] \in Parts(Ack(vsimKey[v]))
      BY <2>1, <2>3 DEF Good, Keys, Answered
    <3>2. toVsim[v][1].msg = Ack(vsimKey[v])
      BY <1>1, <3>1, PartsFacts, MessageTypes
    <3> QED
      BY <1>1, <2>1, <3>1, <3>2 DEF Good, Served, Unserved, Ack
  <2> QED
    BY <2>2, <2>3
<1>2. Inv => OwnConnection
  BY <1>1 DEF OwnConnection
<1> QED
  BY <1>2, Invariance, PTL

(* No read can return parts of two messages.                               *)
(* (provider.cpp 182, 280; host-fpga.cpp 178)                              *)
THEOREM OneMessageInFlightHolds == Spec => []OneMessageInFlight
<1>1. ASSUME Inv, NEW v \in Vsims PROVE Len(toServer[v]) <= 2 /\ Len(toVsim[v]) <= 2
  <2>1. Good(v)
    BY <1>1 DEF Inv
  <2>2. Len(toServer[v]) <= 2
    <3>1. Sent(v) \in Message
      BY <2>1, MessageTypes DEF Good, Keys, Sent
    <3> QED
      BY <2>1, <3>1, PartsFacts DEF Good, Streams
  <2>3. CASE toVsim[v] = <<>>
    <3>1. Len(<<>>) = 0
      OBVIOUS
    <3> QED
      BY <2>2, <2>3, <3>1
  <2>4. CASE toVsim[v] # <<>>
    <3>1. Answered(v)
      BY <2>1, <2>4 DEF Good, Streams
    <3>2. \E m \in Message : toVsim[v] \in Parts(m)
      BY <2>1, <3>1, MessageTypes DEF Good, Keys, Answered
    <3> QED
      BY <2>2, <3>2, PartsFacts
  <2> QED
    BY <2>3, <2>4
<1>2. Inv => OneMessageInFlight
  BY <1>1 DEF OneMessageInFlight
<1> QED
  BY <1>2, Invariance, PTL

(* The Ack fits into the buffer of the response.                           *)
(* (fpga-provision.c 63, 139)                                              *)
THEOREM AckFitsHolds == Spec => []AckFits
<1>1. ASSUME Inv, NEW v \in Vsims, vsimPc[v] = "read_ack"
      PROVE  Bytes(toVsim[v]) <= copySize[v]
  <2>1. copySize[v] = Length.response /\ Length.response = 233 /\ Length.ack = 72
    BY <1>1 DEF Inv, Good, Keys, Length
  <2>2. CASE toVsim[v] = <<>>
    <3>1. Bytes(toVsim[v]) = 0
      BY <2>2 DEF Bytes
    <3> QED
      BY <2>1, <3>1
  <2>3. CASE toVsim[v] # <<>>
    <3>1. toVsim[v] \in Parts(Ack(vsimKey[v])) /\ Ack(vsimKey[v]) \in Message
      BY <1>1, <2>3, AckReads
    <3>2. Ack(vsimKey[v]).type = "ack"
      BY DEF Ack
    <3>3. Bytes(toVsim[v]) \in 0 .. Length.ack
      BY <3>1, <3>2, PartsBytes
    <3> QED
      BY <2>1, <3>3
  <2> QED
    BY <2>2, <2>3
<1>2. Inv => AckFits
  BY <1>1 DEF AckFits
<1> QED
  BY <1>2, Invariance, PTL

(* The server never sends on a connection that has been reset.             *)
(* (provider.cpp 267, 382)                                                 *)
THEOREM NoSigpipeHolds == Spec => []NoSigpipe
<1>1. ASSUME Inv, serverPc \in {"send_response", "send_ack"} PROVE ~reset[client]
  <2>1. Good(client)
    BY <1>1, ClientFacts
  <2> QED
    BY <1>1, <2>1 DEF Good, Served, Unserved
<1>2. Inv => NoSigpipe
  BY <1>1 DEF NoSigpipe
<1> QED
  BY <1>2, Invariance, PTL

-----------------------------------------------------------------------------
(***************************************************************************)
(* Agreement.  A step either leaves what the two sides have agreed on as   *)
(* it is, or it is the step of Agreement that carries the same name.       *)
(***************************************************************************)

outcome == [v \in Vsims |-> Outcome(v)]

LEMMA InitAgrees == Init => Promise!Init
BY DEF Init, Promise!Init, Outcome, Ended

(* A step in which only v ends, or nobody *)
LEMMA Outcomes ==
  ASSUME NEW v \in Vsims, vsimPc \in [Vsims -> VsimPcs], NEW pc,
         vsimPc' = [vsimPc EXCEPT ![v] = pc]
  PROVE  /\ ~Ended(v) /\ pc \notin {"done", "failed", "killed", "vanished"} =>
              outcome' = outcome
         /\ pc = "done" => outcome' = [outcome EXCEPT ![v] = "done"]
         /\ pc \in {"failed", "killed", "vanished"} =>
              outcome' = [outcome EXCEPT ![v] = "failed"]
<1>1. vsimPc'[v] = pc /\ \A w \in Vsims \ {v} : vsimPc'[w] = vsimPc[w]
  OBVIOUS
<1>2. \A w \in Vsims \ {v} : Outcome(w)' = Outcome(w)
  BY <1>1 DEF Outcome, Ended
<1>3. /\ ~Ended(v) /\ pc \notin {"done", "failed", "killed", "vanished"} =>
           Outcome(v)' = Outcome(v)
      /\ pc = "done" => Outcome(v)' = "done"
      /\ pc \in {"failed", "killed", "vanished"} => Outcome(v)' = "failed"
  BY <1>1 DEF Outcome, Ended
<1> QED
  BY <1>2, <1>3 DEF outcome

LEMMA EndingAgrees ==
  ASSUME NEW v \in Vsims, Inv, ~Ended(v),
         NEW pc \in {"done", "failed", "killed", "vanished"},
         vsimPc' = [vsimPc EXCEPT ![v] = pc],
         UNCHANGED <<vsimKey, histVars>>,
         pc = "done" => vsimKey[v] \in acked
  PROVE  Promise!Next
<1>1. outcome[v] = "open"
  BY DEF outcome, Outcome
<1>2. CASE pc = "done"
  <2>1. outcome' = [outcome EXCEPT ![v] = "done"]
    BY <1>2, Outcomes DEF Inv, TypeOK
  <2>2. Promise!EndWell(v)
    BY <1>1, <1>2, <2>1 DEF Promise!EndWell, outcome, histVars
  <2> QED
    BY <2>2 DEF Promise!Next
<1>3. CASE pc # "done"
  <2>1. outcome' = [outcome EXCEPT ![v] = "failed"]
    BY <1>3, Outcomes DEF Inv, TypeOK
  <2>2. Promise!EndBadly(v)
    BY <1>1, <1>3, <2>1 DEF Promise!EndBadly, outcome, histVars
  <2> QED
    BY <2>2 DEF Promise!Next
<1> QED
  BY <1>2, <1>3

LEMMA QuietAgrees ==
  ASSUME UNCHANGED <<vsimKey, histVars>>, outcome' = outcome
  PROVE  UNCHANGED Promise!vars
BY DEF Promise!vars, outcome, histVars

LEMMA VsimAgrees ==
  ASSUME Inv, NEW v \in Vsims, VsimStep(v)
  PROVE  [Promise!Next]_(Promise!vars)
<1>0. vsimPc \in [Vsims -> VsimPcs]
  BY DEF Inv, TypeOK
<1>1. CASE VsimConnect(v) \/ VsimConnectFails(v) \/ VsimSendRequest(v) \/ VsimSendAttestation(v)
  <2>1. PICK pc \in {"send_request", "read_response", "read_ack"} :
          vsimPc' = [vsimPc EXCEPT ![v] = pc]
    BY <1>1 DEF VsimConnect, VsimConnectFails, VsimSendRequest,
       VsimSendAttestation
  <2>2. ~Ended(v) /\ UNCHANGED <<vsimKey, histVars>>
    BY <1>1 DEF VsimConnect, VsimConnectFails, VsimSendRequest,
       VsimSendAttestation, Ended
  <2>3. outcome' = outcome
    BY <1>0, <2>1, <2>2, Outcomes
  <2> QED
    BY <2>2, <2>3, QuietAgrees
<1>2. CASE VsimReadResponse(v)
  <2>1. PICK n \in ReadSizes(toVsim[v]) :
          LET m == Read(toVsim[v], n)[1].msg
          IN \/ /\ vsimKey' = [vsimKey EXCEPT ![v] = [vsim |-> v, run |-> m.run]]
                /\ vsimPc' = [vsimPc EXCEPT ![v] = "send_attestation"]
             \/ VsimEnds(v, "failed") /\ UNCHANGED vsimKey
    BY <1>2 DEF VsimReadResponse
  <2>2. vsimPc[v] = "read_response" /\ ~Ended(v) /\ UNCHANGED histVars
    BY <1>2 DEF VsimReadResponse, Ended
  <2>3. CASE VsimEnds(v, "failed") /\ UNCHANGED vsimKey
    BY <2>2, <2>3, EndingAgrees DEF VsimEnds
  <2>4. CASE ~(VsimEnds(v, "failed") /\ UNCHANGED vsimKey)
    <3>1. toVsim[v] # <<>>
      BY DEF ReadSizes
    <3>2. PICK s \in Session : s.vsim = v /\ toVsim[v] \in Parts(Response(s))
      BY <2>2, <3>1, VsimReadResponseReads
    <3>3. Read(toVsim[v], n)[1].msg = Response(s) /\ Response(s).run = s.run
      BY <3>2, ReadFacts, MessageTypes DEF Response
    <3>4. [vsim |-> v, run |-> s.run] = s
      BY <3>2 DEF Session
    <3>5. /\ vsimKey' = [vsimKey EXCEPT ![v] = s]
          /\ vsimPc' = [vsimPc EXCEPT ![v] = "send_attestation"]
      BY <2>1, <2>4, <3>3, <3>4
    <3>6. outcome' = outcome
      <4>1. PICK pc \in {"send_attestation"} : vsimPc' = [vsimPc EXCEPT ![v] = pc]
        BY <3>5
      <4> QED
        BY <1>0, <2>2, <4>1, Outcomes
    <3>7. outcome[v] = "open" /\ vsimKey[v] = NoSession
      BY <2>2, <3>1, VsimReadResponseReads DEF outcome, Outcome
    <3>8. Promise!Settle(v)
      BY <2>2, <3>2, <3>5, <3>6, <3>7 DEF Promise!Settle, outcome, histVars
    <3> QED
      BY <3>8 DEF Promise!Next
  <2> QED
    BY <2>3, <2>4
<1>3. CASE VsimReadAck(v)
  <2>1. toVsim[v] # <<>> /\ vsimPc[v] = "read_ack"
    BY <1>3 DEF VsimReadAck, ReadSizes
  <2>2. vsimKey[v] \in acked /\ ~Ended(v) /\ UNCHANGED <<vsimKey, histVars>>
    BY <1>3, <2>1, AckReads DEF VsimReadAck, Ended
  <2>3. \E pc \in {"done", "failed"} : vsimPc' = [vsimPc EXCEPT ![v] = pc]
    BY <1>3 DEF VsimReadAck, VsimEnds
  <2> QED
    BY <2>2, <2>3, EndingAgrees
<1>4. CASE VsimReadNothing(v)
  <2>1. ~Ended(v) /\ UNCHANGED <<vsimKey, histVars>>
    BY <1>4 DEF VsimReadNothing, Ended
  <2>2. vsimPc' = [vsimPc EXCEPT ![v] = "failed"]
    BY <1>4, StaleCopy DEF VsimReadNothing, VsimEnds
  <2> QED
    BY <2>1, <2>2, EndingAgrees
<1> QED
  BY <1>1, <1>2, <1>3, <1>4 DEF VsimStep

LEMMA ServerQuiet ==
  ASSUME UNCHANGED <<vsimVars, histVars>>
  PROVE  UNCHANGED Promise!vars
<1>1. outcome' = outcome /\ UNCHANGED <<vsimKey, histVars>>
  BY DEF outcome, Outcome, Ended, vsimVars
<1> QED
  BY <1>1, QuietAgrees

LEMMA ServerAgrees ==
  ASSUME Inv, ServerStep
  PROVE  [Promise!Next]_(Promise!vars)
<1>1. CASE ServerAccept \/ ServerRecvRequest \/ ServerSendResponse \/ ServerRecvNothing
  <2>1. UNCHANGED <<vsimVars, histVars>>
    BY <1>1 DEF ServerAccept, ServerRecvRequest, ServerSendResponse,
       ServerRecvNothing
  <2> QED
    BY <2>1, ServerQuiet
<1>2. CASE ServerRecvAttestation
  <2>1. PICK n \in ReadSizes(toServer[client]) :
          IF Read(toServer[client], n) = Pieces(Attestation(session))
          THEN attested' = attested \cup {session} ELSE UNCHANGED attested
    BY <1>2 DEF ServerRecvAttestation
  <2>2. serverPc = "recv_attestation" /\ UNCHANGED <<vsimVars, acked>>
    BY <1>2 DEF ServerRecvAttestation
  <2>3. CASE Read(toServer[client], n) = Pieces(Attestation(session))
    <3>1. /\ client \in Vsims /\ Good(client) /\ session \in Session
          /\ session.vsim = client /\ vsimKey[client] = session
      BY <2>2, <2>3, ClientFacts, AttestationReads
    <3>2. session \notin attested
      BY <2>2, <3>1 DEF Good, Served, Unattested
    <3>3. outcome' = outcome
      BY <2>2 DEF outcome, Outcome, Ended, vsimVars
    <3>4. Promise!Attest(client)
      BY <2>1, <2>2, <2>3, <3>1, <3>2, <3>3 DEF Promise!Attest, outcome,
         vsimVars
    <3> QED
      BY <3>1, <3>4 DEF Promise!Next
  <2>4. CASE Read(toServer[client], n) # Pieces(Attestation(session))
    <3>1. UNCHANGED histVars
      BY <2>1, <2>2, <2>4 DEF histVars
    <3> QED
      BY <2>2, <3>1, ServerQuiet
  <2> QED
    BY <2>3, <2>4
<1>3. CASE ServerSendAck
  <2>1. serverPc = "send_ack" /\ acked' = acked \cup {session}
        /\ UNCHANGED <<vsimVars, attested>>
    BY <1>3 DEF ServerSendAck
  <2>2. client \in Vsims /\ vsimKey[client] = session /\ session \in attested \ acked
    BY <2>1, ClientFacts DEF Good, Served
  <2>3. outcome' = outcome
    BY <2>1 DEF outcome, Outcome, Ended, vsimVars
  <2>4. Promise!Acknowledge(client)
    BY <2>1, <2>2, <2>3 DEF Promise!Acknowledge, outcome, vsimVars
  <2> QED
    BY <2>2, <2>4 DEF Promise!Next
<1> QED
  BY <1>1, <1>2, <1>3 DEF ServerStep

LEMMA EnvironmentAgrees ==
  ASSUME Inv, Environment
  PROVE  [Promise!Next]_(Promise!vars)
<1>1. CASE ServerStart \/ ServerKilled \/ ServerLengthWraps \/ ServerSendTimesOut
  <2>1. UNCHANGED <<vsimVars, histVars>>
    BY <1>1 DEF ServerStart, ServerKilled, ServerLengthWraps, ServerDies,
       ServerSendTimesOut
  <2> QED
    BY <2>1, ServerQuiet
<1>2. ASSUME NEW v \in Vsims, VsimStart(v) PROVE [Promise!Next]_(Promise!vars)
  <2>1. PICK pc \in {"connect"} : vsimPc' = [vsimPc EXCEPT ![v] = pc]
    BY <1>2 DEF VsimStart
  <2>2. ~Ended(v) /\ UNCHANGED <<vsimKey, histVars>>
    BY <1>2 DEF VsimStart, Ended
  <2>3. outcome' = outcome
    BY <2>1, <2>2, Outcomes DEF Inv, TypeOK
  <2> QED
    BY <2>2, <2>3, QuietAgrees
<1>3. ASSUME NEW v \in Vsims, VsimKilled(v) \/ VsimVanishes(v)
      PROVE  [Promise!Next]_(Promise!vars)
  <2>1. ~Ended(v) /\ UNCHANGED <<vsimKey, histVars>>
    BY <1>3 DEF VsimKilled, VsimVanishes
  <2>2. \E pc \in {"killed", "vanished"} : vsimPc' = [vsimPc EXCEPT ![v] = pc]
    BY <1>3 DEF VsimKilled, VsimVanishes, VsimEnds
  <2> QED
    BY <2>1, <2>2, EndingAgrees
<1> QED
  BY <1>1, <1>2, <1>3 DEF Environment

(* The handshake implements Agreement, whatever is cut, lost, killed or    *)
(* restarted.  (fpga-provision.c 36-152, provider.cpp 180-385)             *)
THEOREM AgreesHolds == Spec => Agrees
<1>1. Inv /\ [Next]_vars => [Promise!Next]_(Promise!vars)
  <2> SUFFICES ASSUME Inv, [Next]_vars PROVE [Promise!Next]_(Promise!vars)
    OBVIOUS
  <2>1. CASE UNCHANGED vars
    BY <2>1, ServerQuiet DEF vars, vsimVars, histVars
  <2> QED
    BY <2>1, ServerAgrees, VsimAgrees, EnvironmentAgrees DEF Next
<1> QED
  BY <1>1, InitAgrees, Invariance, PTL DEF Spec, Agrees, Promise!Spec

(* Only an Ack that was just read ends a handshake well.                   *)
(* (fpga-provision.c 137-149, host-fpga.cpp 257-277)                       *)
THEOREM AckIsFreshHolds == Spec => AckIsFresh
<1> DEFINE Fresh == \A v \in Vsims : vsimPc[v] # "done" /\ vsimPc'[v] = "done" =>
                                       toVsim[v] # <<>>
<1>1. Inv /\ [Next]_vars => [Fresh]_vars
  <2> SUFFICES ASSUME Inv, Next, NEW v \in Vsims, vsimPc[v] # "done", vsimPc'[v] = "done",
                      toVsim[v] = <<>>
               PROVE  FALSE
    OBVIOUS
  <2>0. vsimPc \in [Vsims -> VsimPcs]
    BY DEF Inv, TypeOK
  <2>1. CASE ServerStep \/ ServerStart \/ ServerKilled \/ ServerLengthWraps \/ ServerSendTimesOut
    BY <2>1 DEF ServerStep, ServerAccept, ServerRecvRequest,
       ServerSendResponse,
       ServerRecvAttestation, ServerSendAck, ServerRecvNothing, ServerStart,
       ServerKilled,
       ServerLengthWraps, ServerSendTimesOut, ServerDies, vsimVars
  <2>2. ASSUME NEW w \in Vsims, VsimStart(w) \/ VsimKilled(w) \/ VsimVanishes(w) PROVE FALSE
    BY <2>0, <2>2 DEF VsimStart, VsimKilled, VsimVanishes, VsimEnds
  <2>3. ASSUME NEW w \in Vsims, VsimStep(w) PROVE FALSE
    <3>1. CASE VsimReadAck(w)
      <4>1. toVsim[w] # <<>> /\ \E pc \in {"done", "failed"} : vsimPc' = [vsimPc EXCEPT ![w] = pc]
        BY <3>1 DEF VsimReadAck, VsimEnds, ReadSizes
      <4> QED
        BY <2>0, <4>1
    <3>2. CASE VsimReadNothing(w)
      <4>1. vsimPc' = [vsimPc EXCEPT ![w] = "failed"]
        BY <3>2, StaleCopy DEF VsimReadNothing, VsimEnds
      <4> QED
        BY <2>0, <4>1
    <3>3. CASE ~VsimReadAck(w) /\ ~VsimReadNothing(w)
      BY <2>0, <2>3, <3>3 DEF VsimStep, VsimConnect, VsimConnectFails,
         VsimSendRequest,
         VsimReadResponse, VsimSendAttestation, VsimEnds
    <3> QED
      BY <3>1, <3>2, <3>3
  <2> QED
    BY <2>1, <2>2, <2>3 DEF Next, Environment
<1> QED
  BY <1>1, Invariance, PTL DEF Spec, AckIsFresh
=============================================================================

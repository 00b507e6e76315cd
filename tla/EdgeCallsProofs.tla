-------------------------- MODULE EdgeCallsProofs ---------------------------
(***************************************************************************)
(* EdgeCalls for every size of the shared buffer that holds the largest    *)
(* message, and whatever the reads of the socket return.                   *)
(*                                                                         *)
(* A piece that was put into the buffer is found again until something is  *)
(* put over it (PutFacts, GetFacts).  OnCourse says where in its listing   *)
(* an enclave is and which message it has built by then; Asked, Answered   *)
(* and Announced say what lies in the buffer when the host, the runtime    *)
(* and the copy of a message look at it.                                   *)
(***************************************************************************)
EXTENDS EdgeCalls, SequenceTheorems, TLAPS

(* What a listing put together of two has at a line.                       *)
LEMMA Concatenated ==
  ASSUME NEW S, NEW s \in Seq(S), NEW t \in Seq(S)
  PROVE  /\ s \o t \in Seq(S) /\ Len(s \o t) = Len(s) + Len(t)
         /\ \A i \in 1 .. Len(s) : (s \o t)[i] = s[i]
         /\ \A i \in 1 .. Len(t) : (s \o t)[Len(s) + i] = t[i]
<1>1. Len(s) \in Nat /\ Len(t) \in Nat
  BY LenProperties
<1>2. /\ s \o t \in Seq(S) /\ Len(s \o t) = Len(s) + Len(t)
      /\ \A i \in 1 .. Len(s) + Len(t) :
           (s \o t)[i] = IF i <= Len(s) THEN s[i] ELSE t[i - Len(s)]
  BY ConcatProperties
<1> DEFINE st == s \o t
           m  == Len(s)
           n  == Len(t)
<1> HIDE DEF st, m, n
<1>3. /\ m \in Nat /\ n \in Nat
      /\ \A i \in 1 .. m + n : st[i] = IF i <= m THEN s[i] ELSE t[i - m]
  BY <1>1, <1>2, Zenon DEF st, m, n
<1>4. ASSUME NEW i \in 1 .. m
      PROVE  st[i] = s[i]
  <2>1. i \in 1 .. m + n /\ i <= m
    BY <1>3
  <2> QED
    BY <1>3, <2>1, Zenon
<1>5. ASSUME NEW i \in 1 .. n
      PROVE  st[m + i] = t[i]
  <2>1. m + i \in 1 .. m + n /\ ~(m + i <= m) /\ (m + i) - m = i
    BY <1>3
  <2> QED
    BY <1>3, <2>1, Zenon
<1> QED
  BY <1>2, <1>4, <1>5, Zenon DEF st, m, n

(* The shared buffer has room for the largest message and its edge_data.   *)
LEMMA RoomFits ==
  BUFFER_SIZE \in Nat /\ Room \in Nat /\ EDGE_DATA + BUFFER_SIZE <= Room
BY ConstantsAssumption DEF EDGE_DATA, BUFFER_SIZE

USE RoomFits DEF EDGE_DATA, LONG

-----------------------------------------------------------------------------
(* The shared buffer *)

Piece(at, size, what) == [at |-> at, size |-> size, what |-> what]

Apart(p, q) == p.at + p.size <= q.at \/ q.at + q.size <= p.at

Intact(pieces) ==
  /\ \A p \in pieces : p.at \in Nat /\ p.size \in Nat \ {0} /\ p.at + p.size <= Room
  /\ \A p, q \in pieces : p = q \/ Apart(p, q)

(* What is put is there, what lies apart from it stays.                    *)
LEMMA PutFacts ==
  ASSUME NEW pieces, Intact(pieces), NEW at \in Nat, NEW size \in Nat,
         at + size <= Room, NEW what
  PROVE  /\ Intact(Put(pieces, at, size, what))
         /\ size > 0 => Piece(at, size, what) \in Put(pieces, at, size, what)
         /\ \A p \in pieces : Apart(p, Piece(at, size, what)) =>
              p \in Put(pieces, at, size, what)
BY DEF Put, Intact, Apart, Piece

(* What is there is what a copy of its bytes, or a printf, finds.          *)
LEMMA GetFacts ==
  ASSUME NEW pieces, Intact(pieces), NEW at \in Nat, NEW size \in Nat \ {0},
         NEW what, Piece(at, size, what) \in pieces
  PROVE  /\ Get(pieces, at, size) = what
         /\ at = 0 /\ what.size = size => GetString(pieces) = what
<1> DEFINE p == Piece(at, size, what)
<1>1. p.at = at /\ p.size = size /\ p.what = what
  BY DEF Piece
<1>2. \A q \in pieces : q.at = at => q = p
  BY <1>1 DEF Intact, Apart
<1>3. {q \in pieces : q.at = at /\ q.size = size} = {p}
  BY <1>1, <1>2
<1>4. at = 0 /\ what.size = size =>
        {q \in pieces : q.at = 0 /\ q.size = q.what.size} = {p}
  BY <1>1, <1>2
<1> HIDE DEF p
<1>5. (CHOOSE q \in {p} : TRUE) = p /\ {p} # {}
  OBVIOUS
<1> QED
  BY <1>1, <1>3, <1>4, <1>5 DEF Get, GetString

-----------------------------------------------------------------------------
(* The listings of the enclaves *)

Listing(e) == IF e = "provision" THEN ProvisionEntry ELSE AuthEntry
Lines(e)   == IF e = "provision" THEN 16 ELSE 5
Rest(e, k) == SubSeq(Listing(e), k, Lines(e))

Waits == {"wait_for_message", "wait_for_challenge"}

Attestation == [name |-> "attestation", size |-> 168]

(* The message that has been built when the enclave is at line k. *)
Built(e, k) ==
  IF e = "provision" THEN IF k <= 8 THEN Request ELSE Attestation
  ELSE IF k <= 2 THEN None ELSE Response

LEMMA Listings ==
  /\ ProvisionEntry =
       << PrintString("label"), PrintString("label"),
          Send("send_ra_req", 104), Call("wait_for_message"), Do("copy"),
          Check(233), PrintString("label"), Do("box"),
          Send("send_buffer", 168), Call("wait_for_message"), Do("copy"),
          Check(72), PrintString("label"), PrintString("number"),
          Call("wait"), PrintString("number") >>
  /\ AuthEntry =
       << Call("wait_for_challenge"), Do("copy"), PrintString("label"),
          PrintString("number"), Send("send_challenge_response", 46) >>
<1>1. AuthEntry =
       << Call("wait_for_challenge"), Do("copy"), PrintString("label"),
          PrintString("number"), Send("send_challenge_response", 46) >>
  BY DEF AuthEntry
<1> DEFINE a == <<PrintString("label")>>
           b == EstablishSecureChannel
           c == << PrintString("label"), PrintString("number"), Call("wait"),
                   PrintString("number") >>
<1>2. /\ Len(a) = 1 /\ a[1] = PrintString("label")
      /\ Len(b) = 11 /\ Len(c) = 4
  BY DEF EstablishSecureChannel
<1>3. /\ b[1] = PrintString("label") /\ b[2] = Send("send_ra_req", 104)
      /\ b[3] = Call("wait_for_message") /\ b[4] = Do("copy")
      /\ b[5] = Check(233) /\ b[6] = PrintString("label")
      /\ b[7] = Do("box") /\ b[8] = Send("send_buffer", 168)
      /\ b[9] = Call("wait_for_message") /\ b[10] = Do("copy")
      /\ b[11] = Check(72)
  BY DEF EstablishSecureChannel
<1>4. /\ c[1] = PrintString("label") /\ c[2] = PrintString("number")
      /\ c[3] = Call("wait") /\ c[4] = PrintString("number")
  OBVIOUS
<1>5. ProvisionEntry = a \o b \o c
  BY DEF ProvisionEntry
<1> DEFINE S == {a[1]} \cup {b[i] : i \in 1 .. 11} \cup {c[i] : i \in 1 .. 4}
<1>s. a \in Seq(S) /\ b \in Seq(S) /\ c \in Seq(S)
  <2>1. a = [i \in 1 .. 1 |-> a[i]] /\ c = [i \in 1 .. 4 |-> c[i]]
    OBVIOUS
  <2>2. b = [i \in 1 .. 11 |-> b[i]]
    BY DEF EstablishSecureChannel
  <2> HIDE DEF a, b, c
  <2> QED
    BY <2>1, <2>2
<1> HIDE DEF S
<1> DEFINE ab  == a \o b
           abc == ab \o c
<1> HIDE DEF a, b, c
<1>6. ab \in Seq(S) /\ Len(ab) = Len(a) + Len(b)
      /\ (\A i \in 1 .. Len(a) : ab[i] = a[i])
      /\ (\A i \in 1 .. Len(b) : ab[Len(a) + i] = b[i])
  BY <1>s, Concatenated
<1> HIDE DEF ab
<1>7. abc \in Seq(S) /\ Len(abc) = Len(ab) + Len(c)
      /\ (\A i \in 1 .. Len(ab) : abc[i] = ab[i])
      /\ (\A i \in 1 .. Len(c) : abc[Len(ab) + i] = c[i])
  <2>1. ab \in Seq(S) /\ c \in Seq(S)
    BY <1>s, <1>6
  <2> QED
    BY <2>1, Concatenated
<1> HIDE DEF abc
<1>8. /\ \A i \in 1 .. 1 : ab[i] = a[i]
      /\ \A i \in 1 .. 11 : ab[1 + i] = b[i]
      /\ \A i \in 1 .. 12 : abc[i] = ab[i]
      /\ \A i \in 1 .. 4 : abc[12 + i] = c[i]
  <2>1. Len(ab) = 12
    BY <1>2, <1>6
  <2> QED
    BY <1>2, <1>6, <1>7, <2>1, Zenon
<1>11. abc = [i \in 1 .. 16 |-> abc[i]]
  <2>1. Len(abc) = 16
    BY <1>2, <1>6, <1>7
  <2>2. abc \in [1 .. Len(abc) -> S]
    BY <1>7, LenProperties
  <2> QED
    BY <2>1, <2>2
<1>12. /\ abc[1] = a[1]
       /\ abc[2] = b[1] /\ abc[3] = b[2] /\ abc[4] = b[3] /\ abc[5] = b[4]
       /\ abc[6] = b[5] /\ abc[7] = b[6] /\ abc[8] = b[7]
       /\ abc[9] = b[8] /\ abc[10] = b[9] /\ abc[11] = b[10]
       /\ abc[12] = b[11]
  BY <1>8
<1>13. /\ abc[13] = c[1] /\ abc[14] = c[2]
       /\ abc[15] = c[3] /\ abc[16] = c[4]
  BY <1>8
<1>14. ProvisionEntry = abc
  BY <1>5 DEF abc, ab
<1> QED
  BY <1>1, <1>2, <1>3, <1>4, <1>11, <1>12, <1>13, <1>14

(* What a line may be *)
Calls(e)   == DOMAIN Registered[e]
Line(e, k) == Listing(e)[k]

LEMMA LineFacts ==
  ASSUME NEW e \in {"provision", "auth"}, NEW k \in 1 .. Lines(e)
  PROVE  /\ Line(e, k).op \in Calls(e) \cup {"copy", "check", "box"}
         /\ Line(e, k).op = "print" => Line(e, k).string \in {"label", "number"}
         /\ Line(e, k).op \in Senders =>
              /\ Line(e, k).size = Built(e, k).size
              /\ Built(e, k) \in {Request, Attestation, Response}
         /\ k < Lines(e) =>
              (Line(e, k + 1).op = "copy" <=> Line(e, k).op \in Waits)
         /\ Line(e, k).op \in Waits => k < Lines(e)
         /\ k = 1 => Line(e, k).op # "copy"
         /\ Line(e, k).op = "box" <=> e = "provision" /\ k = 8
         /\ Line(e, k).op = "copy" /\ e = "auth" <=> e = "auth" /\ k = 2
<1>1. CASE e = "provision"
  <2> DEFINE l == ProvisionEntry[k]
  <2>1. k \in 1 .. 16
    BY <1>1 DEF Lines
  <2> QED
    BY <1>1, <2>1, Listings DEF Line, Listing, Lines, Calls, Registered,
       PrintString, Send, Call, Do, Check, Senders, Built, Request,
       Attestation, Waits, SEALBYTES
<1>2. CASE e = "auth"
  <2>1. k \in 1 .. 5
    BY <1>2 DEF Lines
  <2> QED
    BY <1>2, <2>1, Listings DEF Line, Listing, Lines, Calls, Registered,
       PrintString, Send, Call, Do, Check, Senders, Built, Response, Waits
<1> QED
  BY <1>1, <1>2

(* What is left at a line is the line and what is left at the next. *)
LEMMA RestFacts ==
  ASSUME NEW e \in {"provision", "auth"}
  PROVE  /\ \A k \in 1 .. Lines(e) :
              /\ Rest(e, k) # <<>>
              /\ Head(Rest(e, k)) = Line(e, k)
              /\ Tail(Rest(e, k)) = Rest(e, k + 1)
         /\ Rest(e, Lines(e) + 1) = <<>>
         /\ Rest(e, 1) = Listing(e)
<1> DEFINE s == Listing(e)
           n == Lines(e)
           S == {s[i] : i \in 1 .. n}
<1>1. s \in Seq(S) /\ Len(s) = n /\ n \in Nat \ {0}
  <2>1. CASE e = "provision"
    <3>1. Len(s) = 16 /\ n = 16 /\ DOMAIN s = 1 .. 16
      BY <2>1, Listings DEF Listing, Lines
    <3>2. s = [i \in 1 .. 16 |-> s[i]]
      BY <2>1, Listings DEF Listing
    <3> QED
      BY <3>1, <3>2
  <2>2. CASE e = "auth"
    <3>1. Len(s) = 5 /\ n = 5 /\ DOMAIN s = 1 .. 5
      BY <2>2, Listings DEF Listing, Lines
    <3>2. s = [i \in 1 .. 5 |-> s[i]]
      BY <2>2, Listings DEF Listing
    <3> QED
      BY <3>1, <3>2
  <2> QED
    BY <2>1, <2>2
<1> HIDE DEF s, n, S
<1>3. ASSUME NEW k \in 1 .. n
      PROVE  /\ SubSeq(s, k, n) # <<>>
             /\ Head(SubSeq(s, k, n)) = s[k]
             /\ Tail(SubSeq(s, k, n)) = SubSeq(s, k + 1, n)
  BY <1>1
<1>4. SubSeq(s, n + 1, n) = <<>> /\ SubSeq(s, 1, n) = s
  BY <1>1
<1> QED
  BY <1>3, <1>4 DEF s, n, Rest, Line

-----------------------------------------------------------------------------
(* The invariant *)

(* The enclave is at a line of its listing, with what it has built by then *)
(* (fpga-provision.c 36-152, fpga-auth.c 69-141), or on its way out.       *)
OnCourse ==
  \/ todo \in {GiveUp, <<>>}
  \/ \E k \in 1 .. Lines(enclave) :
       todo = Rest(enclave, k) /\ built = Built(enclave, k)

(* The message the host got lies in the buffer behind its edge_data.       *)
EdgeData(msg) == [name |-> "edge_data", size |-> msg.size, offset |-> EDGE_DATA]

Delivered ==
  received.size > 0 => Piece(EDGE_DATA, received.size, received) \in data

(* The host finds the arguments of the call. *)
Asked ==
  turn = "host" =>
    /\ call.argSize = ArgSize(Op)
    /\ ArgSize(Op) > 0 => Piece(0, ArgSize(Op), Argument(Op)) \in data

(* The runtime finds the edge_data a wait returns. *)
Answered ==
  turn = "runtime" /\ Op.op \in Waits =>
    /\ call.retAt = 0
    /\ Piece(0, EDGE_DATA, EdgeData(received)) \in data
    /\ Delivered

(* The copy finds the message. *)
Announced ==
  turn = "enclave" /\ Doing("copy") => resp = EdgeData(received) /\ Delivered

Inv ==
  /\ TypeOK /\ Intact(data) /\ OnCourse
  /\ Asked /\ Answered /\ Announced
  /\ PrintsItsString /\ CallsSucceed /\ SendsTheMessage

(* What an enclave on its course does next, and what it has built for it.  *)
LEMMA NextLine ==
  ASSUME enclave \in {"provision", "auth"}, OnCourse, todo # <<>>
  PROVE  /\ Op.op \in Calls(enclave) \cup {"copy", "check", "box"}
         /\ Op.op = "print" => Op.string \in DOMAIN Strlen
         /\ Op.op \in Senders =>
              Op.size = built.size /\ built \in {Request, Attestation, Response}
         /\ Tail(todo) # <<>> =>
              (Head(Tail(todo)).op = "copy" <=> Op.op \in Waits)
         /\ Op.op = "box" => enclave = "provision" /\ todo = Rest(enclave, 8)
         /\ Op.op = "copy" /\ enclave = "auth" => todo = Rest(enclave, 2)
         /\ \/ Tail(todo) = <<>>
            \/ \E k \in 1 .. Lines(enclave) :
                 /\ todo = Rest(enclave, k) /\ Op = Line(enclave, k)
                 /\ built = Built(enclave, k)
                 /\ Tail(todo) = Rest(enclave, k + 1)
                 /\ k + 1 \in 1 .. Lines(enclave)
<1>1. CASE todo = GiveUp
  <2>1. /\ Op = [op |-> "print", string |-> "error"] /\ Tail(todo) = <<>>
    BY <1>1 DEF GiveUp, PrintString, Op
  <2> QED
    BY <2>1 DEF Calls, Registered, Strlen, Senders
<1>2. CASE \E k \in 1 .. Lines(enclave) :
             todo = Rest(enclave, k) /\ built = Built(enclave, k)
  <2>1. PICK k \in 1 .. Lines(enclave) :
          todo = Rest(enclave, k) /\ built = Built(enclave, k)
    BY <1>2
  <2>2. Op = Line(enclave, k) /\ Tail(todo) = Rest(enclave, k + 1)
    BY <2>1, RestFacts DEF Op
  <2>3. Lines(enclave) \in Nat
    BY DEF Lines
  <2>4. Tail(todo) = <<>> \/ k + 1 \in 1 .. Lines(enclave)
    BY <2>1, <2>2, <2>3, RestFacts
  <2>5. k + 1 \in 1 .. Lines(enclave) =>
          Head(Tail(todo)) = Line(enclave, k + 1) /\ k < Lines(enclave)
    <3>1. \A j \in 1 .. Lines(enclave) :
            Head(Rest(enclave, j)) = Line(enclave, j)
      BY RestFacts
    <3>2. k + 1 \in 1 .. Lines(enclave) => k < Lines(enclave)
      BY <2>3
    <3>3. k + 1 \in 1 .. Lines(enclave) =>
            Head(Tail(todo)) = Line(enclave, k + 1)
      BY <2>2, <3>1, Zenon
    <3> QED
      BY <3>2, <3>3
  <2>6. k < Lines(enclave) \/ k = Lines(enclave)
    BY <2>3
  <2>7. k = Lines(enclave) => Tail(todo) = <<>>
    BY <2>2, RestFacts
  <2>8. "label" \in DOMAIN Strlen /\ "number" \in DOMAIN Strlen
    BY DEF Strlen
  <2>9. /\ Op.op \in Calls(enclave) \cup {"copy", "check", "box"}
        /\ Op.op = "print" => Op.string \in {"label", "number"}
        /\ Op.op \in Senders =>
             /\ Op.size = Built(enclave, k).size
             /\ Built(enclave, k) \in {Request, Attestation, Response}
        /\ k < Lines(enclave) =>
             (Line(enclave, k + 1).op = "copy" <=> Op.op \in Waits)
        /\ Op.op = "box" => enclave = "provision" /\ k = 8
        /\ Op.op = "copy" /\ enclave = "auth" => k = 2
    BY <2>1, <2>2, LineFacts
  <2>10. Tail(todo) # <<>> =>
           (Head(Tail(todo)).op = "copy" <=> Op.op \in Waits)
    BY <2>4, <2>5, <2>9
  <2> QED
    BY <2>1, <2>2, <2>4, <2>8, <2>9, <2>10
<1> QED
  BY <1>1, <1>2 DEF OnCourse

(* The numbers of the calls are those under which the host registered them *)
(* and no two calls have the same.  (edge_wrapper.h)                       *)
LEMMA Numbers ==
  ASSUME NEW e \in {"provision", "auth"}, NEW name \in Calls(e)
  PROVE  /\ name \in DOMAIN Ocall /\ Ocall[name] = Registered[e][name]
         /\ Ocall[name] \in 0 .. 8
         /\ name \notin {"copy", "check", "box"}
         /\ \A other \in Calls(e) :
              Registered[e][name] = Registered[e][other] => name = other
<1>1. CASE e = "provision"
  BY <1>1 DEF Calls, Registered, Ocall
<1>2. CASE e = "auth"
  BY <1>2 DEF Calls, Registered, Ocall
<1> QED
  BY <1>1, <1>2

(* The arguments of every call fit the buffer, and those of a send are the *)
(* message built for it.  (fpga-provision.c 56, 134; fpga-auth.c 138)      *)
LEMMA Arguments ==
  ASSUME Inv, todo # <<>>, Op.op \in DOMAIN Ocall
  PROVE  /\ ArgSize(Op) \in 0 .. BUFFER_SIZE
         /\ Op.op = "print" =>
              /\ Op.string \in DOMAIN Strlen
              /\ ArgSize(Op) = Text(Op.string).size /\ ArgSize(Op) > 0
              /\ Argument(Op) = Text(Op.string)
         /\ Op.op \in Senders =>
              ArgSize(Op) = built.size /\ Argument(Op) = built
<1>0. enclave \in {"provision", "auth"} /\ built.size \in 0 .. BUFFER_SIZE
  BY DEF Inv, TypeOK, Registered, Message
<1>1. /\ Op.op = "print" => Op.string \in DOMAIN Strlen
      /\ Op.op \in Senders => Op.size = built.size
  BY <1>0, NextLine DEF Inv
<1>2. CASE Op.op = "print"
  <2>1. \A t \in DOMAIN Strlen : Strlen[t] + 1 \in {25, 4, 36}
    BY DEF Strlen
  <2>2. ArgSize(Op) = Strlen[Op.string] + 1 /\ Argument(Op) = Text(Op.string)
    BY <1>2 DEF ArgSize, Argument
  <2>3. Op.op \notin Senders
    BY <1>2 DEF Senders
  <2>4. Text(Op.string).size = Strlen[Op.string] + 1
    BY DEF Text
  <2>5. ArgSize(Op) \in {25, 4, 36}
    BY <1>1, <1>2, <2>1, <2>2, Zenon
  <2>6. ArgSize(Op) \in 0 .. BUFFER_SIZE /\ ArgSize(Op) > 0
    BY <2>5 DEF BUFFER_SIZE
  <2> QED
    BY <1>1, <1>2, <2>2, <2>3, <2>4, <2>6, Zenon
<1>3. CASE Op.op \in Senders
  <2>1. Op.op # "print"
    BY <1>3 DEF Senders
  <2>2. ArgSize(Op) = built.size /\ Argument(Op) = built
    BY <1>1, <1>3, <2>1 DEF ArgSize, Argument
  <2> QED
    BY <1>0, <2>1, <2>2
<1>4. CASE Op.op # "print" /\ Op.op \notin Senders
  BY <1>4 DEF ArgSize
<1> QED
  BY <1>2, <1>3, <1>4, Zenon

(* Nothing is built at a line that neither boxes nor is the copy of        *)
(* fpga-auth.                                                              *)
LEMMA BuiltStays ==
  ASSUME NEW e \in {"provision", "auth"}, NEW k \in 1 .. Lines(e),
         Line(e, k).op # "box", ~(e = "auth" /\ Line(e, k).op = "copy")
  PROVE  Built(e, k + 1) = Built(e, k)
<1>1. e = "provision" => k # 8
  BY LineFacts
<1>2. e = "auth" => k # 2
  BY LineFacts
<1> QED
  BY <1>1, <1>2 DEF Built, Lines

(* An enclave that has done with its line is at the next.                  *)
LEMMA OnCourseStep ==
  ASSUME Inv, todo # <<>>, todo' = Tail(todo), UNCHANGED <<enclave, built>>,
         Op.op # "box", ~(enclave = "auth" /\ Op.op = "copy")
  PROVE  OnCourse'
<1>0. enclave \in {"provision", "auth"}
  BY DEF Inv, TypeOK, Registered
<1>1. CASE Tail(todo) = <<>>
  BY <1>1 DEF OnCourse
<1>2. CASE \E k \in 1 .. Lines(enclave) :
             /\ todo = Rest(enclave, k) /\ Op = Line(enclave, k)
             /\ built = Built(enclave, k)
             /\ Tail(todo) = Rest(enclave, k + 1)
             /\ k + 1 \in 1 .. Lines(enclave)
  <2>1. PICK k \in 1 .. Lines(enclave) :
          /\ Op = Line(enclave, k) /\ built = Built(enclave, k)
          /\ Tail(todo) = Rest(enclave, k + 1)
          /\ k + 1 \in 1 .. Lines(enclave)
    BY <1>2
  <2>2. built = Built(enclave, k + 1)
    BY <1>0, <2>1, BuiltStays
  <2>3. /\ todo' = Rest(enclave', k + 1) /\ built' = Built(enclave', k + 1)
        /\ k + 1 \in 1 .. Lines(enclave')
    BY <2>1, <2>2
  <2> QED
    BY <2>3 DEF OnCourse
<1> QED
  BY <1>0, <1>1, <1>2, NextLine DEF Inv

-----------------------------------------------------------------------------
(* The steps of the enclave *)

(* A call leaves its arguments at the start of the buffer.                 *)
(* (eapp/edge_wrapper.c 13-46)                                             *)
LEMMA CallStep ==
  ASSUME Inv, EnclaveCalls
  PROVE  Inv'
<1>0. TypeOK /\ Intact(data) /\ enclave \in {"provision", "auth"}
  BY DEF Inv, TypeOK, Registered
<1>1. /\ turn = "enclave" /\ turn' = "host" /\ todo # <<>> /\ Op.op \in DOMAIN Ocall
      /\ call' = [call EXCEPT !.id = Ocall[Op.op], !.argSize = ArgSize(Op)]
      /\ data' = Put(data, 0, ArgSize(Op), Argument(Op))
      /\ UNCHANGED <<enclave, todo, resp, copy, built, received, sent, printed>>
      /\ Op' = Op
  BY DEF EnclaveCalls, Op
<1>2. ArgSize(Op) \in 0 .. BUFFER_SIZE
  BY <1>1, Arguments
<1>3. /\ Intact(data')
      /\ ArgSize(Op) > 0 => Piece(0, ArgSize(Op), Argument(Op)) \in data'
  <2> DEFINE n == ArgSize(Op)
             w == Argument(Op)
  <2> HIDE DEF n, w
  <2>1. n \in Nat /\ 0 + n <= Room
    BY <1>2 DEF n
  <2>2. data' = Put(data, 0, n, w)
    BY <1>1 DEF n, w
  <2> QED
    BY <1>0, <2>1, <2>2, PutFacts DEF n, w
<1>4. Op.op \in Calls(enclave) /\ Ocall[Op.op] = Registered[enclave][Op.op]
      /\ Ocall[Op.op] \in 0 .. 8
  <2>1. Op.op \in Calls(enclave) \cup {"copy", "check", "box"}
    BY <1>0, <1>1, NextLine DEF Inv
  <2>2. Op.op \notin {"copy", "check", "box"}
    BY <1>1 DEF Ocall
  <2> QED
    BY <1>0, <2>1, <2>2, Numbers
<1>5. /\ call' \in [id : 0 .. 8, argSize : 0 .. Room,
                    status : {"OK", "BAD_OFFSET"},
                    retAt : 0 .. Room, retSize : 0 .. Room]
      /\ call'.retAt + call'.retSize <= Room
      /\ call'.id = Ocall[Op.op] /\ call'.argSize = ArgSize(Op)
  <2> DEFINE n == ArgSize(Op)
             i == Ocall[Op.op]
  <2>1. n \in 0 .. Room /\ i \in 0 .. 8
    BY <1>2, <1>4
  <2>2. call' = [call EXCEPT !.id = i, !.argSize = n]
    BY <1>1
  <2> HIDE DEF n, i
  <2>3. /\ call \in [id : 0 .. 8, argSize : 0 .. Room,
                     status : {"OK", "BAD_OFFSET"},
                     retAt : 0 .. Room, retSize : 0 .. Room]
        /\ call.retAt + call.retSize <= Room
    BY <1>0 DEF TypeOK
  <2>4. /\ call' = [id |-> i, argSize |-> n, status |-> call.status,
                     retAt |-> call.retAt, retSize |-> call.retSize]
    BY <2>2, <2>3
  <2>5. /\ call.status \in {"OK", "BAD_OFFSET"}
        /\ call.retAt \in 0 .. Room /\ call.retSize \in 0 .. Room
    BY <2>3
  <2> QED
    BY <2>1, <2>3, <2>4, <2>5 DEF n, i
<1>6. TypeOK'
  BY <1>0, <1>1, <1>3, <1>5 DEF TypeOK, Intact, Apart
<1>7. OnCourse'
  BY <1>1 DEF Inv, OnCourse
<1>8. Asked'
  BY <1>1, <1>3, <1>5 DEF Asked, Argument
<1>9. (Answered /\ Announced /\ PrintsItsString /\ SendsTheMessage)'
  BY <1>1 DEF Answered, Announced, PrintsItsString, SendsTheMessage
<1>10. CallsSucceed'
  BY <1>1, <1>4, <1>5 DEF CallsSucceed, Calls
<1> QED
  BY <1>3, <1>6, <1>7, <1>8, <1>9, <1>10 DEF Inv

(* After a wait, and only then, the enclave copies, and has the edge_data  *)
(* for it.  (eapp/edge_wrapper.c 13-46, fpga-provision.c 60-63, 137-139)   *)
LEMMA ResumeStep ==
  ASSUME Inv, EnclaveResumes
  PROVE  Inv'
<1>0. TypeOK /\ Intact(data) /\ enclave \in {"provision", "auth"}
  BY DEF Inv, TypeOK, Registered
<1>1. /\ turn = "runtime" /\ turn' = "enclave" /\ todo' = Tail(todo)
      /\ UNCHANGED <<enclave, call, data, copy, built, received, sent, printed>>
      /\ resp' = IF /\ ReturnSize(Op.op) = EDGE_DATA
                    /\ call.status = "OK" /\ call.retSize >= EDGE_DATA
                 THEN Get(data, call.retAt, EDGE_DATA)
                 ELSE resp
      /\ todo # <<>> /\ Op.op \in DOMAIN Ocall
  BY <1>0 DEF EnclaveResumes, TypeOK
<1>2. TypeOK' /\ Intact(data)'
  BY <1>0, <1>1 DEF TypeOK, Intact, Apart
<1>3. OnCourse'
  <2>1. Op.op # "box" /\ Op.op # "copy"
    BY <1>1 DEF Ocall
  <2> QED
    BY <1>1, <2>1, OnCourseStep
<1>4. Announced'
  <2> SUFFICES ASSUME todo' # <<>>, Head(todo').op = "copy"
               PROVE  (resp = EdgeData(received) /\ Delivered)'
    BY DEF Announced, Doing, Op
  <2>1. Op.op \in Waits
    BY <1>0, <1>1, NextLine DEF Inv
  <2>2. ReturnSize(Op.op) = EDGE_DATA
    BY <2>1 DEF Waits, ReturnSize
  <2>3. call.status = "OK" /\ call.retSize >= EDGE_DATA
    BY <1>1, <2>2 DEF Inv, CallsSucceed
  <2>4. /\ call.retAt = 0 /\ Delivered
        /\ Piece(0, EDGE_DATA, EdgeData(received)) \in data
    BY <1>1, <2>1 DEF Inv, Answered
  <2>5. Get(data, 0, EDGE_DATA) = EdgeData(received)
    BY <1>0, <2>4, GetFacts
  <2> QED
    BY <1>1, <2>2, <2>3, <2>4, <2>5 DEF Delivered, EdgeData
<1>5. (Asked /\ Answered /\ PrintsItsString /\ CallsSucceed /\ SendsTheMessage)'
  BY <1>1 DEF Asked, Answered, PrintsItsString, CallsSucceed, SendsTheMessage
<1> QED
  BY <1>2, <1>3, <1>4, <1>5 DEF Inv

(* The copy finds the message of the wait, whole.  (fpga-provision.c 63,   *)
(* 139; fpga-auth.c 79)                                                    *)
LEMMA Copied ==
  ASSUME Inv, EnclaveCopies
  PROVE  copy' # copy => copy' = received
<1>1. resp = EdgeData(received) /\ Delivered /\ Intact(data)
  BY DEF EnclaveCopies, Inv, Announced
<1>2. /\ received.size \in Nat /\ resp.size = received.size
      /\ resp.offset = EDGE_DATA
  <2>1. received \in Message({"none", "message", "challenge"})
    BY DEF Inv, TypeOK
  <2>2. received.size \in 0 .. BUFFER_SIZE
    BY <2>1 DEF Message
  <2>3. resp.size = received.size /\ resp.offset = EDGE_DATA
    BY <1>1 DEF EdgeData
  <2> QED
    BY <2>2, <2>3
<1>3. received.size > 0 => Get(data, EDGE_DATA, received.size) = received
  BY <1>1, <1>2, GetFacts DEF Delivered
<1> QED
  BY <1>2, <1>3 DEF EnclaveCopies

LEMMA CopyStep ==
  ASSUME Inv, EnclaveCopies
  PROVE  Inv'
<1>0. TypeOK /\ Intact(data) /\ enclave \in {"provision", "auth"}
  BY DEF Inv, TypeOK, Registered
<1>1. /\ turn = "enclave" /\ turn' = "enclave" /\ todo # <<>>
      /\ Op.op = "copy" /\ todo' = Tail(todo)
      /\ built' = IF enclave = "auth" THEN Response ELSE built
      /\ UNCHANGED <<enclave, turn, call, data, resp, received, sent, printed>>
  BY DEF EnclaveCopies, Doing
<1>2. TypeOK' /\ Intact(data)'
  <2>1. copy' \in Message({"none", "message", "challenge"})
    BY <1>0, Copied DEF TypeOK
  <2>2. built' \in Message({"none", "request", "attestation", "response"})
    <3>1. Response \in Message({"none", "request", "attestation", "response"})
      BY DEF Message, Response, BUFFER_SIZE
    <3>2. built \in Message({"none", "request", "attestation", "response"})
      BY <1>0 DEF TypeOK
    <3> QED
      BY <1>1, <3>1, <3>2, Zenon
  <2> QED
    BY <1>0, <1>1, <2>1, <2>2 DEF TypeOK, Intact, Apart
<1>3. OnCourse'
  <2>1. CASE enclave = "provision"
    BY <1>1, <2>1, OnCourseStep
  <2>2. CASE enclave = "auth" /\ Tail(todo) # <<>>
    <3>1. PICK k \in 1 .. Lines(enclave) :
            /\ Op = Line(enclave, k) /\ Tail(todo) = Rest(enclave, k + 1)
            /\ k + 1 \in 1 .. Lines(enclave)
      BY <1>0, <1>1, <2>2, NextLine DEF Inv
    <3>2. k = 2
      BY <1>0, <1>1, <2>2, <3>1, LineFacts
    <3>3. todo' = Rest(enclave', 3) /\ built' = Built(enclave', 3)
          /\ 3 \in 1 .. Lines(enclave')
      BY <1>1, <2>2, <3>1, <3>2 DEF Built, Lines
    <3> QED
      BY <3>3 DEF OnCourse
  <2>3. CASE Tail(todo) = <<>>
    BY <1>1, <2>3 DEF OnCourse
  <2> QED
    BY <1>0, <2>1, <2>2, <2>3
<1>4. Announced'
  <2>1. todo' # <<>> => Head(todo').op # "copy"
    BY <1>0, <1>1, NextLine DEF Inv, Waits
  <2> QED
    BY <2>1 DEF Announced, Doing, Op
<1>5. (Asked /\ Answered /\ PrintsItsString /\ CallsSucceed /\ SendsTheMessage)'
  BY <1>1 DEF Asked, Answered, PrintsItsString, CallsSucceed, SendsTheMessage
<1> QED
  BY <1>2, <1>3, <1>4, <1>5 DEF Inv

(* A message that does not open ends the enclave's course after a print.   *)
(* (fpga-provision.c 65-79, 142-149)                                       *)
LEMMA CheckStep ==
  ASSUME Inv, EnclaveChecks
  PROVE  Inv'
<1>0. TypeOK /\ Intact(data) /\ enclave \in {"provision", "auth"}
  BY DEF Inv, TypeOK, Registered
<1>1. /\ turn = "enclave" /\ turn' = "enclave" /\ todo # <<>>
      /\ Op.op = "check" /\ (todo' = Tail(todo) \/ todo' = GiveUp)
      /\ UNCHANGED <<enclave, turn, call, data, resp, copy, built, received,
                    sent, printed>>
  BY DEF EnclaveChecks, Doing
<1>2. TypeOK' /\ Intact(data)'
  BY <1>0, <1>1 DEF TypeOK, Intact, Apart
<1>3. OnCourse'
  <2>1. CASE todo' = Tail(todo)
    BY <1>1, <2>1, OnCourseStep
  <2>2. CASE todo' = GiveUp
    BY <2>2 DEF OnCourse
  <2> QED
    BY <1>1, <2>1, <2>2
<1>4. Announced'
  <2>1. Tail(todo) # <<>> => Head(Tail(todo)).op # "copy"
    BY <1>0, <1>1, NextLine DEF Inv, Waits
  <2>2. Head(GiveUp).op # "copy"
    BY DEF GiveUp, PrintString
  <2> QED
    BY <1>1, <2>1, <2>2 DEF Announced, Doing, Op
<1>5. (Asked /\ Answered /\ PrintsItsString /\ CallsSucceed /\ SendsTheMessage)'
  BY <1>1 DEF Asked, Answered, PrintsItsString, CallsSucceed, SendsTheMessage
<1> QED
  BY <1>2, <1>3, <1>4, <1>5 DEF Inv

(* The padding fits its buffer exactly, and the next line sends what was   *)
(* boxed.  (channel.h 13, channel.c 55-77, fpga-provision.c 119-134)       *)
LEMMA Boxed ==
  ASSUME Inv, EnclaveBoxes
  PROVE  /\ built' = Attestation /\ todo' = Tail(todo)
         /\ enclave = "provision" /\ Tail(todo) = Rest("provision", 9)
<1>1. SodiumPad(96) = 128 /\ BLOCK_UP(96) = 128
  BY DEF SodiumPad, BLOCK_UP, MSG_BLOCKSIZE
<1>2. built' = Attestation /\ todo' = Tail(todo)
  BY <1>1 DEF EnclaveBoxes, Attestation, MACBYTES, NONCEBYTES
<1>3. enclave \in {"provision", "auth"} /\ todo # <<>> /\ Op.op = "box"
  BY DEF EnclaveBoxes, Doing, Inv, TypeOK, Registered
<1>4. enclave = "provision" /\ todo = Rest(enclave, 8)
  BY <1>3, NextLine DEF Inv
<1>5. Tail(Rest("provision", 8)) = Rest("provision", 8 + 1)
  BY RestFacts DEF Lines
<1> QED
  BY <1>2, <1>4, <1>5

LEMMA BoxStep ==
  ASSUME Inv, EnclaveBoxes
  PROVE  Inv'
<1>0. TypeOK /\ Intact(data) /\ enclave \in {"provision", "auth"}
  BY DEF Inv, TypeOK, Registered
<1>1. /\ turn = "enclave" /\ turn' = "enclave" /\ todo # <<>> /\ Op.op = "box"
      /\ UNCHANGED <<enclave, turn, call, data, resp, copy, received, sent,
                    printed>>
  BY DEF EnclaveBoxes, Doing
<1>2. TypeOK' /\ Intact(data)'
  <2>1. built' \in Message({"none", "request", "attestation", "response"})
    BY Boxed DEF Message, Attestation, BUFFER_SIZE
  <2> QED
    BY <1>0, <1>1, <2>1 DEF TypeOK, Intact, Apart
<1>3. OnCourse'
  <2>1. todo' = Rest(enclave', 9) /\ built' = Built(enclave', 9)
        /\ 9 \in 1 .. Lines(enclave')
    BY <1>1, Boxed DEF Built, Lines
  <2> QED
    BY <2>1 DEF OnCourse
<1>4. Announced'
  <2>1. todo' # <<>> => Head(todo').op # "copy"
    BY <1>0, <1>1, Boxed, NextLine DEF Inv, Waits
  <2> QED
    BY <2>1 DEF Announced, Doing, Op
<1>5. (Asked /\ Answered /\ PrintsItsString /\ CallsSucceed /\ SendsTheMessage)'
  BY <1>1 DEF Asked, Answered, PrintsItsString, CallsSucceed, SendsTheMessage
<1> QED
  BY <1>2, <1>3, <1>4, <1>5 DEF Inv

-----------------------------------------------------------------------------
(* The wrappers of the host *)

(* The wrapper that serves a call is the one the enclave means, and its    *)
(* arguments lie in the buffer.  (host/edge_wrapper.cpp 14-26)             *)
LEMMA Meant ==
  ASSUME Inv, NEW name, Dispatched(name)
  PROVE  /\ todo # <<>> /\ Op.op = name /\ Op.op \in DOMAIN Ocall
         /\ Op.op \in Calls(enclave) /\ ArgsThere
<1>1. /\ enclave \in {"provision", "auth"} /\ todo # <<>>
      /\ Op.op \in DOMAIN Ocall /\ call.argSize \in 0 .. Room
  BY DEF Inv, TypeOK, Registered, Dispatched
<1>2. /\ Op.op \in Calls(enclave) /\ call.id = Registered[enclave][Op.op]
      /\ name \in Calls(enclave) /\ call.id = Registered[enclave][name]
  BY DEF Inv, CallsSucceed, Dispatched, Calls
<1>3. Op.op = name
  <2>1. \A other \in Calls(enclave) :
          Registered[enclave][Op.op] = Registered[enclave][other] => Op.op = other
    BY <1>1, <1>2, Numbers
  <2>2. Registered[enclave][Op.op] = Registered[enclave][name]
    BY <1>2
  <2> QED
    BY <1>2, <2>1, <2>2
<1> QED
  BY <1>1, <1>2, <1>3 DEF ArgsThere

(* What every wrapper leaves alone, and what follows from it.              *)
LEMMA HostFrame ==
  ASSUME Inv, turn = "host", turn' = "runtime",
         UNCHANGED <<enclave, todo, resp, copy, built>>, Intact(data'),
         call' \in [id : 0 .. 8, argSize : 0 .. Room,
                   status : {"OK", "BAD_OFFSET"},
                   retAt : 0 .. Room, retSize : 0 .. Room],
         call'.retAt + call'.retSize <= Room,
         sent' \in Message({"none", "request", "attestation", "response"}),
         received' \in Message({"none", "message", "challenge"}),
         printed' \in Message(DOMAIN Strlen \cup {"none"})
  PROVE  TypeOK' /\ OnCourse' /\ Asked' /\ Announced' /\ Op' = Op
<1>1. TypeOK /\ Op' = Op
  BY DEF Inv, Op
<1>2. TypeOK'
  BY <1>1 DEF TypeOK, Intact, Apart
<1>3. OnCourse'
  BY DEF Inv, OnCourse
<1>4. Asked' /\ Announced'
  BY DEF Asked, Announced
<1> QED
  BY <1>1, <1>2, <1>3, <1>4

(* How a call that went well leaves the struct edge_call.                  *)
LEMMA Served ==
  ASSUME Inv, NEW size \in 0 .. Room,
         call' = [call EXCEPT !.status = "OK", !.retAt = 0, !.retSize = size]
  PROVE  /\ call' \in [id : 0 .. 8, argSize : 0 .. Room,
                       status : {"OK", "BAD_OFFSET"},
                       retAt : 0 .. Room, retSize : 0 .. Room]
         /\ call'.retAt + call'.retSize <= Room
         /\ call'.status = "OK" /\ call'.retAt = 0 /\ call'.retSize = size
<1>1. /\ call.id \in 0 .. 8 /\ call.argSize \in 0 .. Room
      /\ call \in [id : 0 .. 8, argSize : 0 .. Room,
                   status : {"OK", "BAD_OFFSET"},
                   retAt : 0 .. Room, retSize : 0 .. Room]
  BY DEF Inv, TypeOK
<1>2. call' = [id |-> call.id, argSize |-> call.argSize, status |-> "OK",
               retAt |-> 0, retSize |-> size]
  BY <1>1
<1> QED
  BY <1>1, <1>2

(* The string that is printed is that of the call.                         *)
(* (fpga-provision/host/edge_wrapper.cpp 47-74)                            *)
LEMMA PrintStep ==
  ASSUME Inv, PrintStringWrapper
  PROVE  Inv'
<1>1. /\ todo # <<>> /\ Op.op = "print" /\ Op.op \in DOMAIN Ocall
      /\ Op.op \in Calls(enclave) /\ ArgsThere
  BY Meant DEF PrintStringWrapper
<1>2. /\ turn = "host" /\ turn' = "runtime"
      /\ printed' = GetString(data) /\ data' = Put(data, 0, LONG, Garbage)
      /\ call' = [call EXCEPT !.status = "OK", !.retAt = 0, !.retSize = LONG]
      /\ UNCHANGED <<enclave, todo, resp, copy, built, received, sent>>
  BY <1>1 DEF PrintStringWrapper, Dispatched
<1>3. TypeOK /\ Intact(data) /\ LONG \in 0 .. Room
  BY DEF Inv
<1>4. printed' = Text(Op.string)
  <2> DEFINE n == ArgSize(Op)
             w == Text(Op.string)
  <2>1. n \in Nat \ {0} /\ n = w.size /\ Argument(Op) = w
    <3>1. /\ ArgSize(Op) \in 0 .. BUFFER_SIZE /\ ArgSize(Op) > 0
          /\ ArgSize(Op) = Text(Op.string).size
          /\ Argument(Op) = Text(Op.string)
      BY <1>1, Arguments
    <3> HIDE DEF n, w
    <3>2. n \in 0 .. BUFFER_SIZE /\ n > 0
      BY <3>1, Zenon DEF n
    <3>3. n = w.size /\ Argument(Op) = w
      BY <3>1, Zenon DEF n, w
    <3> QED
      BY <3>2, <3>3
  <2>2. ArgSize(Op) > 0 => Piece(0, ArgSize(Op), Argument(Op)) \in data
    BY <1>2 DEF Inv, Asked
  <2>3. Piece(0, n, w) \in data
    BY <2>1, <2>2
  <2> HIDE DEF n, w
  <2>4. GetString(data) = w
    BY <1>3, <2>1, <2>3, GetFacts
  <2> QED
    BY <1>2, <2>4 DEF w
<1>5. Intact(data')
  <2>1. Intact(Put(data, 0, 8, Garbage))
    <3>1. 0 \in Nat /\ 8 \in Nat /\ 0 + 8 <= Room
      BY <1>3
    <3> QED
      BY <1>3, <3>1, PutFacts
  <2> QED
    BY <1>2, <2>1
<1>6. printed' \in Message(DOMAIN Strlen \cup {"none"})
  <2>1. /\ Op.string \in DOMAIN Strlen /\ ArgSize(Op) = Text(Op.string).size
        /\ ArgSize(Op) \in 0 .. BUFFER_SIZE
    BY <1>1, Arguments
  <2>2. Text(Op.string) = [name |-> Op.string, size |-> Text(Op.string).size]
    BY DEF Text
  <2> QED
    BY <1>4, <2>1, <2>2 DEF Message
<1>s. /\ call' \in [id : 0 .. 8, argSize : 0 .. Room,
                    status : {"OK", "BAD_OFFSET"},
                    retAt : 0 .. Room, retSize : 0 .. Room]
      /\ call'.retAt + call'.retSize <= Room
      /\ call'.status = "OK" /\ call'.retAt = 0 /\ call'.retSize = LONG
  BY <1>2, <1>3, Served
<1>t. /\ sent' \in Message({"none", "request", "attestation", "response"})
      /\ received' \in Message({"none", "message", "challenge"})
  BY <1>2, <1>3 DEF TypeOK
<1>7. TypeOK' /\ OnCourse' /\ Asked' /\ Announced' /\ Op' = Op
  BY <1>2, <1>5, <1>6, <1>s, <1>t, HostFrame
<1>8. Answered' /\ PrintsItsString' /\ SendsTheMessage'
  BY <1>1, <1>2, <1>4, <1>7
     DEF Answered, PrintsItsString, SendsTheMessage, Waits, Senders
<1>9. CallsSucceed'
  BY <1>1, <1>2, <1>7, <1>s DEF CallsSucceed, ReturnSize
<1> QED
  BY <1>5, <1>7, <1>8, <1>9 DEF Inv

(* A message for the enclave lies behind its edge_data.                    *)
LEMMA Wrapped ==
  ASSUME Inv, NEW msg, msg.size \in 0 .. BUFFER_SIZE, SetupWrappedRet(msg)
  PROVE  /\ Intact(data')
         /\ Piece(0, EDGE_DATA, EdgeData(msg)) \in data'
         /\ msg.size > 0 => Piece(EDGE_DATA, msg.size, msg) \in data'
         /\ call' = [call EXCEPT !.status = "OK", !.retAt = 0,
                                 !.retSize = EDGE_DATA]
<1> DEFINE first == Put(data, EDGE_DATA, msg.size, msg)
           n     == msg.size
           e     == EdgeData(msg)
<1>1. /\ data' = Put(first, 0, EDGE_DATA, e)
      /\ call' = [call EXCEPT !.status = "OK", !.retAt = 0,
                              !.retSize = EDGE_DATA]
  BY DEF SetupWrappedRet, EdgeData
<1>2. Intact(data) /\ n \in Nat /\ EDGE_DATA + n <= Room
  BY DEF Inv
<1> HIDE DEF e
<1>3. Intact(first) /\ (n > 0 => Piece(EDGE_DATA, n, msg) \in first)
  BY <1>2, PutFacts DEF n
<1>4. Apart(Piece(EDGE_DATA, n, msg), Piece(0, EDGE_DATA, e))
  BY <1>2 DEF Apart, Piece
<1> HIDE DEF first, n
<1>5. /\ Intact(Put(first, 0, EDGE_DATA, e))
      /\ Piece(0, EDGE_DATA, e) \in Put(first, 0, EDGE_DATA, e)
      /\ n > 0 => Piece(EDGE_DATA, n, msg) \in Put(first, 0, EDGE_DATA, e)
  <2>1. 0 \in Nat /\ EDGE_DATA \in Nat /\ 0 + EDGE_DATA <= Room /\ EDGE_DATA > 0
    OBVIOUS
  <2> QED
    BY <1>3, <1>4, <2>1, PutFacts
<1> QED
  BY <1>1, <1>5 DEF n, e

(* The wrappers of the two waits.  (fpga-provision/host/edge_wrapper.cpp   *)
(* 76-103, fpga-auth/host/edge_wrapper.cpp 53-77)                          *)
LEMMA WaitStep ==
  ASSUME Inv, WaitForMessageWrapper \/ WaitForChallengeWrapper
  PROVE  Inv'
<1>1. /\ todo # <<>> /\ Op.op \in Waits /\ Op.op \in DOMAIN Ocall
      /\ Op.op \in Calls(enclave) /\ ArgsThere
  BY Meant DEF WaitForMessageWrapper, WaitForChallengeWrapper, Waits
<1>2. /\ turn = "host" /\ turn' = "runtime"
      /\ UNCHANGED <<enclave, todo, resp, copy, built, sent, printed>>
  BY DEF WaitForMessageWrapper, WaitForChallengeWrapper, Dispatched
<1>3. /\ received' \in Message({"none", "message", "challenge"})
      /\ SetupWrappedRet(received')
  <2>1. CASE WaitForMessageWrapper
    <3>1. PICK n \in ReadSizes : /\ received' = [name |-> "message", size |-> n]
                                /\ SetupWrappedRet(received')
      BY <1>1, <2>1 DEF WaitForMessageWrapper
    <3>2. n \in 0 .. BUFFER_SIZE
      BY ConstantsAssumption
    <3> QED
      BY <3>1, <3>2 DEF Message
  <2>2. CASE WaitForChallengeWrapper
    BY <1>1, <2>2 DEF WaitForChallengeWrapper, Message, BUFFER_SIZE
  <2> QED
    BY <2>1, <2>2
<1>4. received'.size \in 0 .. BUFFER_SIZE
  BY <1>3 DEF Message
<1>5. /\ Intact(data')
      /\ Piece(0, EDGE_DATA, EdgeData(received')) \in data'
      /\ received'.size > 0 =>
           Piece(EDGE_DATA, received'.size, received') \in data'
      /\ call' = [call EXCEPT !.status = "OK", !.retAt = 0,
                              !.retSize = EDGE_DATA]
  BY <1>3, <1>4, Wrapped
<1>6. TypeOK /\ EDGE_DATA \in 0 .. Room
  BY DEF Inv
<1>7. /\ call' \in [id : 0 .. 8, argSize : 0 .. Room,
                    status : {"OK", "BAD_OFFSET"},
                    retAt : 0 .. Room, retSize : 0 .. Room]
      /\ call'.retAt + call'.retSize <= Room
      /\ call'.status = "OK" /\ call'.retAt = 0 /\ call'.retSize = EDGE_DATA
  BY <1>5, <1>6, Served
<1>t. /\ sent' \in Message({"none", "request", "attestation", "response"})
      /\ printed' \in Message(DOMAIN Strlen \cup {"none"})
  BY <1>2, <1>6 DEF TypeOK
<1>8. TypeOK' /\ OnCourse' /\ Asked' /\ Announced' /\ Op' = Op
  BY <1>2, <1>3, <1>5, <1>7, <1>t, HostFrame
<1>9. Answered'
  BY <1>5, <1>7 DEF Answered, Delivered, EdgeData, Piece
<1>10. PrintsItsString' /\ SendsTheMessage'
  BY <1>1, <1>8 DEF PrintsItsString, SendsTheMessage, Waits, Senders
<1>11. CallsSucceed'
  BY <1>1, <1>2, <1>7, <1>8 DEF CallsSucceed, ReturnSize, Waits
<1> QED
  BY <1>5, <1>8, <1>9, <1>10, <1>11 DEF Inv

(* The wrappers that send, and wait, return nothing.                       *)
(* (fpga-provision/host/edge_wrapper.cpp 28-45, 105-141,                   *)
(* fpga-auth/host/edge_wrapper.cpp 79-96)                                  *)
LEMMA SendStep ==
  ASSUME Inv, Wait \/ \E name \in Senders : SendWrapper(name)
  PROVE  Inv'
<1>1. /\ todo # <<>> /\ Op.op \in Senders \cup {"wait"}
      /\ Op.op \in DOMAIN Ocall /\ Op.op \in Calls(enclave) /\ ArgsThere
  BY Meant DEF Wait, SendWrapper
<1>2. /\ turn = "host" /\ turn' = "runtime"
      /\ UNCHANGED <<enclave, todo, data, resp, copy, built, received, printed>>
      /\ call' = [call EXCEPT !.status = "OK"]
  BY <1>1 DEF Wait, SendWrapper, Dispatched
<1>3. TypeOK /\ Intact(data) /\ Intact(data')
  BY <1>2 DEF Inv
<1>4. /\ call' \in [id : 0 .. 8, argSize : 0 .. Room,
                    status : {"OK", "BAD_OFFSET"},
                    retAt : 0 .. Room, retSize : 0 .. Room]
      /\ call'.retAt + call'.retSize <= Room /\ call'.status = "OK"
  BY <1>2, <1>3 DEF TypeOK
<1>5. Op.op \in Senders => sent' = built
  <2> SUFFICES ASSUME Op.op \in Senders
               PROVE  sent' = built
    OBVIOUS
  <2>1. /\ ArgSize(Op) = built.size /\ Argument(Op) = built
        /\ built \in {Request, Attestation, Response}
    BY <1>1, <1>3, Arguments, NextLine DEF Inv, TypeOK, Registered
  <2>2. built.size \in Nat \ {0}
    BY <2>1 DEF Request, Attestation, Response, SEALBYTES
  <2>3. call.argSize = built.size /\ Piece(0, built.size, built) \in data
    <3>1. /\ call.argSize = ArgSize(Op)
          /\ ArgSize(Op) > 0 => Piece(0, ArgSize(Op), Argument(Op)) \in data
      BY <1>2 DEF Inv, Asked
    <3> QED
      BY <2>1, <2>2, <3>1
  <2>4. Get(data, 0, built.size) = built
    BY <1>3, <2>2, <2>3, GetFacts
  <2>5. sent' = Get(data, 0, call.argSize)
    <3>1. ASSUME Wait PROVE FALSE
      BY <3>1, Meant DEF Wait, Senders
    <3>2. PICK name \in Senders : SendWrapper(name)
      BY <3>1
    <3> QED
      BY <1>1, <3>2 DEF SendWrapper
  <2> QED
    BY <2>3, <2>4, <2>5
<1>6. sent' \in Message({"none", "request", "attestation", "response"})
  <2>1. Op.op \notin Senders => Wait /\ sent' = sent
    BY <1>1, Meant DEF Wait, SendWrapper, Senders
  <2>2. /\ built \in Message({"none", "request", "attestation", "response"})
        /\ sent \in Message({"none", "request", "attestation", "response"})
    BY <1>3 DEF TypeOK
  <2> QED
    BY <1>5, <2>1, <2>2
<1>t. /\ received' \in Message({"none", "message", "challenge"})
      /\ printed' \in Message(DOMAIN Strlen \cup {"none"})
  BY <1>2, <1>3 DEF TypeOK
<1>7. TypeOK' /\ OnCourse' /\ Asked' /\ Announced' /\ Op' = Op
  BY <1>2, <1>3, <1>4, <1>6, <1>t, HostFrame
<1>8. Answered' /\ PrintsItsString'
  BY <1>1, <1>7 DEF Answered, PrintsItsString, Waits, Senders
<1>9. CallsSucceed'
  BY <1>1, <1>2, <1>4, <1>7 DEF CallsSucceed, ReturnSize, Senders
<1>10. SendsTheMessage'
  <2>1. Op.op \in Senders => built \in {Request, Attestation, Response}
    BY <1>1, <1>3, NextLine DEF Inv, TypeOK, Registered
  <2>2. built \in {Request, Attestation, Response} /\ built.name = "attestation"
          => built.size = 168
    BY DEF Request, Attestation, Response
  <2> QED
    BY <1>2, <1>5, <1>7, <2>1, <2>2
       DEF SendsTheMessage, MACBYTES, PROVIDER_PTLEN, NONCEBYTES
<1> QED
  BY <1>3, <1>7, <1>8, <1>9, <1>10 DEF Inv

-----------------------------------------------------------------------------
(* The theorems *)

LEMMA InitInv == Init => Inv
<1> SUFFICES ASSUME Init PROVE Inv
  OBVIOUS
<1>1. /\ enclave \in {"provision", "auth"} /\ todo = Listing(enclave)
      /\ turn = "enclave" /\ data = {}
      /\ resp = None /\ copy = None /\ received = None /\ sent = None
      /\ printed = None
  BY DEF Init, Listing
<1>2. todo = Rest(enclave, 1) /\ 1 \in 1 .. Lines(enclave)
      /\ Head(todo) = Line(enclave, 1)
  <2>1. 1 \in 1 .. Lines(enclave)
    BY DEF Lines
  <2>2. todo = Rest(enclave, 1)
    BY <1>1, RestFacts
  <2>3. \A k \in 1 .. Lines(enclave) :
          Head(Rest(enclave, k)) = Line(enclave, k)
    BY <1>1, RestFacts
  <2>4. Head(Rest(enclave, 1)) = Line(enclave, 1)
    BY <2>1, <2>3, Zenon
  <2> QED
    BY <2>1, <2>2, <2>4
<1>3. built = Built(enclave, 1) /\ built \in {Request, None}
  BY <1>1 DEF Init, Built
<1>4. TypeOK
  <2>1. call \in [id : 0 .. 8, argSize : 0 .. Room,
                  status : {"OK", "BAD_OFFSET"},
                  retAt : 0 .. Room, retSize : 0 .. Room]
        /\ call.retAt + call.retSize <= Room
    BY DEF Init
  <2>2. /\ None \in Message({"none", "message", "challenge"})
        /\ None \in Message(DOMAIN Strlen \cup {"none"})
        /\ built \in Message({"none", "request", "attestation", "response"})
        /\ None \in Message({"none", "request", "attestation", "response"})
    BY <1>3 DEF Message, None, Request, SEALBYTES, BUFFER_SIZE
  <2> QED
    BY <1>1, <2>1, <2>2 DEF TypeOK, Registered
<1>5. Intact(data)
  BY <1>1 DEF Intact
<1>6. OnCourse
  BY <1>2, <1>3 DEF OnCourse
<1>7. Announced
  <2>1. Head(todo).op # "copy"
    BY <1>1, <1>2, LineFacts
  <2> QED
    BY <2>1 DEF Announced, Doing, Op
<1>8. Asked /\ Answered /\ PrintsItsString /\ CallsSucceed /\ SendsTheMessage
  BY <1>1 DEF Asked, Answered, PrintsItsString, CallsSucceed, SendsTheMessage
<1> QED
  BY <1>4, <1>5, <1>6, <1>7, <1>8 DEF Inv

LEMMA NextInv == Inv /\ [Next]_vars => Inv'
<1> SUFFICES ASSUME Inv, [Next]_vars
             PROVE  Inv'
  OBVIOUS
<1>1. CASE EnclaveStep
  BY <1>1, CallStep, ResumeStep, CopyStep, CheckStep, BoxStep DEF EnclaveStep
<1>2. CASE HostStep
  BY <1>2, PrintStep, WaitStep, SendStep DEF HostStep
<1>3. CASE UNCHANGED vars
  BY <1>3 DEF vars, Inv, TypeOK, Intact, Apart, OnCourse, Asked, Answered,
     Announced, PrintsItsString, CallsSucceed, SendsTheMessage, Delivered,
     Doing, Op, Argument
<1> QED
  BY <1>1, <1>2, <1>3 DEF Next

(* The invariant of the ocalls. *)
THEOREM Invariance == Spec => []Inv
<1>1. Init => Inv
  BY InitInv
<1>2. Inv /\ [Next]_vars => Inv'
  BY NextInv
<1> QED
  BY <1>1, <1>2, PTL DEF Spec

(* Every variable keeps its type.                                          *)
THEOREM TypeCorrect == Spec => []TypeOK
<1>1. Inv => TypeOK
  BY DEF Inv
<1> QED
  BY <1>1, Invariance, PTL

(* print_string prints the string of the call, whatever lay in the buffer. *)
THEOREM PrintsItsStringHolds == Spec => []PrintsItsString
<1>1. Inv => PrintsItsString
  BY DEF Inv
<1> QED
  BY <1>1, Invariance, PTL

(* No ocall fails, so that no wrapper need look at its status.             *)
THEOREM CallsSucceedHolds == Spec => []CallsSucceed
<1>1. Inv => CallsSucceed
  BY DEF Inv
<1> QED
  BY <1>1, Invariance, PTL

(* The literal sizes at the sends are those of the messages.               *)
THEOREM SendsTheMessageHolds == Spec => []SendsTheMessage
<1>1. Inv => SendsTheMessage
  BY DEF Inv
<1> QED
  BY <1>1, Invariance, PTL

(* copy_from_shared finds the message of the last wait, in full.           *)
THEOREM FetchesTheMessageHolds == Spec => FetchesTheMessage
<1>1. Inv /\ [Next]_vars => [copy' # copy => copy' = received]_vars
  <2> SUFFICES ASSUME Inv, Next
               PROVE  copy' # copy => copy' = received
    OBVIOUS
  <2>1. CASE EnclaveCopies
    BY <2>1, Copied
  <2>2. CASE HostStep
    BY <2>2 DEF HostStep, PrintStringWrapper, WaitForMessageWrapper,
       WaitForChallengeWrapper, Wait, SendWrapper
  <2>3. CASE EnclaveCalls \/ EnclaveResumes \/ EnclaveChecks \/ EnclaveBoxes
    BY <2>3 DEF EnclaveCalls, EnclaveResumes, EnclaveChecks, EnclaveBoxes
  <2> QED
    BY <2>1, <2>2, <2>3 DEF Next, EnclaveStep
<1> QED
  BY <1>1, Invariance, PTL DEF Spec, FetchesTheMessage

(* channel_box fits its buffer, and what it makes is what is sent next.    *)
THEOREM BoxFitsHolds == Spec => BoxFits
<1>1. Inv /\ [Next]_vars =>
        [turn = "enclave" /\ Doing("box") =>
           todo' = Tail(todo) /\ built'.size = Head(todo').size]_vars
  <2> SUFFICES ASSUME Inv, Next, turn = "enclave", Doing("box")
               PROVE  todo' = Tail(todo) /\ built'.size = Head(todo').size
    OBVIOUS
  <2>1. EnclaveBoxes
    BY DEF Next, EnclaveStep, HostStep, EnclaveCalls, EnclaveResumes,
       EnclaveCopies, EnclaveChecks, PrintStringWrapper, WaitForMessageWrapper,
       WaitForChallengeWrapper, Wait, SendWrapper, Dispatched, Doing, Ocall
  <2>2. Head(Rest("provision", 9)) = Line("provision", 9)
    BY RestFacts DEF Lines
  <2>3. Line("provision", 9).size = 168
    BY Listings DEF Line, Listing, Send
  <2>4. built' = Attestation /\ todo' = Tail(todo)
        /\ Tail(todo) = Rest("provision", 9)
    BY <2>1, Boxed
  <2>5. Attestation.size = 168
    BY DEF Attestation
  <2>6. Head(todo') = Line("provision", 9)
    BY <2>2, <2>4, Zenon
  <2> QED
    BY <2>3, <2>4, <2>5, <2>6
<1> QED
  BY <1>1, Invariance, PTL DEF Spec, BoxFits
=============================================================================

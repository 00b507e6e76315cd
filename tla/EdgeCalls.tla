------------------------------ MODULE EdgeCalls ------------------------------
(***************************************************************************)
(* How the two enclaves call out to their hosts (vsim/fpga-provision and   *)
(* vsim/fpga-auth, eapp/edge_wrapper.c against host/edge_wrapper.cpp).     *)
(*                                                                         *)
(* There is one buffer that enclave and host share.  An ocall puts its     *)
(* arguments at the start of the data section, stops the enclave, lets a   *)
(* wrapper of the host serve the call and put its return value at the same *)
(* place, and resumes the enclave.  A message for the enclave stays in the *)
(* buffer behind a struct edge_data that says where; the enclave fetches   *)
(* it later, with copy_from_shared, at its own risk: any ocall in between  *)
(* would overwrite it.  The wrappers of the enclave drop the status of     *)
(* every call.                                                             *)
(*                                                                         *)
(* Abstractions.  The data section is the set of the pieces that are still *)
(* intact in it, with their place and size in bytes: a write destroys what *)
(* it overlaps.  An enclave is the list of the operations it has still to  *)
(* do; runs of prints that differ only in wording are one or two prints.   *)
(* What the messages say and whether they open is Provision's and          *)
(* VsimAuth's; here a check may fail on any message and passes on none     *)
(* that is not there in full.  The wrapper of OCALL_WAIT_FOR_RESP is never *)
(* called and left out.                                                    *)
(***************************************************************************)
EXTENDS Integers, Sequences

CONSTANTS
  Room,        \* bytes of the data section of the shared buffer
  ReadSizes    \* what one read of the socket may return, 0 when it fails

BUFFER_SIZE == 1024      \* host-fpga.cpp: the most one read returns

(* struct edge_data, unsigned long *)
EDGE_DATA == 16
LONG      == 8

ASSUME ConstantsAssumption ==
  /\ Room \in Nat
  /\ ReadSizes \subseteq 0 .. BUFFER_SIZE
  /\ EDGE_DATA + BUFFER_SIZE <= Room

-----------------------------------------------------------------------------
(***************************************************************************)
(* The sizes of the messages.                                              *)
(***************************************************************************)
MSG_BLOCKSIZE == 32
SEALBYTES     == 48      \* crypto_box_SEALBYTES
MACBYTES      == 16      \* crypto_secretbox_MACBYTES
NONCEBYTES    == 24      \* crypto_secretbox_NONCEBYTES

(* A slip: BLOCK_UP does not add a block to a multiple of the block size. *)
BLOCK_UP_RoundsUp(len) ==
  ((len + MSG_BLOCKSIZE - 1) \div MSG_BLOCKSIZE) * MSG_BLOCKSIZE

BLOCK_UP(len) == len + (MSG_BLOCKSIZE - (len % MSG_BLOCKSIZE))

(* sodium_pad always appends at least one byte. *)
SodiumPad(len) == len + (MSG_BLOCKSIZE - (len % MSG_BLOCKSIZE))

(* What the provider expects: ptlen bytes under the MAC, then the nonce *)
PROVIDER_PTLEN == 128

(* The messages as the enclaves build them: a sealed box, and four fields  *)
(* of a larger buffer; the attestation is the work of channel_box.         *)
Request  == [name |-> "request", size |-> 24 + 32 + SEALBYTES]
Response == [name |-> "response", size |-> 8 + 6 + 16 + 16]

-----------------------------------------------------------------------------
(***************************************************************************)
(* The operations of the enclaves.                                         *)
(***************************************************************************)

(* Strings that are printed, with their strlen: a label, a number, an error *)
Strlen == [label |-> 24, number |-> 3, error |-> 35]

(* A string in memory, with its NUL *)
Text(string) == [name |-> string, size |-> Strlen[string] + 1]

PrintString(string) == [op |-> "print", string |-> string]
Call(name)          == [op |-> name]
Send(name, size)    == [op |-> name, size |-> size]
Do(op)              == [op |-> op]
Check(size)         == [op |-> "check", size |-> size]

(* A slip: a print between the wait and the copy. *)
EstablishSecureChannel_PrintsFirst ==
  << PrintString("label"), Send("send_ra_req", 104),
     Call("wait_for_message"), PrintString("label"), Do("copy"), Check(233),
     PrintString("label"),
     Do("box"), Send("send_buffer", 168),
     Call("wait_for_message"), Do("copy"), Check(72) >>

(* establish_secure_channel *)
EstablishSecureChannel ==
  << PrintString("label"), Send("send_ra_req", 104),
     Call("wait_for_message"), Do("copy"), Check(233),
     PrintString("label"),
     Do("box"), Send("send_buffer", 168),
     Call("wait_for_message"), Do("copy"), Check(72) >>

(* eapp_entry of fpga-provision; test_with_real_delay makes the wait call *)
ProvisionEntry ==
  <<PrintString("label")>> \o EstablishSecureChannel \o
  << PrintString("label"), PrintString("number"), Call("wait"),
     PrintString("number") >>

(* eapp_entry of fpga-auth *)
AuthEntry ==
  << Call("wait_for_challenge"), Do("copy"),
     PrintString("label"), PrintString("number"),
     Send("send_challenge_response", 46) >>

(* A message the enclave cannot use: it says so and returns. *)
GiveUp == <<PrintString("error")>>

(* The numbers of the calls, as the enclaves know them *)
Ocall ==
  [print |-> 1, wait_for_message |-> 2, send_ra_req |-> 3, send_buffer |-> 5,
   wait_for_challenge |-> 6, send_challenge_response |-> 7, wait |-> 8]

(* ... and as the host of each enclave registers them *)
Registered ==
  [provision |-> [print |-> 1, wait_for_message |-> 2, send_ra_req |-> 3,
                  send_buffer |-> 5, wait |-> 8],
   auth |-> [print |-> 1, wait_for_challenge |-> 6,
             send_challenge_response |-> 7]]

Senders == {"send_ra_req", "send_buffer", "send_challenge_response"}

(* A slip: the NUL is not counted. *)
ArgSize_NoNul(o) ==
  IF o.op = "print" THEN Strlen[o.string]
  ELSE IF o.op \in Senders THEN o.size ELSE 0

(* How many bytes of arguments the enclave passes ... *)
ArgSize(o) ==
  IF o.op = "print" THEN Strlen[o.string] + 1
  ELSE IF o.op \in Senders THEN o.size ELSE 0

(* ... and how many of return value it asks for *)
ReturnSize(op) ==
  IF op = "print" THEN LONG
  ELSE IF op \in {"wait_for_message", "wait_for_challenge"} THEN EDGE_DATA
  ELSE 0

None    == [name |-> "none", size |-> 0]
Garbage == [name |-> "garbage", size |-> 0]

VARIABLES
  enclave,     \* which of the two runs
  todo,        \* the operations it has still to do
  turn,        \* who runs: enclave, host, or the runtime on the way back
  call,        \* struct edge_call, at the head of the shared buffer
  data,        \* the data section behind it
  resp,        \* the edge_data of the last wait, in the enclave
  copy,        \* data_copy
  built,       \* the message the enclave has built last
  received,    \* the message the host got last
  sent,        \* the message the host sent last
  printed      \* the string the host printed last

vars == <<enclave, todo, turn, call, data, resp, copy, built, received, sent,
          printed>>

Op == Head(todo)
Doing(op) == todo # <<>> /\ Op.op = op

-----------------------------------------------------------------------------
(***************************************************************************)
(* The shared buffer.                                                      *)
(***************************************************************************)

(* memcpy of size bytes into the data section *)
Put(pieces, at, size, what) ==
  IF size = 0 THEN pieces
  ELSE {p \in pieces : p.at + p.size <= at \/ at + size <= p.at}
         \cup {[at |-> at, size |-> size, what |-> what]}

(* memcpy out of it: a piece comes out whole or not at all *)
Get(pieces, at, size) ==
  LET found == {p \in pieces : p.at = at /\ p.size = size}
  IN IF found = {} THEN Garbage ELSE (CHOOSE p \in found : TRUE).what

(* printf of the string at the start, which is read up to its NUL: when    *)
(* the NUL is not there, whatever lies behind is printed with it.          *)
GetString(pieces) ==
  LET whole == {p \in pieces : p.at = 0 /\ p.size = p.what.size}
  IN IF whole = {} THEN Garbage ELSE (CHOOSE p \in whole : TRUE).what

-----------------------------------------------------------------------------
(***************************************************************************)
(* The enclave.                                                            *)
(***************************************************************************)

(* The arguments: a string, or the message built last when the size is its *)
Argument(o) ==
  IF o.op = "print" THEN Text(o.string)
  ELSE IF o.op \in Senders /\ o.size = built.size THEN built ELSE Garbage

(* ocall: the runtime copies the arguments and stops the enclave. *)
EnclaveCalls ==
  /\ turn = "enclave"
  /\ todo # <<>> /\ Op.op \in DOMAIN Ocall
  /\ call' = [call EXCEPT !.id = Ocall[Op.op], !.argSize = ArgSize(Op)]
  /\ data' = Put(data, 0, ArgSize(Op), Argument(Op))
  /\ turn' = "host"
  /\ UNCHANGED <<enclave, todo, resp, copy, built, received, sent, printed>>

(* A slip: ocall is given no place for what a wait returns.                *)
EnclaveResumes_NotReturned ==
  /\ turn = "runtime"
  /\ todo' = Tail(todo)
  /\ turn' = "enclave"
  /\ UNCHANGED <<enclave, call, data, resp, copy, built, received, sent, printed>>

(***************************************************************************)
(* The runtime has the enclave go on.  The return value is copied when the *)
(* call went well and returned enough; otherwise ocall fails, which the    *)
(* wrappers do not look at: resp stays what it was.  The value print       *)
(* returns is not used.                                                    *)
(***************************************************************************)
EnclaveResumes ==
  /\ turn = "runtime"
  /\ resp' = IF /\ ReturnSize(Op.op) = EDGE_DATA
                /\ call.status = "OK" /\ call.retSize >= EDGE_DATA
             THEN Get(data, call.retAt, EDGE_DATA)
             ELSE resp
  /\ todo' = Tail(todo)
  /\ turn' = "enclave"
  /\ UNCHANGED <<enclave, call, data, copy, built, received, sent, printed>>

(* copy_from_shared; nothing is copied of a message of no bytes *)
EnclaveCopies ==
  /\ turn = "enclave" /\ Doing("copy")
  /\ copy' = IF resp.size = 0 THEN copy
             ELSE Get(data, resp.offset, resp.size)
  (* eapp_entry of fpga-auth goes on to compute its response *)
  /\ built' = IF enclave = "auth" THEN Response ELSE built
  /\ todo' = Tail(todo)
  /\ UNCHANGED <<enclave, turn, call, data, resp, received, sent, printed>>

(* The message opens, or it is printed that it does not, and that is all. *)
EnclaveChecks ==
  /\ turn = "enclave" /\ Doing("check")
  /\ \/ copy = received /\ copy.size = Op.size /\ todo' = Tail(todo)
     \/ todo' = GiveUp
  /\ UNCHANGED <<enclave, turn, call, data, resp, copy, built, received, sent,
                 printed>>

(* channel_box, in a buffer that has room for BLOCK_UP bytes *)
EnclaveBoxes ==
  /\ turn = "enclave" /\ Doing("box")
  /\ IF SodiumPad(96) <= BLOCK_UP(96)
     THEN /\ built' = [name |-> "attestation",
                       size |-> MACBYTES + SodiumPad(96) + NONCEBYTES]
          /\ todo' = Tail(todo)
     ELSE todo' = GiveUp /\ UNCHANGED built
  /\ UNCHANGED <<enclave, turn, call, data, resp, copy, received, sent,
                 printed>>

-----------------------------------------------------------------------------
(***************************************************************************)
(* The host: incoming_call_dispatch looks the number up and calls the      *)
(* wrapper registered for it.                                              *)
(***************************************************************************)

Dispatched(name) ==
  /\ turn = "host"
  /\ name \in DOMAIN Registered[enclave]
  /\ call.id = Registered[enclave][name]
  /\ turn' = "runtime"

(* edge_call_args_ptr refuses arguments that do not lie in the buffer. *)
ArgsThere == call.argSize <= Room

Refused == call' = [call EXCEPT !.status = "BAD_OFFSET"]

(* A slip: the return value is an int. *)
PrintStringWrapper_Int ==
  /\ Dispatched("print")
  /\ IF ArgsThere
     THEN /\ printed' = GetString(data)
          /\ data' = Put(data, 0, 4, Garbage)
          /\ call' = [call EXCEPT !.status = "OK", !.retAt = 0, !.retSize = 4]
     ELSE Refused /\ UNCHANGED <<data, printed>>
  /\ UNCHANGED <<enclave, todo, resp, copy, built, received, sent>>

(* The return value is the uninitialised ret_val, not what printf gave. *)
PrintStringWrapper ==
  /\ Dispatched("print")
  /\ IF ArgsThere
     THEN /\ printed' = GetString(data)
          /\ data' = Put(data, 0, LONG, Garbage)
          /\ call' = [call EXCEPT !.status = "OK", !.retAt = 0, !.retSize = LONG]
     ELSE Refused /\ UNCHANGED <<data, printed>>
  /\ UNCHANGED <<enclave, todo, resp, copy, built, received, sent>>

(* A slip: the message goes where its edge_data goes, which is put last. *)
SetupWrappedRet_NoRoom(msg) ==
  /\ data' = Put(Put(data, 0, msg.size, msg), 0, EDGE_DATA,
                 [name |-> "edge_data", size |-> msg.size, offset |-> 0])
  /\ call' = [call EXCEPT !.status = "OK", !.retAt = 0, !.retSize = EDGE_DATA]

(* edge_call_setup_wrapped_ret: the message behind an edge_data; there is  *)
(* room for the largest message, so that it never fails                    *)
SetupWrappedRet(msg) ==
  /\ data' = Put(Put(data, EDGE_DATA, msg.size, msg), 0, EDGE_DATA,
                 [name |-> "edge_data", size |-> msg.size,
                  offset |-> EDGE_DATA])
  /\ call' = [call EXCEPT !.status = "OK", !.retAt = 0, !.retSize = EDGE_DATA]

(* wait_for_message reads the socket once; see Provision for what comes. *)
WaitForMessageWrapper ==
  /\ Dispatched("wait_for_message")
  /\ IF ArgsThere
     THEN \E n \in ReadSizes : /\ received' = [name |-> "message", size |-> n]
                              /\ SetupWrappedRet(received')
     ELSE Refused /\ UNCHANGED <<data, received>>
  /\ UNCHANGED <<enclave, todo, resp, copy, built, sent, printed>>

(* send_challenge_to_vSIM: RAND, OPc and AUTN *)
WaitForChallengeWrapper ==
  /\ Dispatched("wait_for_challenge")
  /\ IF ArgsThere
     THEN /\ received' = [name |-> "challenge", size |-> 48]
          /\ SetupWrappedRet(received')
     ELSE Refused /\ UNCHANGED <<data, received>>
  /\ UNCHANGED <<enclave, todo, resp, copy, built, sent, printed>>

(* A slip: the length is that of the return data, left by another call. *)
SendWrapper_WrongSize(name) ==
  /\ Dispatched(name)
  /\ sent' = Get(data, 0, call.retSize)
  /\ call' = [call EXCEPT !.status = "OK"]
  /\ UNCHANGED <<enclave, todo, data, resp, copy, built, received, printed>>

(* send_ra_req_wrapper, send_buffer_wrapper, send_challenge_response_wrapper *)
(* return no value: what was in the buffer stays there.                      *)
SendWrapper(name) ==
  /\ Dispatched(name)
  /\ IF ArgsThere
     THEN /\ sent' = Get(data, 0, call.argSize)
          /\ call' = [call EXCEPT !.status = "OK"]
     ELSE Refused /\ UNCHANGED sent
  /\ UNCHANGED <<enclave, todo, data, resp, copy, built, received, printed>>

(* wait sleeps for two seconds. *)
Wait ==
  /\ Dispatched("wait")
  /\ IF ArgsThere THEN call' = [call EXCEPT !.status = "OK"] ELSE Refused
  /\ UNCHANGED <<enclave, todo, data, resp, copy, built, received, sent,
                 printed>>

-----------------------------------------------------------------------------
Init ==
  /\ enclave \in {"provision", "auth"}
  /\ todo = IF enclave = "provision" THEN ProvisionEntry ELSE AuthEntry
  /\ turn = "enclave"
  /\ call = [id |-> 0, argSize |-> 0, status |-> "OK", retAt |-> 0,
             retSize |-> 0]
  /\ data = {}
  /\ resp = None /\ copy = None
  /\ built = IF enclave = "provision" THEN Request ELSE None
  /\ received = None /\ sent = None /\ printed = None

EnclaveStep ==
  \/ EnclaveCalls \/ EnclaveResumes
  \/ EnclaveCopies \/ EnclaveChecks \/ EnclaveBoxes

HostStep ==
  \/ PrintStringWrapper \/ WaitForMessageWrapper \/ WaitForChallengeWrapper
  \/ Wait
  \/ \E name \in Senders : SendWrapper(name)

Next == EnclaveStep \/ HostStep

Spec == Init /\ [][Next]_vars

-----------------------------------------------------------------------------
(***************************************************************************)
(* Properties.                                                             *)
(***************************************************************************)

Message(names) == [name : names, size : 0 .. BUFFER_SIZE]

(* Every variable has its type: the pieces of the data section are apart,  *)
(* and what is fetched, sent and printed is never part of something.       *)
TypeOK ==
  /\ enclave \in DOMAIN Registered
  /\ turn \in {"enclave", "host", "runtime"}
  /\ turn # "enclave" => todo # <<>> /\ Op.op \in DOMAIN Ocall
  /\ call \in [id : 0 .. 8, argSize : 0 .. Room, status : {"OK", "BAD_OFFSET"},
              retAt : 0 .. Room, retSize : 0 .. Room]
  /\ call.retAt + call.retSize <= Room
  /\ \A p \in data : p.at + p.size <= Room
  /\ \A p, q \in data :
       p = q \/ p.at + p.size <= q.at \/ q.at + q.size <= p.at
  /\ built \in Message({"none", "request", "attestation", "response"})
  /\ sent \in Message({"none", "request", "attestation", "response"})
  /\ received \in Message({"none", "message", "challenge"})
  /\ copy \in Message({"none", "message", "challenge"})
  /\ printed \in Message(DOMAIN Strlen \cup {"none"})

(* What the enclave fetches is the message the host got for its last wait, *)
(* in full: no ocall comes between the wait and the copy.                  *)
(* (fpga-provision.c 60-63, 137-139; fpga-auth.c 77-79)                    *)
FetchesTheMessage == [][copy' # copy => copy' = received]_vars

(* What is printed is the string of this call; nothing an earlier call     *)
(* left in the buffer is printed behind it.                                *)
(* (eapp/edge_wrapper.c 18-22, host/edge_wrapper.cpp 47-74)                *)
PrintsItsString ==
  turn = "runtime" /\ Op.op = "print" => printed = Text(Op.string)

(* The wrappers of the enclave drop the result of ocall, and rightly so:   *)
(* every call reaches the function it means, is served without an error    *)
(* and returns as many bytes as are asked for.                             *)
(* (eapp/edge_wrapper.c 13-47, host/edge_wrapper.cpp 14-26)                *)
CallsSucceed ==
  /\ turn = "host" => /\ Op.op \in DOMAIN Registered[enclave]
                      /\ call.id = Registered[enclave][Op.op]
  /\ turn = "runtime" => /\ call.status = "OK"
                         /\ ReturnSize(Op.op) > 0 =>
                              call.retSize >= ReturnSize(Op.op)

(* The host sends exactly the bytes of the message that was built, though  *)
(* the size is a literal at the call; those of the attestation decrypt to  *)
(* the 128 bytes the provider unpads.                                      *)
(* (fpga-provision.c 56, 134; fpga-auth.c 138; provider.cpp 288-325)       *)
SendsTheMessage ==
  turn = "runtime" /\ Op.op \in Senders =>
    /\ sent = built
    /\ sent.name = "attestation" =>
         sent.size = MACBYTES + PROVIDER_PTLEN + NONCEBYTES

(* channel_box finds room for its padding in the buffer it is given, also  *)
(* for a message of whole blocks, and fills the buffer that is sent next.  *)
(* (channel.h 13, channel.c 55-77, fpga-provision.c 119-134)               *)
BoxFits ==
  [][turn = "enclave" /\ Doing("box") =>
       todo' = Tail(todo) /\ built'.size = Head(todo').size]_vars

(***************************************************************************)
(* To the enclave an ocall is a call of a function: it happens when the    *)
(* host serves it, and the rest is done when the runtime goes on.          *)
(***************************************************************************)
Atomic == INSTANCE AtomicCalls WITH
  Entry    <- [provision |-> [todo |-> ProvisionEntry, built |-> Request],
               auth |-> [todo |-> AuthEntry, built |-> None]],
  Apology  <- GiveUp,
  String   <- [string \in DOMAIN Strlen |-> Text(string)],
  Incoming <- [wait_for_message |-> [name : {"message"}, size : ReadSizes],
               wait_for_challenge |-> [name : {"challenge"}, size : {48}]],
  Outgoing <- Senders,
  Boxed    <- [name |-> "attestation",
               size |-> MACBYTES + PROVIDER_PTLEN + NONCEBYTES],
  Computed <- [auth |-> Response],
  Nothing  <- None,
  todo     <- IF turn = "runtime" THEN Tail(todo) ELSE todo

(* Every ocall appears as one step that cannot fail, and a message the     *)
(* host got is fetched: between the two the enclave has neither lost a     *)
(* call nor made one twice.  (eapp/edge_wrapper.c 13-47,                   *)
(* host/edge_wrapper.cpp 47-141)                                           *)
CallsAreAtomic == Atomic!Spec
=============================================================================

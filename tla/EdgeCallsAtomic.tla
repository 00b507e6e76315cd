--------------------------- MODULE EdgeCallsAtomic ---------------------------
(***************************************************************************)
(* EdgeCalls implements AtomicCalls.  Of the four parts of an ocall, the   *)
(* call, the service and the return, only the service shows; that it does  *)
(* what the enclave asked for is what the invariant of EdgeCallsProofs     *)
(* says of the buffer at that moment.                                      *)
(***************************************************************************)
EXTENDS EdgeCallsProofs

LEMMA InitAtomic == Init => Atomic!Init
<1> SUFFICES ASSUME Init PROVE Atomic!Init
  OBVIOUS
<1>1. /\ enclave \in {"provision", "auth"} /\ turn = "enclave"
      /\ todo = IF enclave = "provision" THEN ProvisionEntry ELSE AuthEntry
      /\ built = IF enclave = "provision" THEN Request ELSE None
      /\ copy = None /\ received = None /\ sent = None /\ printed = None
  BY DEF Init
<1> DEFINE entry == [provision |-> [todo |-> ProvisionEntry, built |-> Request],
                     auth |-> [todo |-> AuthEntry, built |-> None]]
<1>2. /\ enclave \in DOMAIN entry
      /\ todo = entry[enclave].todo /\ built = entry[enclave].built
  BY <1>1
<1> HIDE DEF entry
<1> QED
  BY <1>1, <1>2 DEF Atomic!Init, entry

(* The call and the return do not show.  (eapp/edge_wrapper.c 13-47)       *)
LEMMA CallUnseen == EnclaveCalls => UNCHANGED Atomic!vars
BY DEF EnclaveCalls, Atomic!vars

LEMMA ReturnUnseen == EnclaveResumes => UNCHANGED Atomic!vars
BY DEF EnclaveResumes, Atomic!vars

(* What has been waited for is fetched.  (fpga-provision.c 63, 139,        *)
(* fpga-auth.c 79)                                                         *)
LEMMA FetchAtomic ==
  ASSUME Inv, EnclaveCopies
  PROVE  Atomic!Fetches
<1>1. resp = EdgeData(received) /\ Delivered /\ Intact(data)
  BY DEF EnclaveCopies, Inv, Announced
<1>2. received.size \in Nat
  <2>1. received \in Message({"none", "message", "challenge"})
    BY DEF Inv, TypeOK
  <2>2. received.size \in 0 .. BUFFER_SIZE
    BY <2>1 DEF Message
  <2> QED
    BY <2>2, RoomFits
<1>3. resp.size = received.size /\ resp.offset = EDGE_DATA
  BY <1>1 DEF EdgeData
<1>4. received.size > 0 => Get(data, EDGE_DATA, received.size) = received
  BY <1>1, <1>2, GetFacts DEF Delivered, EDGE_DATA
<1>5. copy' = IF received.size = 0 THEN copy ELSE received
  <2> DEFINE n == received.size
  <2> HIDE DEF n
  <2>1. n = 0 \/ n > 0
    BY <1>2 DEF n
  <2>2. copy' = IF n = 0 THEN copy ELSE Get(data, EDGE_DATA, n)
    BY <1>3 DEF EnclaveCopies, n
  <2> QED
    BY <1>4, <2>1, <2>2 DEF n
<1>6. /\ todo # <<>> /\ Head(todo).op = "copy" /\ todo' = Tail(todo)
      /\ turn = "enclave" /\ turn' = "enclave"
      /\ built' = IF enclave = "auth" THEN Response ELSE built
      /\ UNCHANGED <<enclave, received, sent, printed>>
  BY DEF EnclaveCopies, Doing, Op
<1> DEFINE computed == [auth |-> Response]
<1>7. built' = IF enclave \in DOMAIN computed THEN computed[enclave] ELSE built
  BY <1>6
<1> HIDE DEF computed
<1> QED
  BY <1>5, <1>6, <1>7 DEF Atomic!Fetches, Atomic!Does, Atomic!Done, Atomic!Op, computed

LEMMA CheckAtomic == EnclaveChecks => Atomic!Opens
BY DEF EnclaveChecks, Doing, Op, Atomic!Opens, Atomic!Does, Atomic!Done, Atomic!Op

LEMMA BoxAtomic ==
  ASSUME Inv, EnclaveBoxes
  PROVE  Atomic!Boxes
<1>1. built' = Attestation /\ todo' = Tail(todo)
  BY Boxed
<1>2. Attestation = [name |-> "attestation",
                     size |-> MACBYTES + PROVIDER_PTLEN + NONCEBYTES]
  BY DEF Attestation, MACBYTES, PROVIDER_PTLEN, NONCEBYTES
<1> QED
  BY <1>1, <1>2 DEF EnclaveBoxes, Doing, Op, Atomic!Boxes, Atomic!Does, Atomic!Done,
     Atomic!Op

-----------------------------------------------------------------------------
(* What the wrappers of the host do is what was called for. *)

(* The operation that is served is the one that appears as next, and then  *)
(* it has been done.                                                       *)
LEMMA ServedOnce ==
  ASSUME Inv, NEW name, Dispatched(name), UNCHANGED todo
  PROVE  Atomic!Does(name) /\ Atomic!Op = Op /\ Op.op = name /\ Atomic!Done
<1>1. todo # <<>> /\ Op.op = name
  BY Meant
<1>2. turn = "host" /\ turn' = "runtime"
  BY DEF Dispatched
<1> QED
  BY <1>1, <1>2 DEF Atomic!Does, Atomic!Op, Atomic!Done, Op

LEMMA PrintAtomic ==
  ASSUME Inv, PrintStringWrapper
  PROVE  Atomic!PrintsItsString
<1>1. Dispatched("print") /\ UNCHANGED <<enclave, todo, copy, built, received, sent>>
  BY DEF PrintStringWrapper
<1>2. Atomic!Does("print") /\ Atomic!Op = Op /\ Op.op = "print" /\ Atomic!Done
  BY <1>1, ServedOnce
<1>3. printed' = Text(Op.string) /\ Op.string \in DOMAIN Strlen
  <2>1. Inv'
    BY PrintStep
  <2>2. turn' = "runtime" /\ Op' = Op
    BY <1>1 DEF Dispatched, Op
  <2>3. todo # <<>> /\ Op.op \in DOMAIN Ocall
    BY <1>1, Meant
  <2> QED
    BY <1>2, <2>1, <2>2, <2>3, Arguments DEF Inv, PrintsItsString
<1> DEFINE string == [s \in DOMAIN Strlen |-> Text(s)]
<1>4. string[Op.string] = printed'
  BY <1>3
<1> HIDE DEF string
<1> QED
  BY <1>1, <1>2, <1>4 DEF Atomic!PrintsItsString, string

LEMMA SendAtomic ==
  ASSUME Inv, NEW name \in Senders, SendWrapper(name)
  PROVE  Atomic!SendsTheMessage
<1>1. Dispatched(name) /\ UNCHANGED <<enclave, todo, copy, built, received, printed>>
  BY DEF SendWrapper
<1>2. Atomic!Does(name) /\ Atomic!Op = Op /\ Op.op = name /\ Atomic!Done
  BY <1>1, ServedOnce
<1>3. Op.size = built.size
  <2>1. enclave \in {"provision", "auth"} /\ todo # <<>>
    BY <1>1, Meant DEF Inv, TypeOK, Registered
  <2> QED
    BY <1>2, <2>1, NextLine DEF Inv
<1>4. sent' = built
  <2>1. Inv'
    BY SendStep
  <2>2. turn' = "runtime" /\ Op' = Op /\ built' = built
    BY <1>1 DEF Dispatched, Op
  <2> QED
    BY <1>2, <2>1, <2>2 DEF Inv, SendsTheMessage
<1> QED
  BY <1>1, <1>2, <1>3, <1>4 DEF Atomic!SendsTheMessage

LEMMA WaitAtomic ==
  ASSUME Inv, WaitForMessageWrapper \/ WaitForChallengeWrapper
  PROVE  Atomic!Waits
<1> DEFINE incoming == [wait_for_message |-> [name : {"message"}, size : ReadSizes],
                        wait_for_challenge |-> [name : {"challenge"}, size : {48}]]
<1>0. UNCHANGED <<enclave, todo, copy, built, sent, printed>>
  BY DEF WaitForMessageWrapper, WaitForChallengeWrapper
<1>1. ASSUME WaitForMessageWrapper
      PROVE  \E name \in DOMAIN incoming : Dispatched(name) /\ received' \in incoming[name]
  <2>1. Dispatched("wait_for_message") /\ ArgsThere
    BY <1>1, Meant DEF WaitForMessageWrapper
  <2>2. received' \in [name : {"message"}, size : ReadSizes]
    BY <1>1, <2>1 DEF WaitForMessageWrapper
  <2> QED
    BY <2>1, <2>2
<1>2. ASSUME WaitForChallengeWrapper
      PROVE  \E name \in DOMAIN incoming : Dispatched(name) /\ received' \in incoming[name]
  <2>1. Dispatched("wait_for_challenge") /\ ArgsThere
    BY <1>2, Meant DEF WaitForChallengeWrapper
  <2>2. received' \in [name : {"challenge"}, size : {48}]
    BY <1>2, <2>1 DEF WaitForChallengeWrapper
  <2> QED
    BY <2>1, <2>2
<1> HIDE DEF incoming
<1>3. PICK name \in DOMAIN incoming : Dispatched(name) /\ received' \in incoming[name]
  BY <1>1, <1>2
<1>4. Atomic!Does(name) /\ Atomic!Done
  BY <1>0, <1>3, ServedOnce
<1> QED
  BY <1>0, <1>3, <1>4 DEF Atomic!Waits, incoming

LEMMA SleepAtomic ==
  ASSUME Inv, Wait
  PROVE  Atomic!Sleeps
<1>1. Dispatched("wait")
      /\ UNCHANGED <<enclave, todo, copy, built, received, sent, printed>>
  BY DEF Wait
<1> QED
  BY <1>1, ServedOnce DEF Atomic!Sleeps

-----------------------------------------------------------------------------
(* To the code of the enclaves an ocall is a call that happens at once,    *)
(* cannot fail, passes what it is given and brings back what came.         *)
(* (eapp/edge_wrapper.c 13-47, host/edge_wrapper.cpp 47-141)               *)
THEOREM CallsAreAtomicHolds == Spec => CallsAreAtomic
<1>1. Inv /\ [Next]_vars => [Atomic!Next]_(Atomic!vars)
  <2> SUFFICES ASSUME Inv, [Next]_vars
               PROVE  [Atomic!Next]_(Atomic!vars)
    OBVIOUS
  <2>1. CASE EnclaveStep
    <3>1. CASE EnclaveCalls \/ EnclaveResumes
      BY <3>1, CallUnseen, ReturnUnseen
    <3>2. CASE EnclaveCopies \/ EnclaveChecks \/ EnclaveBoxes
      BY <3>2, FetchAtomic, CheckAtomic, BoxAtomic DEF Atomic!Next
    <3> QED
      BY <2>1, <3>1, <3>2 DEF EnclaveStep
  <2>2. CASE HostStep
    BY <2>2, PrintAtomic, SendAtomic, WaitAtomic, SleepAtomic DEF HostStep, Atomic!Next
  <2>3. CASE UNCHANGED vars
    BY <2>3 DEF vars, Atomic!vars
  <2> QED
    BY <2>1, <2>2, <2>3 DEF Next
<1> QED
  BY <1>1, InitAtomic, Invariance, PTL DEF Spec, CallsAreAtomic, Atomic!Spec
=============================================================================

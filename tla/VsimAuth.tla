------------------------------ MODULE VsimAuth ------------------------------
(***************************************************************************)
(* 5G authentication through the vSIM: the srsUE process (srsue/usim.cc)   *)
(* and the vSIM process (vsim/fpga-auth: the Keystone host and the enclave *)
(* it runs) exchange a challenge and its response through the POSIX        *)
(* shared-memory object "/test_shared_memory" and two atomic flags.        *)
(*                                                                         *)
(* The two processes start, are killed and are started again in any order. *)
(* Every memcpy to or from the shared memory is a step of its own, so the  *)
(* two interleave inside a challenge and inside a response; a copy that    *)
(* races with a store (srsUE reading after a timeout, a restarted srsUE    *)
(* writing under the vSIM's eyes) yields old or new bytes field by field.  *)
(* The flags are stored with release and loaded with acquire, hence a      *)
(* reader that saw a flag sees everything written before it.               *)
(*                                                                         *)
(* Abstractions.  A challenge (RAND, AUTN) is a model value c: its RAND    *)
(* and its AUTN are each written c, so a torn challenge is a pair of       *)
(* distinct values.  OPc belongs to the one subscriber and never changes:  *)
(* its copies are folded into those of AUTN.  The Milenage outputs of c    *)
(* are written c as well (see Milenage).  K is the same key in ue.conf and *)
(* in the enclave.  SharedData.response_ready, which nothing reads, is     *)
(* left out.                                                               *)
(***************************************************************************)
EXTENDS Naturals

CONSTANTS
  Challenges,       \* the challenges the network sends, each at most once
  GoodAutn,         \* those whose AUTN verifies under the subscriber's key
  Zero,             \* what a byte array holds before anyone writes it
  TIMEOUT_SECONDS,  \* polls of the flag before srsUE gives up (5 in the code)
  MaxUeRuns,        \* bound: how many times srsUE is started
  MaxHostRuns,      \* bound: how many times the vSIM process is started
  Faults            \* which faults may happen, a subset of AllFaults

AllFaults == {"kill_ue", "kill_host", "signal_host", "alloc"}

ASSUME ConstantsAssumption ==
  /\ GoodAutn \subseteq Challenges
  /\ Zero \notin Challenges
  /\ TIMEOUT_SECONDS \in Nat
  /\ MaxUeRuns \in Nat
  /\ MaxHostRuns \in Nat
  /\ Faults \subseteq AllFaults

(***************************************************************************)
(* Shared-memory objects.  shm_open creates one when the name is free; an  *)
(* object outlives its name for as long as it is mapped.  The object the   *)
(* n-th vSIM run creates, if it creates one, is n.                         *)
(***************************************************************************)
Segments  == 1 .. MaxHostRuns
NoSegment == 0

(***************************************************************************)
(* The four response arrays of SharedData, in the order both sides copy    *)
(* them.                                                                   *)
(***************************************************************************)
RES        == 1
AK_XOR_SQN == 2
CK         == 3
IK         == 4
Fields     == RES .. IK

Bytes == Challenges \cup {Zero}

(***************************************************************************)
(* What gen_auth_res_milenage computes.  RES, CK and IK are functions of   *)
(* RAND; sqn is AUTN xor AK and ak_xor_sqn is sqn xor AK again, that is    *)
(* the first bytes of AUTN whatever RAND is.                               *)
(***************************************************************************)
Milenage(rand, autn) ==
  [f \in Fields |-> IF f = AK_XOR_SQN THEN autn ELSE rand]

Answer(c) == Milenage(c, c)
NoAnswer  == [f \in Fields |-> Zero]

(***************************************************************************)
(* The comparison of AUTNs at the end of gen_auth_res_milenage and of      *)
(* gen_auth_res_xor.  The two differ in the functions f1 and f2345 only:   *)
(* the XOR algorithm too computes RES, CK and IK of RAND, and sqn xor AK   *)
(* is the first bytes of AUTN, so that Answer stands for either.           *)
(***************************************************************************)
Verdict(c) == IF c \in GoodAutn THEN "AUTH_OK" ELSE "AUTH_FAILED"

VARIABLES
  (* the shared memory: the object the name denotes, and each object *)
  name, sized,
  command_ready, auth_response_ready, command_type,
  rand_bytes, autenb_bytes, response,
  (* the vSIM process *)
  hostRuns, hostPc, hostMap, hostRand, hostAutn, hostField, vsimResponse,
  (* the srsUE process *)
  ueRuns, uePc, ueMap, fpga_initialized, ueChal, wait_time, ueSeen,
  ueField, ueResponse,
  (* history *)
  sent,      \* challenges the network has sent
  posted,    \* challenges announced through command_ready
  quiet,     \* challenges whose request began on a quiet object
  handed,    \* challenges given to the enclave, with the vSIM run
  done       \* finished authentications

shmVars  == <<name, sized, command_ready, auth_response_ready, command_type,
              rand_bytes, autenb_bytes, response>>
hostVars == <<hostRuns, hostPc, hostMap, hostRand, hostAutn, hostField,
              vsimResponse>>
ueVars   == <<ueRuns, uePc, ueMap, fpga_initialized, ueChal, wait_time,
              ueSeen, ueField, ueResponse>>
histVars == <<sent, posted, quiet, handed, done>>
vars     == <<shmVars, hostVars, ueVars, histVars>>

UePcs == {"off", "idle", "write_rand", "write_autn", "write_type", "post",
          "wait", "read"}
HostPcs == {"off", "truncate", "clear_command", "clear_response", "poll",
            "copy_rand", "copy_autn", "alloc", "enclave", "respond", "flag",
            "sleep"}

(* The vSIM is at work on a command of the object it maps. *)
HostBusy == hostPc \in {"copy_rand", "copy_autn", "alloc", "enclave",
                        "respond", "flag"}

(* No command and no response is pending on s, and nobody is producing one. *)
Quiet(s) ==
  /\ ~command_ready[s]
  /\ ~auth_response_ready[s]
  /\ ~(HostBusy /\ hostMap = s)

-----------------------------------------------------------------------------
(***************************************************************************)
(* Slips the properties below are there to catch.  Each is an action of    *)
(* this module as it would be with one mistake in the code; no             *)
(* specification uses them.                                                *)
(***************************************************************************)

(* srsUE raises command_ready with the RAND, before the AUTN is written. *)
UeWriteRand_PostsEarly ==
  /\ uePc = "write_rand"
  /\ sized[ueMap]
  /\ rand_bytes' = [rand_bytes EXCEPT ![ueMap] = ueChal]
  /\ command_ready' = [command_ready EXCEPT ![ueMap] = TRUE]
  /\ posted' = posted \cup {ueChal}
  /\ uePc' = "write_autn"
  /\ UNCHANGED <<name, sized, auth_response_ready, command_type,
                 autenb_bytes, response, hostVars,
                 ueRuns, ueMap, fpga_initialized, ueChal, wait_time, ueSeen,
                 ueField, ueResponse, sent, quiet, handed, done>>

(* srsUE forgets to set command_type. *)
UeWriteType_Skipped ==
  /\ uePc = "write_type"
  /\ uePc' = "post"
  /\ UNCHANGED <<shmVars, hostVars, ueRuns, ueMap, fpga_initialized, ueChal,
                 wait_time, ueSeen, ueField, ueResponse, histVars>>

(* The wait loop raises command_ready again: a retry. *)
UePollAgain_Retries ==
  /\ uePc = "wait"
  /\ ~auth_response_ready[ueMap]
  /\ wait_time < TIMEOUT_SECONDS
  /\ wait_time' = wait_time + 1
  /\ command_ready' = [command_ready EXCEPT ![ueMap] = TRUE]
  /\ UNCHANGED <<name, sized, auth_response_ready, command_type,
                 rand_bytes, autenb_bytes, response, hostVars,
                 ueRuns, uePc, ueMap, fpga_initialized, ueChal, ueSeen,
                 ueField, ueResponse, histVars>>

(* The wait loop compares with <= instead of <. *)
UePollAgain_OneMore ==
  /\ uePc = "wait"
  /\ ~auth_response_ready[ueMap]
  /\ wait_time <= TIMEOUT_SECONDS
  /\ wait_time' = wait_time + 1
  /\ UNCHANGED <<shmVars, hostVars, ueRuns, uePc, ueMap, fpga_initialized,
                 ueChal, ueSeen, ueField, ueResponse, histVars>>

(* The timeout is forgotten: only the flag ends the wait. *)
UeStopWaiting_NoTimeout ==
  /\ uePc = "wait"
  /\ auth_response_ready[ueMap]
  /\ ueSeen' = TRUE
  /\ ueField' = RES
  /\ uePc' = "read"
  /\ UNCHANGED <<shmVars, hostVars, ueRuns, ueMap, fpga_initialized, ueChal,
                 wait_time, ueResponse, histVars>>

(* The vSIM raises the response flag before it copies the fields. *)
EnclaveCompute_FlagsEarly ==
  /\ hostPc = "enclave"
  /\ vsimResponse' = Milenage(hostRand, hostAutn)
  /\ auth_response_ready' = [auth_response_ready EXCEPT ![hostMap] = TRUE]
  /\ hostField' = RES
  /\ hostPc' = "respond"
  /\ UNCHANGED <<name, sized, command_ready, command_type, rand_bytes,
                 autenb_bytes, response, hostRuns, hostMap, hostRand,
                 hostAutn, ueVars, histVars>>

(* The vSIM copies three of the four fields. *)
HostWriteField_OneShort ==
  /\ hostPc = "respond"
  /\ response' = [response EXCEPT ![hostMap][hostField] = vsimResponse[hostField]]
  /\ hostField' = hostField + 1
  /\ hostPc' = IF hostField + 1 = IK THEN "flag" ELSE "respond"
  /\ UNCHANGED <<name, sized, command_ready, auth_response_ready,
                 command_type, rand_bytes, autenb_bytes,
                 hostRuns, hostMap, hostRand, hostAutn, vsimResponse,
                 ueVars, histVars>>

-----------------------------------------------------------------------------
(***************************************************************************)
(* The vSIM process: main of fpga-auth/host, then eapp_entry, which calls  *)
(* back into the host (ocalls) to wait for a challenge and to answer it.   *)
(***************************************************************************)

(* main: shm_open(O_CREAT) *)
HostStart ==
  /\ hostPc = "off"
  /\ hostRuns < MaxHostRuns
  /\ hostRuns' = hostRuns + 1
  /\ name' = IF name = NoSegment THEN hostRuns + 1 ELSE name
  /\ hostMap' = name'
  /\ hostPc' = "truncate"
  /\ UNCHANGED <<sized, command_ready, auth_response_ready, command_type,
                 rand_bytes, autenb_bytes, response,
                 hostRand, hostAutn, hostField, vsimResponse,
                 ueVars, histVars>>

(* main: ftruncate gives a new object its (zeroed) pages, then mmap *)
HostTruncate ==
  /\ hostPc = "truncate"
  /\ sized' = [sized EXCEPT ![hostMap] = TRUE]
  /\ hostPc' = "clear_command"
  /\ UNCHANGED <<name, command_ready, auth_response_ready, command_type,
                 rand_bytes, autenb_bytes, response,
                 hostRuns, hostMap, hostRand, hostAutn, hostField,
                 vsimResponse, ueVars, histVars>>

(* main: the flags are lowered one after the other, then the enclave runs *)
HostClearCommand ==
  /\ hostPc = "clear_command"
  /\ command_ready' = [command_ready EXCEPT ![hostMap] = FALSE]
  /\ hostPc' = "clear_response"
  /\ UNCHANGED <<name, sized, auth_response_ready, command_type,
                 rand_bytes, autenb_bytes, response,
                 hostRuns, hostMap, hostRand, hostAutn, hostField,
                 vsimResponse, ueVars, histVars>>

HostClearResponse ==
  /\ hostPc = "clear_response"
  /\ auth_response_ready' = [auth_response_ready EXCEPT ![hostMap] = FALSE]
  /\ hostPc' = "poll"
  /\ UNCHANGED <<name, sized, command_ready, command_type,
                 rand_bytes, autenb_bytes, response,
                 hostRuns, hostMap, hostRand, hostAutn, hostField,
                 vsimResponse, ueVars, histVars>>

(***************************************************************************)
(* send_challenge_to_vSIM sees the command.  A poll that sees none, or a   *)
(* command of another type, sleeps and changes nothing.                    *)
(***************************************************************************)
HostTakeCommand ==
  /\ hostPc = "poll"
  /\ command_ready[hostMap]
  /\ command_type[hostMap] = "CMD_AUTHENTICATE"
  /\ auth_response_ready' = [auth_response_ready EXCEPT ![hostMap] = FALSE]
  /\ hostPc' = "copy_rand"
  /\ UNCHANGED <<name, sized, command_ready, command_type,
                 rand_bytes, autenb_bytes, response,
                 hostRuns, hostMap, hostRand, hostAutn, hostField,
                 vsimResponse, ueVars, histVars>>

HostCopyRand ==
  /\ hostPc = "copy_rand"
  /\ hostRand' = rand_bytes[hostMap]
  /\ hostPc' = "copy_autn"
  /\ UNCHANGED <<shmVars, hostRuns, hostMap, hostAutn, hostField,
                 vsimResponse, ueVars, histVars>>

HostCopyAutn ==
  /\ hostPc = "copy_autn"
  /\ hostAutn' = autenb_bytes[hostMap]
  /\ hostPc' = "alloc"
  /\ UNCHANGED <<shmVars, hostRuns, hostMap, hostRand, hostField,
                 vsimResponse, ueVars, histVars>>

(* The buffer is allocated: the command is consumed and the challenge goes *)
(* to the enclave.                                                         *)
HostHandOver ==
  /\ hostPc = "alloc"
  /\ command_ready' = [command_ready EXCEPT ![hostMap] = FALSE]
  /\ handed' = handed \cup
       {[run |-> hostRuns, rand |-> hostRand, autn |-> hostAutn]}
  /\ hostPc' = "enclave"
  /\ UNCHANGED <<name, sized, auth_response_ready, command_type,
                 rand_bytes, autenb_bytes, response,
                 hostRuns, hostMap, hostRand, hostAutn, hostField,
                 vsimResponse, ueVars, sent, posted, quiet, done>>

(* malloc returned NULL: break, sleep, poll again; command_ready stays. *)
HostAllocFails ==
  /\ "alloc" \in Faults
  /\ hostPc = "alloc"
  /\ hostPc' = "poll"
  /\ UNCHANGED <<shmVars, hostRuns, hostMap, hostRand, hostAutn, hostField,
                 vsimResponse, ueVars, histVars>>

(***************************************************************************)
(* eapp_entry copies the challenge out of the call buffer, computes and    *)
(* calls back with the 46 bytes.  It does not compare the AUTNs.           *)
(***************************************************************************)
EnclaveCompute ==
  /\ hostPc = "enclave"
  /\ vsimResponse' = Milenage(hostRand, hostAutn)
  /\ hostField' = RES
  /\ hostPc' = "respond"
  /\ UNCHANGED <<shmVars, hostRuns, hostMap, hostRand, hostAutn,
                 ueVars, histVars>>

(* send_challenge_response: one memcpy per field *)
HostWriteField ==
  /\ hostPc = "respond"
  /\ response' = [response EXCEPT ![hostMap][hostField] = vsimResponse[hostField]]
  /\ hostField' = hostField + 1
  /\ hostPc' = IF hostField = IK THEN "flag" ELSE "respond"
  /\ UNCHANGED <<name, sized, command_ready, auth_response_ready,
                 command_type, rand_bytes, autenb_bytes,
                 hostRuns, hostMap, hostRand, hostAutn, vsimResponse,
                 ueVars, histVars>>

(* send_challenge_response: auth_response_ready.store(true), then sleep(10) *)
HostRaiseFlag ==
  /\ hostPc = "flag"
  /\ auth_response_ready' = [auth_response_ready EXCEPT ![hostMap] = TRUE]
  /\ hostPc' = "sleep"
  /\ UNCHANGED <<name, sized, command_ready, command_type,
                 rand_bytes, autenb_bytes, response,
                 hostRuns, hostMap, hostRand, hostAutn, hostField,
                 vsimResponse, ueVars, histVars>>

HostGone ==
  /\ hostPc' = "off"
  /\ hostMap' = NoSegment
  /\ UNCHANGED <<sized, command_ready, auth_response_ready, command_type,
                 rand_bytes, autenb_bytes, response,
                 hostRuns, hostRand, hostAutn, hostField, vsimResponse,
                 ueVars, histVars>>

(* The enclave returns after its one answer; main returns and leaves the   *)
(* object and its name in place.                                           *)
HostExit ==
  /\ hostPc = "sleep"
  /\ name' = name
  /\ HostGone

(* The process dies (power, SIGKILL, a failed call of main). *)
HostKilled ==
  /\ "kill_host" \in Faults
  /\ hostPc # "off"
  /\ name' = name
  /\ HostGone

(* SIGINT or SIGTERM: cleanup unlinks the name and exits. *)
HostCleanup ==
  /\ "signal_host" \in Faults
  /\ hostPc # "off"
  /\ name' = NoSegment
  /\ HostGone

-----------------------------------------------------------------------------
(***************************************************************************)
(* The srsUE process.                                                      *)
(***************************************************************************)

(* usim::init: shm_open without O_CREAT, then mmap.  Without an object the *)
(* mapping is MAP_FAILED and init carries on.                              *)
UeStart ==
  /\ uePc = "off"
  /\ ueRuns < MaxUeRuns
  /\ ueRuns' = ueRuns + 1
  /\ ueMap' = name
  /\ fpga_initialized' = FALSE
  /\ uePc' = "idle"
  /\ UNCHANGED <<shmVars, hostVars, ueChal, wait_time, ueSeen, ueField,
                 ueResponse, histVars>>

Finish(c, via, result, seen, resp) ==
  done' = done \cup
    {[chal |-> c, via |-> via, result |-> result, seen |-> seen,
      resp |-> resp, run |-> ueRuns]}

(* gen_auth_res_milenage_vsim: no mapping, AUTH_FAILED; the next           *)
(* authentication will try again.                                          *)
UeUnmapped(c) ==
  /\ uePc = "idle" /\ ~fpga_initialized
  /\ c \notin sent
  /\ ueMap = NoSegment
  /\ sent' = sent \cup {c}
  /\ Finish(c, "vsim", "AUTH_FAILED", FALSE, NoAnswer)
  /\ UNCHANGED <<shmVars, hostVars, ueVars, posted, quiet, handed>>

(* gen_auth_res_milenage_vsim: a challenge to be passed on to the vSIM *)
UeRequest(c) ==
  /\ uePc = "idle" /\ ~fpga_initialized
  /\ c \notin sent
  /\ ueMap # NoSegment
  /\ sent' = sent \cup {c}
  /\ quiet' = IF Quiet(ueMap) THEN quiet \cup {c} ELSE quiet
  /\ ueChal' = c
  /\ uePc' = "write_rand"
  /\ UNCHANGED <<shmVars, hostVars, ueRuns, ueMap, fpga_initialized,
                 wait_time, ueSeen, ueField, ueResponse,
                 posted, handed, done>>

UeWriteRand ==
  /\ uePc = "write_rand"
  /\ sized[ueMap]
  /\ rand_bytes' = [rand_bytes EXCEPT ![ueMap] = ueChal]
  /\ uePc' = "write_autn"
  /\ UNCHANGED <<name, sized, command_ready, auth_response_ready,
                 command_type, autenb_bytes, response, hostVars,
                 ueRuns, ueMap, fpga_initialized, ueChal, wait_time, ueSeen,
                 ueField, ueResponse, histVars>>

UeWriteAutn ==
  /\ uePc = "write_autn"
  /\ autenb_bytes' = [autenb_bytes EXCEPT ![ueMap] = ueChal]
  /\ uePc' = "write_type"
  /\ UNCHANGED <<name, sized, command_ready, auth_response_ready,
                 command_type, rand_bytes, response, hostVars,
                 ueRuns, ueMap, fpga_initialized, ueChal, wait_time, ueSeen,
                 ueField, ueResponse, histVars>>

UeWriteType ==
  /\ uePc = "write_type"
  /\ command_type' = [command_type EXCEPT ![ueMap] = "CMD_AUTHENTICATE"]
  /\ uePc' = "post"
  /\ UNCHANGED <<name, sized, command_ready, auth_response_ready,
                 rand_bytes, autenb_bytes, response, hostVars,
                 ueRuns, ueMap, fpga_initialized, ueChal, wait_time, ueSeen,
                 ueField, ueResponse, histVars>>

UePost ==
  /\ uePc = "post"
  /\ command_ready' = [command_ready EXCEPT ![ueMap] = TRUE]
  /\ posted' = posted \cup {ueChal}
  /\ wait_time' = 0
  /\ uePc' = "wait"
  /\ UNCHANGED <<name, sized, auth_response_ready, command_type,
                 rand_bytes, autenb_bytes, response, hostVars,
                 ueRuns, ueMap, fpga_initialized, ueChal, ueSeen, ueField,
                 ueResponse, sent, quiet, handed, done>>

(* The wait loop: the flag is loaded first, then the poll count compared. *)
UePollAgain ==
  /\ uePc = "wait"
  /\ ~auth_response_ready[ueMap]
  /\ wait_time < TIMEOUT_SECONDS
  /\ wait_time' = wait_time + 1
  /\ UNCHANGED <<shmVars, hostVars, ueRuns, uePc, ueMap, fpga_initialized,
                 ueChal, ueSeen, ueField, ueResponse, histVars>>

(* Both ways out of the loop lead to the copies; only ueSeen, a history    *)
(* variable, tells them apart.                                             *)
UeStopWaiting ==
  /\ uePc = "wait"
  /\ auth_response_ready[ueMap] \/ wait_time >= TIMEOUT_SECONDS
  /\ ueSeen' = auth_response_ready[ueMap]
  /\ ueField' = RES
  /\ uePc' = "read"
  /\ UNCHANGED <<shmVars, hostVars, ueRuns, ueMap, fpga_initialized, ueChal,
                 wait_time, ueResponse, histVars>>

UeReadField ==
  /\ uePc = "read"
  /\ ueField \in Fields
  /\ ueResponse' = [ueResponse EXCEPT ![ueField] = response[ueMap][ueField]]
  /\ ueField' = ueField + 1
  /\ UNCHANGED <<shmVars, hostVars, ueRuns, uePc, ueMap, fpga_initialized,
                 ueChal, wait_time, ueSeen, histVars>>

(* The result is AUTH_OK whatever was read; from now on this process uses  *)
(* its own Milenage.                                                       *)
UeReturn ==
  /\ uePc = "read"
  /\ ueField = IK + 1
  /\ fpga_initialized' = TRUE
  /\ uePc' = "idle"
  /\ Finish(ueChal, "vsim", "AUTH_OK", ueSeen, ueResponse)
  /\ UNCHANGED <<shmVars, hostVars, ueRuns, ueMap, ueChal, wait_time,
                 ueSeen, ueField, ueResponse, sent, posted, quiet, handed>>

(***************************************************************************)
(* generate_authentication_response (LTE) computes with the key of ue.conf *)
(* by the algorithm of ue.conf, Milenage or XOR, and returns its verdict   *)
(* on the AUTN; every 5G authentication after the first that went to the   *)
(* vSIM computes by Milenage too, drops the verdict and returns AUTH_OK.   *)
(***************************************************************************)
UeLocal(c) ==
  /\ uePc = "idle"
  /\ c \notin sent
  /\ sent' = sent \cup {c}
  /\ Finish(c, "lte", Verdict(c), FALSE, Answer(c))
  /\ UNCHANGED <<shmVars, hostVars, ueVars, posted, quiet, handed>>

UeCached(c) ==
  /\ uePc = "idle" /\ fpga_initialized
  /\ c \notin sent
  /\ sent' = sent \cup {c}
  /\ Finish(c, "cached", "AUTH_OK", FALSE, Answer(c))
  /\ UNCHANGED <<shmVars, hostVars, ueVars, posted, quiet, handed>>

UeGone ==
  /\ uePc' = "off"
  /\ ueMap' = NoSegment
  /\ UNCHANGED <<shmVars, hostVars, ueRuns, fpga_initialized, ueChal,
                 wait_time, ueSeen, ueField, ueResponse, histVars>>

(* The object has no pages yet (vSIM between shm_open and ftruncate): the  *)
(* first store raises SIGBUS.                                              *)
UeSigbus ==
  /\ uePc = "write_rand"
  /\ ~sized[ueMap]
  /\ UeGone

UeKilled ==
  /\ "kill_ue" \in Faults
  /\ uePc # "off"
  /\ UeGone

-----------------------------------------------------------------------------
Init ==
  /\ name = NoSegment
  /\ sized = [s \in Segments |-> FALSE]
  /\ command_ready = [s \in Segments |-> FALSE]
  /\ auth_response_ready = [s \in Segments |-> FALSE]
  /\ command_type = [s \in Segments |-> "CMD_NONE"]
  /\ rand_bytes = [s \in Segments |-> Zero]
  /\ autenb_bytes = [s \in Segments |-> Zero]
  /\ response = [s \in Segments |-> NoAnswer]
  /\ hostRuns = 0 /\ hostPc = "off" /\ hostMap = NoSegment
  /\ hostRand = Zero /\ hostAutn = Zero
  /\ hostField = RES /\ vsimResponse = NoAnswer
  /\ ueRuns = 0 /\ uePc = "off" /\ ueMap = NoSegment
  /\ fpga_initialized = FALSE
  /\ ueChal = Zero /\ wait_time = 0 /\ ueSeen = FALSE
  /\ ueField = RES /\ ueResponse = NoAnswer
  /\ sent = {} /\ posted = {} /\ quiet = {} /\ handed = {} /\ done = {}

(* The steps each process takes by itself once started. *)
HostStep ==
  \/ HostTruncate \/ HostClearCommand \/ HostClearResponse
  \/ HostTakeCommand \/ HostCopyRand \/ HostCopyAutn \/ HostHandOver
  \/ EnclaveCompute \/ HostWriteField \/ HostRaiseFlag \/ HostExit

UeStep ==
  \/ UeWriteRand \/ UeWriteAutn \/ UeWriteType \/ UePost
  \/ UePollAgain \/ UeStopWaiting \/ UeReadField \/ UeReturn \/ UeSigbus

(* What the operator, the network and the machine may do. *)
Environment ==
  \/ HostStart \/ HostKilled \/ HostCleanup \/ HostAllocFails
  \/ UeStart \/ UeKilled
  \/ \E c \in Challenges :
       UeUnmapped(c) \/ UeRequest(c) \/ UeLocal(c) \/ UeCached(c)

Next == HostStep \/ UeStep \/ Environment

Spec == Init /\ [][Next]_vars

(***************************************************************************)
(* Both processes are ordinary processes: one that can take a step and is  *)
(* not killed is eventually scheduled.  Nothing is assumed of starts,      *)
(* faults and the network.                                                 *)
(***************************************************************************)
FairSpec == Spec /\ WF_vars(HostStep) /\ WF_vars(UeStep)

-----------------------------------------------------------------------------
(***************************************************************************)
(* Properties.                                                             *)
(***************************************************************************)

(* Every variable has its type; a process that is past its start has an    *)
(* object, and a challenge in hand is one the network sent.                *)
TypeOK ==
  /\ name \in Segments \cup {NoSegment}
  /\ sized \in [Segments -> BOOLEAN]
  /\ command_ready \in [Segments -> BOOLEAN]
  /\ auth_response_ready \in [Segments -> BOOLEAN]
  /\ command_type \in [Segments -> {"CMD_NONE", "CMD_AUTHENTICATE"}]
  /\ rand_bytes \in [Segments -> Bytes]
  /\ autenb_bytes \in [Segments -> Bytes]
  /\ response \in [Segments -> [Fields -> Bytes]]
  /\ hostRuns \in 0 .. MaxHostRuns
  /\ hostPc \in HostPcs
  /\ hostPc # "off" => hostRuns > 0
  /\ hostMap \in IF hostPc = "off" THEN {NoSegment} ELSE Segments
  /\ hostRand \in Bytes /\ hostAutn \in Bytes
  /\ hostField \in RES .. IK + 1
  /\ hostPc = "respond" => hostField \in Fields
  /\ vsimResponse \in [Fields -> Bytes]
  /\ ueRuns \in 0 .. MaxUeRuns
  /\ uePc \in UePcs
  /\ uePc # "off" => ueRuns > 0
  /\ ueMap \in Segments \cup {NoSegment}
  /\ uePc \notin {"off", "idle"} => ueMap # NoSegment /\ ueChal \in sent
  /\ fpga_initialized \in BOOLEAN
  /\ ueChal \in Bytes
  /\ wait_time \in 0 .. TIMEOUT_SECONDS
  /\ ueSeen \in BOOLEAN
  /\ ueField \in RES .. IK + 1
  /\ ueResponse \in [Fields -> Bytes]
  /\ sent \subseteq Challenges
  /\ posted \subseteq sent
  /\ quiet \subseteq sent
  /\ handed \subseteq [run : 1 .. MaxHostRuns, rand : Bytes, autn : Bytes]
  /\ done \subseteq [chal : sent, via : {"vsim", "cached", "lte"},
                     result : {"AUTH_OK", "AUTH_FAILED"}, seen : BOOLEAN,
                     resp : [Fields -> Bytes], run : 1 .. MaxUeRuns]

(* An authentication that began on a quiet object and saw the response     *)
(* flag returns the response to its own challenge, in all four fields,     *)
(* whatever crashes, restarts and unlinks happened meanwhile.              *)
(* (usim.cc 316-347 against host-fpga.cpp 134-199)                         *)
OwnAnswer ==
  \A d \in done :
    d.via = "vsim" /\ d.seen /\ d.chal \in quiet => d.resp = Answer(d.chal)

(* The vSIM does not compute the challenge of a quiet request twice: a     *)
(* command is consumed before it is handed over, and a vSIM that died in   *)
(* between leaves a command its successor discards.                        *)
(* (host-fpga.cpp 179, 233)                                                *)
AtMostOnce ==
  \A h, g \in handed :
    h.rand \in quiet /\ h.rand = g.rand /\ h.autn = h.rand /\ g.autn = g.rand
      => h = g

(* Two requests that each began on a quiet object never get mixed up in    *)
(* what the enclave receives, and the enclave receives such a challenge    *)
(* only after srsUE announced it.  (usim.cc 317-323, host-fpga.cpp 165-179)*)
CleanHandover ==
  \A h \in handed :
    h.rand \in quiet /\ h.autn \in quiet => h.rand = h.autn /\ h.rand \in posted

(* While the response flag of an object is up, no vSIM is anywhere between *)
(* taking a command of that object and answering it: a flagged response    *)
(* is not being rewritten.  (host-fpga.cpp 140-148, 163, 235)              *)
FlaggedIsStable ==
  \A s \in Segments : auth_response_ready[s] => ~(HostBusy /\ hostMap = s)

(* What AuthService sees of a state: the quiet request srsUE is at, the    *)
(* quiet challenges an enclave was given whole, and those whose answer     *)
(* srsUE returned after it saw the flag.                                   *)
Asking   == IF uePc \notin {"off", "idle"} /\ ueChal \in quiet
            THEN ueChal ELSE Zero
Worked   == {c \in quiet : \E h \in handed : h.rand = c /\ h.autn = c}
Answered == {[chal |-> d.chal, resp |-> d.resp] :
               d \in {e \in done : e.seen /\ e.chal \in quiet}}

(* For the requests that begin on a quiet object the shared memory is as   *)
(* good as AuthService: asked, then worked on, once, then answered, and    *)
(* given up when srsUE stops waiting or dies.                              *)
(* (usim.cc 302-366, host-fpga.cpp 134-199, fpga-auth.c 69-141)            *)
Service == INSTANCE AuthService WITH
  Nobody <- Zero, asked <- quiet, pending <- Asking,
  worked <- Worked, answered <- Answered

Serves == Service!Spec

(* Every authentication srsUE starts comes to an end, whatever the vSIM    *)
(* does or fails to do: the wait is bounded.  (usim.cc 328-334)            *)
UeReturns == (uePc \notin {"off", "idle"}) ~> (uePc \in {"off", "idle"})

(* A command that a polling vSIM can see is answered: unless the vSIM is   *)
(* killed or out of memory, the flag is raised.                            *)
(* (host-fpga.cpp 153-199, fpga-auth.c 69-141, host-fpga.cpp 134-151)      *)
CommandServed ==
  \A s \in Segments :
    (hostPc = "poll" /\ hostMap = s /\ command_ready[s])
      ~> auth_response_ready[s]

-----------------------------------------------------------------------------
(***************************************************************************)
(* What comments and log lines of the code say and the code does not do.   *)
(***************************************************************************)

(* usim.cc 313: "Clear any previous authentication data", just before the  *)
(* challenge is written.                                                   *)
PreviousDataCleared ==
  uePc = "write_rand" =>
    ~auth_response_ready[ueMap] /\ response[ueMap] = NoAnswer

(* usim.cc 207: "Using vSIM for authentication (via Keystone TEE)": an     *)
(* authentication that succeeds this way was given to the vSIM.            *)
SuccessUsedVsim ==
  \A d \in done : d.via = "vsim" /\ d.result = "AUTH_OK" =>
    \E h \in handed : h.rand = d.chal /\ h.autn = d.chal

(* usim.c 202, usim.cc 472: "Compare AUTNs": a challenge whose AUTN does   *)
(* not verify does not authenticate.                                       *)
AutnCompared ==
  \A d \in done : d.result = "AUTH_OK" => d.chal \in GoodAutn

(* usim.cc 363: "Using cached vSIM results from previous initialization":  *)
(* a 5G authentication after the first of a run returns what the vSIM      *)
(* returned in that run.                                                   *)
VsimResultCached ==
  \A d, e \in done :
    d.run = e.run /\ e.via = "vsim" /\ e.result = "AUTH_OK" /\ d.via = "cached"
      => d.resp = e.resp

-----------------------------------------------------------------------------
(***************************************************************************)
(* The inductive invariant behind the properties (VsimAuthProofs).         *)
(***************************************************************************)

Announcing == uePc \in {"write_rand", "write_autn", "write_type", "post"}
Awaiting   == uePc \in {"wait", "read"}

(* Where the srsUE has got to in writing its challenge. *)
ChallengeWritten ==
  /\ uePc \in {"write_autn", "write_type", "post", "wait", "read"} =>
       rand_bytes[ueMap] = ueChal
  /\ uePc \in {"write_type", "post", "wait", "read"} =>
       autenb_bytes[ueMap] = ueChal
  /\ Announcing => ueChal \notin posted

(* A quiet request keeps its object quiet until it is announced. *)
StaysQuiet == Announcing /\ ueChal \in quiet => Quiet(ueMap)

(* What the vSIM holds while it works on an announced quiet request. *)
ServingInv ==
  Awaiting /\ ueChal \in quiet /\ hostMap = ueMap =>
    /\ hostPc \in {"copy_autn", "alloc", "enclave", "respond", "flag"} =>
         hostRand = ueChal
    /\ hostPc \in {"alloc", "enclave", "respond", "flag"} => hostAutn = ueChal
    /\ hostPc \in {"enclave", "respond", "flag"} => ~command_ready[ueMap]
    /\ hostPc \in {"respond", "flag"} => vsimResponse = Answer(ueChal)
    /\ hostPc = "respond" =>
         \A f \in Fields : f < hostField => response[ueMap][f] = ueChal
    /\ hostPc = "flag" => \A f \in Fields : response[ueMap][f] = ueChal

(* An announced quiet request whose flag is up, or was seen up, finds its  *)
(* own response in the object and nobody about to change it.               *)
AnsweredInv ==
  Awaiting /\ ueChal \in quiet =>
    /\ auth_response_ready[ueMap] \/ (uePc = "read" /\ ueSeen) =>
         /\ \A f \in Fields : response[ueMap][f] = ueChal
         /\ ~command_ready[ueMap]
         /\ ~(HostBusy /\ hostMap = ueMap)
    /\ uePc = "read" /\ ueSeen =>
         \A f \in Fields : f < ueField => ueResponse[f] = ueChal

(* Only challenges the network sent are in the memory or in a copy of it;  *)
(* a challenge is written to one object only.                              *)
ProvenanceInv ==
  /\ \A s \in Segments : /\ rand_bytes[s] \in sent \cup {Zero}
                         /\ autenb_bytes[s] \in sent \cup {Zero}
  /\ hostRand \in sent \cup {Zero} /\ hostAutn \in sent \cup {Zero}
  /\ \A h \in handed : h.rand \in sent \cup {Zero} /\ h.autn \in sent \cup {Zero}
  /\ \A s, t \in Segments :
       rand_bytes[s] = rand_bytes[t] /\ rand_bytes[s] # Zero => s = t
  /\ uePc = "write_rand" =>
       /\ \A s \in Segments : rand_bytes[s] # ueChal
       /\ hostRand # ueChal
       /\ \A h \in handed : h.rand # ueChal

(* A pending command whose RAND is that of a quiet request is whole. *)
PendingInv ==
  \A s \in Segments :
    command_ready[s] /\ rand_bytes[s] \in quiet =>
      autenb_bytes[s] = rand_bytes[s] /\ rand_bytes[s] \in posted

(* What the vSIM has copied so far of a challenge it has not handed over.  *)
CopyingInv ==
  /\ hostPc \in {"copy_rand", "copy_autn", "alloc"} => command_ready[hostMap]
  /\ hostPc \in {"copy_autn", "alloc"} =>
       \A s \in Segments :
         rand_bytes[s] = hostRand /\ hostRand # Zero => s = hostMap
  /\ hostPc = "copy_autn" /\ hostRand \in quiet =>
       /\ hostRand \in posted
       /\ \/ autenb_bytes[hostMap] = hostRand
          \/ autenb_bytes[hostMap] \notin quiet
  /\ hostPc = "alloc" /\ hostRand \in quiet /\ hostAutn \in quiet =>
       hostRand = hostAutn /\ hostRand \in posted

(* A quiet challenge the enclave has had is pending nowhere. *)
ConsumedInv ==
  \A h \in handed : h.rand \in quiet /\ h.autn = h.rand =>
    /\ \A s \in Segments : rand_bytes[s] = h.rand => ~command_ready[s]
    /\ hostPc \in {"copy_autn", "alloc"} => hostRand # h.rand

IInv ==
  /\ TypeOK
  /\ ChallengeWritten /\ StaysQuiet /\ ServingInv /\ AnsweredInv
  /\ ProvenanceInv /\ PendingInv /\ CopyingInv /\ ConsumedInv
  /\ FlaggedIsStable /\ OwnAnswer /\ CleanHandover /\ AtMostOnce
=============================================================================

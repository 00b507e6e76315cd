--------------------------- MODULE VsimAuthServes ---------------------------
(***************************************************************************)
(* The shared memory implements AuthService for the requests that begin on *)
(* a quiet object, for every choice of the constants of VsimAuth.          *)
(*                                                                         *)
(* IInv says what srsUE returns and that nothing is handed over twice.     *)
(* What it does not say is that an answer was worked for: HandedInv does.  *)
(*                                                                         *)
(* The second part counts: an authentication is a bounded number of steps  *)
(* of srsUE, the answer to a command a bounded number of steps of the      *)
(* vSIM.  The third says which requests are quiet, that is what the first  *)
(* is about, and the last how often one srsUE turns to the vSIM.           *)
(***************************************************************************)
EXTENDS VsimAuthProofs

(* The enclave was given challenge c whole. *)
Given(c) == \E h \in handed : h.rand = c /\ h.autn = c

(* A quiet request that is being answered, or is answered, has reached the *)
(* enclave.                                                                *)
HandedInv ==
  Awaiting /\ ueChal \in quiet =>
    /\ hostMap = ueMap /\ hostPc \in {"enclave", "respond", "flag"} =>
         Given(ueChal)
    /\ auth_response_ready[ueMap] => Given(ueChal)
    /\ uePc = "read" /\ ueSeen => Given(ueChal)

(* Between the hand-over and the flag the vSIM works on what it was given, *)
(* and srsUE raises command_ready only on an object without an answer.     *)
(* (host-fpga.cpp 134-188, usim.cc 322-334)                                *)
LEMMA HandedInvStep ==
  ASSUME IInv, HandedInv, Next
  PROVE  HandedInv'
<1> USE DEF HandedInv, Given, Awaiting, shmVars, hostVars, ueVars, histVars
<1>0. TypeOK /\ ServingInv /\ StaysQuiet
  BY DEF IInv
<1>1. CASE HostHandOver
  <2>1. ServingInv /\ ueSeen \in BOOLEAN
    BY <1>0 DEF TypeOK
  <2>2. Given(ueChal) => Given(ueChal)'
    BY <1>1 DEF HostHandOver
  <2>3. Awaiting /\ ueChal \in quiet /\ hostMap = ueMap => Given(ueChal)'
    <3> SUFFICES ASSUME Awaiting, ueChal \in quiet, hostMap = ueMap
                 PROVE  Given(ueChal)'
      OBVIOUS
    <3> DEFINE h == [run |-> hostRuns, rand |-> hostRand, autn |-> hostAutn]
    <3>1. h.rand = ueChal /\ h.autn = ueChal
      BY <1>1, <2>1 DEF HostHandOver, ServingInv
    <3>2. h \in handed' /\ UNCHANGED ueChal
      BY <1>1 DEF HostHandOver
    <3> QED
      BY <3>1, <3>2
  <2>4. UNCHANGED <<uePc, ueChal, quiet, ueMap, hostMap, ueSeen,
                    auth_response_ready>>
    BY <1>1 DEF HostHandOver
  <2> QED
    BY <1>1, <2>2, <2>3, <2>4 DEF HostHandOver
<1>2. CASE HostTruncate
  BY <1>2 DEF HostTruncate
<1>3. CASE HostClearCommand
  BY <1>3 DEF HostClearCommand
<1>4. CASE HostClearResponse
  BY <1>0, <1>4 DEF HostClearResponse, TypeOK
<1>5. CASE HostTakeCommand
  BY <1>0, <1>5 DEF HostTakeCommand, TypeOK
<1>6. CASE HostCopyRand
  BY <1>6 DEF HostCopyRand
<1>7. CASE HostCopyAutn
  BY <1>7 DEF HostCopyAutn
<1>8. CASE HostStart
  BY <1>8 DEF HostStart
<1>9. CASE HostAllocFails
  BY <1>9 DEF HostAllocFails
<1>10. CASE EnclaveCompute
  BY <1>10 DEF EnclaveCompute
<1>11. CASE HostWriteField
  BY <1>11 DEF HostWriteField
<1>12. CASE HostRaiseFlag
  BY <1>0, <1>12 DEF HostRaiseFlag, TypeOK
<1>13. CASE HostExit \/ HostKilled \/ HostCleanup
  BY <1>13 DEF HostExit, HostKilled, HostCleanup, HostGone
<1>14. CASE UePost
  BY <1>0, <1>14 DEF UePost, StaysQuiet, Announcing, Quiet, HostBusy
<1>15. CASE UeStopWaiting
  BY <1>15 DEF UeStopWaiting
<1>16. CASE UeWriteRand \/ UeWriteAutn \/ UeWriteType
  BY <1>16 DEF UeWriteRand, UeWriteAutn, UeWriteType
<1>17. CASE UePollAgain \/ UeReadField
  BY <1>17 DEF UePollAgain, UeReadField
<1>18. CASE UeReturn \/ UeSigbus \/ UeKilled \/ UeStart
  BY <1>18 DEF UeReturn, UeSigbus, UeKilled, UeGone, UeStart
<1>19. ASSUME NEW c \in Challenges,
              UeUnmapped(c) \/ UeRequest(c) \/ UeLocal(c) \/ UeCached(c)
       PROVE  HandedInv'
  BY <1>19 DEF UeUnmapped, UeRequest, UeLocal, UeCached
<1> QED
  BY <1>1, <1>2, <1>3, <1>4, <1>5, <1>6, <1>7, <1>8, <1>9, <1>10, <1>11,
     <1>12, <1>13, <1>14, <1>15, <1>16, <1>17, <1>18, <1>19
     DEF Next, HostStep, UeStep, Environment

-----------------------------------------------------------------------------
(* Nothing AuthService sees changes when these do not.                     *)
LEMMA SameView ==
  ASSUME UNCHANGED <<uePc, ueChal, quiet, handed, done>>
  PROVE  UNCHANGED Service!vars
  BY DEF Asking, Worked, Answered, Service!vars

(* Answers are those of quiet requests that saw the flag.                  *)
LEMMA AnsweredStays ==
  ASSUME NEW c, NEW via, NEW result, NEW resp, UNCHANGED quiet,
         Finish(c, via, result, FALSE, resp)
  PROVE  UNCHANGED Answered
<1>1. done' = done \cup {[chal |-> c, via |-> via, result |-> result,
                          seen |-> FALSE, resp |-> resp, run |-> ueRuns]}
  BY DEF Finish
<1>2. {e \in done' : e.seen /\ e.chal \in quiet}
        = {e \in done : e.seen /\ e.chal \in quiet}
  BY <1>1
<1> QED
  BY <1>2 DEF Answered

(* Each step of the vSIM is hidden, but for the hand-over of a quiet       *)
(* challenge, which is the work AuthService does once.                     *)
(* (host-fpga.cpp 153-199, 233-260)                                        *)
LEMMA VsimServes ==
  ASSUME IInv, VsimAction
  PROVE  [Service!Next]_(Service!vars)
<1>1. UNCHANGED <<ueVars, quiet, done>>
  BY VsimFrame
<1>2. CASE HostHandOver
  <2> DEFINE h == [run |-> hostRuns, rand |-> hostRand, autn |-> hostAutn]
  <2>1. handed' = handed \cup {h} /\ hostPc = "alloc"
    BY <1>2 DEF HostHandOver
  <2>2. UNCHANGED <<Asking, Answered>>
    BY <1>1 DEF ueVars, Asking, Answered
  <2>3. CASE hostRand = hostAutn /\ hostRand \in quiet
    <3>1. hostRand \in Challenges
      BY <2>3 DEF IInv, TypeOK
    <3>2. hostRand \in quiet \ Worked
      BY <2>1, <2>3 DEF IInv, ConsumedInv, Worked
    <3>3. Worked' = Worked \cup {hostRand}
      <4>1. h.rand = hostRand /\ h.autn = hostRand
        BY <2>3
      <4> HIDE DEF h
      <4> QED
        BY <1>1, <2>1, <2>3, <4>1 DEF Worked
    <3> QED
      BY <1>1, <2>2, <3>1, <3>2, <3>3 DEF Service!Next, Service!Work
  <2>4. CASE ~(hostRand = hostAutn /\ hostRand \in quiet)
    <3>1. Worked' = Worked
      BY <1>1, <2>1, <2>4 DEF Worked
    <3> QED
      BY <1>1, <2>2, <3>1 DEF Service!vars
  <2> QED
    BY <2>3, <2>4
<1>3. CASE ~HostHandOver
  <2>1. UNCHANGED handed
    BY <1>3 DEF VsimAction, HostStep, HostStart, HostTruncate,
       HostClearCommand, HostClearResponse, HostTakeCommand, HostCopyRand,
       HostCopyAutn, HostAllocFails, EnclaveCompute, HostWriteField,
       HostRaiseFlag, HostExit, HostKilled, HostCleanup, HostGone, histVars
  <2> QED
    BY <1>1, <2>1, SameView DEF ueVars
<1> QED
  BY <1>2, <1>3

(* srsUE asks when it begins a quiet request; it receives the answer it    *)
(* returns after it saw the flag, and gives up when it returns without, or *)
(* dies.  (usim.cc 302-366)                                                *)
LEMMA SrsUEServes ==
  ASSUME IInv, HandedInv, SrsUEAction
  PROVE  [Service!Next]_(Service!vars)
<1>0. TypeOK /\ UNCHANGED handed
  BY SrsUEFrame DEF IInv
<1>1. ASSUME NEW c \in Challenges, UeRequest(c)
      PROVE  [Service!Next]_(Service!vars)
  <2>1. /\ c \notin sent /\ c # Zero /\ uePc = "idle" /\ Asking = Zero
        /\ c \notin quiet /\ UNCHANGED done
    BY <1>0, <1>1, ConstantsAssumption DEF UeRequest, TypeOK, Asking
  <2>2. CASE Quiet(ueMap)
    <3>1. quiet' = quiet \cup {c} /\ Asking' = c
      BY <1>1, <2>2 DEF UeRequest, Asking
    <3>2. \A h \in handed : h.rand # c
      BY <2>1 DEF IInv, ProvenanceInv
    <3>3. UNCHANGED Worked
      BY <1>0, <3>1, <3>2 DEF Worked
    <3>4. \A d \in done : d.chal # c
      BY <1>0, <2>1 DEF TypeOK
    <3>5. {e \in done' : e.seen /\ e.chal \in quiet'}
            = {e \in done : e.seen /\ e.chal \in quiet}
      BY <2>1, <3>1, <3>4
    <3>6. UNCHANGED Answered
      BY <3>5 DEF Answered
    <3> QED
      BY <2>1, <3>1, <3>3, <3>6 DEF Service!Next, Service!Ask
  <2>3. CASE ~Quiet(ueMap)
    <3>1. UNCHANGED quiet /\ Asking' = Zero
      BY <1>1, <2>1, <2>3 DEF UeRequest, Asking
    <3> QED
      BY <1>0, <2>1, <3>1 DEF Worked, Answered, Service!vars
  <2> QED
    BY <2>2, <2>3
<1>2. CASE UeReturn
  <2>1. /\ uePc = "read" /\ ueField = IK + 1 /\ UNCHANGED quiet
        /\ Asking' = Zero /\ UNCHANGED Worked
        /\ Finish(ueChal, "vsim", "AUTH_OK", ueSeen, ueResponse)
    BY <1>0, <1>2 DEF UeReturn, Asking, Worked
  <2>2. CASE ueChal \in quiet /\ ueSeen
    <3> DEFINE d == [chal |-> ueChal, via |-> "vsim", result |-> "AUTH_OK",
                     seen |-> ueSeen, resp |-> ueResponse, run |-> ueRuns]
    <3>1. Asking = ueChal /\ ueChal \in Worked
      BY <2>1, <2>2 DEF Asking, Worked, HandedInv, Awaiting, Given
    <3>2. d \in done' /\ d.seen /\ d.via = "vsim" /\ ueChal \in quiet'
      BY <2>1, <2>2 DEF Finish
    <3>3. ueResponse = Answer(ueChal)
      <4>1. \A f \in Fields : ueResponse[f] = ueChal
        BY <2>1, <2>2 DEF IInv, AnsweredInv, Awaiting, Fields, RES, IK
      <4> QED
        BY <1>0, <4>1 DEF TypeOK, Answer, Milenage
    <3>4. {e \in done' : e.seen /\ e.chal \in quiet'}
            = {e \in done : e.seen /\ e.chal \in quiet} \cup {d}
      BY <2>1, <2>2 DEF Finish
    <3>5. d.chal = ueChal /\ d.resp = Answer(ueChal)
      BY <3>3
    <3> HIDE DEF d
    <3>6. Answered' = Answered \cup
                        {[chal |-> ueChal, resp |-> Answer(ueChal)]}
      BY <3>4, <3>5 DEF Answered
    <3> QED
      BY <2>1, <3>1, <3>6 DEF Service!Next, Service!Receive
  <2>3. CASE ~(ueChal \in quiet /\ ueSeen)
    <3>1. {e \in done' : e.seen /\ e.chal \in quiet'}
            = {e \in done : e.seen /\ e.chal \in quiet}
      BY <2>1, <2>3 DEF Finish
    <3>2. UNCHANGED Answered
      BY <3>1 DEF Answered
    <3> QED
      BY <2>1, <3>2 DEF Service!Next, Service!GiveUp, Service!vars
  <2> QED
    BY <2>2, <2>3
<1>3. CASE UeSigbus \/ UeKilled
  <2>1. UNCHANGED <<quiet, done>> /\ Asking' = Zero
    BY <1>3 DEF UeSigbus, UeKilled, UeGone, histVars, Asking
  <2>2. UNCHANGED <<Worked, Answered>>
    BY <1>0, <2>1 DEF Worked, Answered
  <2> QED
    BY <2>1, <2>2 DEF Service!Next, Service!GiveUp, Service!vars
<1>4. CASE UeStart
  <2>1. UNCHANGED <<quiet, done>> /\ Asking = Zero /\ Asking' = Zero
    BY <1>4 DEF UeStart, histVars, Asking
  <2> QED
    BY <1>0, <2>1 DEF Worked, Answered, Service!vars
<1>5. ASSUME NEW c \in Challenges, UeUnmapped(c) \/ UeLocal(c) \/ UeCached(c)
      PROVE  [Service!Next]_(Service!vars)
  <2>1. UNCHANGED <<uePc, ueChal, quiet, handed>>
    BY <1>5 DEF UeUnmapped, UeLocal, UeCached, ueVars
  <2>2. UNCHANGED Answered
    BY <1>5, <2>1, AnsweredStays DEF UeUnmapped, UeLocal, UeCached
  <2> QED
    BY <2>1, <2>2 DEF Asking, Worked, Service!vars
<1>6. CASE \/ UeWriteRand \/ UeWriteAutn \/ UeWriteType \/ UePost
           \/ UePollAgain \/ UeStopWaiting \/ UeReadField
  <2>1. /\ UNCHANGED <<ueChal, quiet, handed, done>>
        /\ uePc \notin {"off", "idle"} /\ uePc' \notin {"off", "idle"}
    BY <1>6 DEF UeWriteRand, UeWriteAutn, UeWriteType, UePost, UePollAgain,
       UeStopWaiting, UeReadField, histVars
  <2> QED
    BY <2>1 DEF Asking, Worked, Answered, Service!vars
<1> QED
  BY <1>1, <1>2, <1>3, <1>4, <1>5, <1>6 DEF SrsUEAction, UeStep

-----------------------------------------------------------------------------
(* The shared-memory exchange implements AuthService for the requests that *)
(* begin on a quiet object: whatever order the two processes run, die and  *)
(* start again in, such a request is worked on at most once, and answered  *)
(* only with its own answer, only after the work.                          *)
(* (usim.cc 302-366, host-fpga.cpp 134-199, fpga-auth.c 69-141)            *)
THEOREM ServesHolds == Spec => Serves
<1>1. Init => Service!Init /\ HandedInv
  BY DEF Init, Service!Init, Asking, Worked, Answered, HandedInv, Awaiting
<1>2. IInv /\ HandedInv /\ [Next]_vars => HandedInv'
  <2>1. ASSUME IInv, HandedInv, UNCHANGED vars PROVE HandedInv'
    BY <2>1 DEF HandedInv, Given, Awaiting, vars, shmVars, hostVars, ueVars,
       histVars
  <2> QED
    BY <2>1, HandedInvStep
<1>3. IInv /\ HandedInv /\ [Next]_vars => [Service!Next]_(Service!vars)
  <2>1. ASSUME UNCHANGED vars PROVE UNCHANGED Service!vars
    BY <2>1, SameView DEF vars, ueVars, histVars
  <2> QED
    BY <2>1, NextSplit, VsimServes, SrsUEServes
<1> QED
  BY <1>1, <1>2, <1>3, Invariance, PTL DEF Spec, Serves, Service!Spec

-----------------------------------------------------------------------------
(***************************************************************************)
(* What the liveness properties of VsimAuth rest on besides fairness: how  *)
(* many steps each process has yet to take, and that none is taken back.   *)
(***************************************************************************)

UeAtRest == uePc \in {"off", "idle"}

(* The steps srsUE has yet to take until the authentication returns *)
UeLeft ==
  CASE uePc = "write_rand" -> TIMEOUT_SECONDS + 10
    [] uePc = "write_autn" -> TIMEOUT_SECONDS + 9
    [] uePc = "write_type" -> TIMEOUT_SECONDS + 8
    [] uePc = "post"       -> TIMEOUT_SECONDS + 7
    [] uePc = "wait"       -> (TIMEOUT_SECONDS - wait_time) + 6
    [] uePc = "read"       -> (IK + 2) - ueField
    [] OTHER               -> 0

(* An authentication that has not returned has a step left, and never more *)
(* than TIMEOUT_SECONDS + 10.  (usim.cc 317-347)                           *)
EndIsNear == UeLeft \in 0 .. TIMEOUT_SECONDS + 10 /\ (UeLeft = 0 <=> UeAtRest)

(* Whatever the vSIM does, a step of srsUE brings its return closer.       *)
(* (usim.cc 317-347)                                                       *)
EveryStepCounts == [][~UeAtRest => UNCHANGED ueVars \/ UeLeft' < UeLeft]_vars

LEMMA NearerEnd ==
  ASSUME TypeOK
  PROVE  EndIsNear
<1> USE ConstantsAssumption DEF TypeOK, UePcs, RES, IK
<1>1. TIMEOUT_SECONDS \in Nat /\ wait_time \in Nat /\ wait_time <= TIMEOUT_SECONDS
      /\ ueField \in 1 .. 5
  OBVIOUS
<1>2. CASE uePc \in {"off", "idle"}
  BY <1>1, <1>2 DEF EndIsNear, UeLeft, UeAtRest
<1>3. CASE uePc = "wait"
  BY <1>1, <1>3 DEF EndIsNear, UeLeft, UeAtRest
<1>4. CASE uePc = "read"
  BY <1>1, <1>4 DEF EndIsNear, UeLeft, UeAtRest
<1>5. CASE uePc \in {"write_rand", "write_autn", "write_type", "post"}
  BY <1>1, <1>5 DEF EndIsNear, UeLeft, UeAtRest
<1> QED
  BY <1>2, <1>3, <1>4, <1>5

LEMMA UeStepCounts ==
  ASSUME TypeOK, Next, ~UeAtRest
  PROVE  UNCHANGED ueVars \/ UeLeft' < UeLeft
<1> USE ConstantsAssumption DEF UeLeft, UeAtRest, RES, IK
<1>1. TIMEOUT_SECONDS \in Nat /\ wait_time \in Nat /\ wait_time <= TIMEOUT_SECONDS
      /\ ueField \in 1 .. 5
  BY DEF TypeOK
<1>2. CASE VsimAction
  BY <1>2, VsimFrame
<1>3. CASE UeWriteRand
  BY <1>1, <1>3 DEF UeWriteRand
<1>4. CASE UeWriteAutn
  BY <1>1, <1>4 DEF UeWriteAutn
<1>5. CASE UeWriteType
  BY <1>1, <1>5 DEF UeWriteType
<1>6. CASE UePost
  BY <1>1, <1>6 DEF UePost
<1>7. CASE UePollAgain
  BY <1>1, <1>7 DEF UePollAgain
<1>8. CASE UeStopWaiting
  BY <1>1, <1>8 DEF UeStopWaiting
<1>9. CASE UeReadField
  BY <1>1, <1>9 DEF UeReadField
<1>10. CASE UeReturn \/ UeSigbus \/ UeKilled
  <2>1. UeLeft' = 0
    BY <1>10 DEF UeReturn, UeSigbus, UeKilled, UeGone
  <2>2. EndIsNear
    BY NearerEnd
  <2> QED
    BY <2>1, <2>2 DEF EndIsNear
<1>11. ~(UeStart \/ \E c \in Challenges :
           UeUnmapped(c) \/ UeRequest(c) \/ UeLocal(c) \/ UeCached(c))
  BY DEF UeStart, UeUnmapped, UeRequest, UeLocal, UeCached
<1> QED
  BY <1>2, <1>3, <1>4, <1>5, <1>6, <1>7, <1>8, <1>9, <1>10, <1>11, NextSplit
     DEF SrsUEAction, UeStep

(* An authentication returns after TIMEOUT_SECONDS + 10 steps of srsUE at  *)
(* most, for any number of polls, with or without a vSIM: what UeReturns   *)
(* needs besides fairness.  (usim.cc 317-347)                              *)
THEOREM AuthenticationEnds == Spec => []EndIsNear /\ EveryStepCounts
<1>1. TypeOK => EndIsNear
  BY NearerEnd
<1>2. TypeOK /\ [Next]_vars =>
        [~UeAtRest => UNCHANGED ueVars \/ UeLeft' < UeLeft]_vars
  BY UeStepCounts
<1> QED
  BY <1>1, <1>2, TypeCorrect, PTL DEF Spec, EveryStepCounts

-----------------------------------------------------------------------------
(* The vSIM can see a command in object s, or is at work on one. *)
Pending(s) ==
  hostMap = s /\ (HostBusy \/ (hostPc = "poll" /\ command_ready[s]))

(* The steps the vSIM has yet to take until the flag is up *)
VsimLeft ==
  CASE hostPc = "poll"      -> 10
    [] hostPc = "copy_rand" -> 9
    [] hostPc = "copy_autn" -> 8
    [] hostPc = "alloc"     -> 7
    [] hostPc = "enclave"   -> 6
    [] hostPc = "respond"   -> (IK + 2) - hostField
    [] OTHER                -> 1

(* A command is of the type the vSIM takes: srsUE writes the type first.   *)
(* (usim.cc 322-323, host-fpga.cpp 158-161)                                *)
CommandTyped ==
  /\ \A s \in Segments :
       command_ready[s] => command_type[s] = "CMD_AUTHENTICATE"
  /\ uePc = "post" => command_type[ueMap] = "CMD_AUTHENTICATE"

(* The vSIM never loses a command: with every step of its own it is closer *)
(* to the flag, until the flag is up.  It starts again only when there is  *)
(* no memory for the challenge, and gives up only when it dies.            *)
(* (host-fpga.cpp 134-199)                                                 *)
CommandKept ==
  [][\A s \in Segments : Pending(s) =>
       \/ /\ Pending(s)'
          /\ UNCHANGED hostVars \/ VsimLeft' < VsimLeft \/ HostAllocFails
       \/ auth_response_ready'[s]
       \/ HostKilled \/ HostCleanup]_vars

LEMMA CommandTypedStep ==
  ASSUME TypeOK, CommandTyped, Next
  PROVE  CommandTyped'
<1>1. CASE VsimAction
  <2>1. /\ UNCHANGED <<command_type, uePc, ueMap>>
        /\ \A s \in Segments : command_ready'[s] => command_ready[s]
    <3>1. \/ UNCHANGED command_ready
          \/ command_ready' = [command_ready EXCEPT ![hostMap] = FALSE]
      BY <1>1 DEF VsimAction, HostStep, HostStart, HostTruncate,
         HostClearCommand, HostClearResponse, HostTakeCommand, HostCopyRand,
         HostCopyAutn, HostHandOver, HostAllocFails, EnclaveCompute,
         HostWriteField, HostRaiseFlag, HostExit, HostKilled, HostCleanup,
         HostGone, shmVars
    <3>2. \A s \in Segments : command_ready'[s] => command_ready[s]
      BY <3>1 DEF TypeOK
    <3> QED
      BY <1>1, <3>2, VsimFrame DEF ueVars
  <2> QED
    BY <2>1 DEF CommandTyped
<1>2. CASE UeWriteType
  BY <1>2 DEF UeWriteType, CommandTyped, TypeOK
<1>3. CASE UePost
  BY <1>3 DEF UePost, CommandTyped, TypeOK
<1>4. CASE SrsUEAction /\ ~UeWriteType /\ ~UePost
  <2>1. UNCHANGED <<command_type, command_ready>> /\ uePc' # "post"
    BY <1>4 DEF SrsUEAction, UeStep, UeStart, UeUnmapped, UeRequest,
       UeWriteRand, UeWriteAutn, UePollAgain, UeStopWaiting, UeReadField,
       UeReturn, UeLocal, UeCached, UeSigbus, UeKilled, UeGone, shmVars,
       ueVars
  <2> QED
    BY <2>1 DEF CommandTyped
<1> QED
  BY <1>1, <1>2, <1>3, <1>4, NextSplit

LEMMA PendingStep ==
  ASSUME TypeOK, CopyingInv, Next, NEW s \in Segments, Pending(s)
  PROVE  \/ /\ Pending(s)'
            /\ UNCHANGED hostVars \/ VsimLeft' < VsimLeft \/ HostAllocFails
         \/ auth_response_ready'[s]
         \/ HostKilled \/ HostCleanup
<1> USE DEF Pending, VsimLeft, HostBusy, RES, IK
<1>1. CASE SrsUEAction
  <2>1. UNCHANGED hostVars
    BY <1>1, SrsUEFrame
  <2>2. command_ready[s] => command_ready'[s]
    <3>1. \/ UNCHANGED command_ready
          \/ command_ready' = [command_ready EXCEPT ![ueMap] = TRUE]
      BY <1>1 DEF SrsUEAction, UeStep, UeStart, UeUnmapped, UeRequest,
         UeWriteRand, UeWriteAutn, UeWriteType, UePost, UePollAgain,
         UeStopWaiting, UeReadField, UeReturn, UeLocal, UeCached, UeSigbus,
         UeKilled, UeGone, shmVars
    <3> QED
      BY <3>1 DEF TypeOK
  <2> QED
    BY <2>1, <2>2 DEF hostVars
<1>2. CASE HostTakeCommand
  BY <1>2 DEF HostTakeCommand
<1>3. CASE HostCopyRand
  BY <1>3 DEF HostCopyRand
<1>4. CASE HostCopyAutn
  BY <1>4 DEF HostCopyAutn
<1>5. CASE HostHandOver
  BY <1>5 DEF HostHandOver
<1>6. CASE EnclaveCompute
  BY <1>6 DEF EnclaveCompute
<1>7. CASE HostWriteField
  <2>1. hostField \in 1 .. 4
    BY <1>7 DEF HostWriteField, TypeOK, Fields
  <2> QED
    BY <1>7, <2>1 DEF HostWriteField
<1>8. CASE HostRaiseFlag
  BY <1>8 DEF HostRaiseFlag, TypeOK
<1>9. ~(HostStart \/ HostTruncate \/ HostClearCommand \/ HostClearResponse \/ HostExit)
  BY DEF HostStart, HostTruncate, HostClearCommand, HostClearResponse,
     HostExit
<1>10. CASE HostAllocFails
  <2>1. command_ready[s]
    BY <1>10 DEF HostAllocFails, CopyingInv
  <2> QED
    BY <1>10, <2>1 DEF HostAllocFails, shmVars
<1> QED
  BY <1>1, <1>2, <1>3, <1>4, <1>5, <1>6, <1>7, <1>8, <1>9, <1>10, NextSplit
     DEF VsimAction, HostStep

(* A command that a polling vSIM can see is taken, and from then on the    *)
(* vSIM is some ten steps from the flag, of which it takes back none       *)
(* unless it runs out of memory: what CommandServed needs besides          *)
(* fairness.  (host-fpga.cpp 134-199, fpga-auth.c 69-141)                  *)
THEOREM CommandKeptHolds == Spec => []CommandTyped /\ CommandKept
<1> DEFINE Kept(s) ==
      \/ /\ Pending(s)'
         /\ UNCHANGED hostVars \/ VsimLeft' < VsimLeft \/ HostAllocFails
      \/ auth_response_ready'[s]
      \/ HostKilled \/ HostCleanup
<1>1. Init => CommandTyped
  BY DEF Init, CommandTyped
<1>2. IInv /\ CommandTyped /\ [Next]_vars => CommandTyped'
  <2>1. ASSUME CommandTyped, UNCHANGED vars PROVE CommandTyped'
    BY <2>1 DEF CommandTyped, vars, shmVars, ueVars
  <2> QED
    BY <2>1, CommandTypedStep DEF IInv
<1>3. IInv /\ [Next]_vars => [\A s \in Segments : Pending(s) => Kept(s)]_vars
  BY PendingStep DEF IInv
<1> QED
  BY <1>1, <1>2, <1>3, Invariance, PTL DEF Spec, CommandKept

-----------------------------------------------------------------------------
(***************************************************************************)
(* Which requests are quiet.  The first announced one always is; every one *)
(* is, and the log lines of usim.cc hold that runs of the model refute,    *)
(* as long as no srsUE is killed: the violations need the object that an   *)
(* earlier srsUE left in use.                                              *)
(***************************************************************************)

(* Before the first challenge is announced no flag is up, no response is   *)
(* written and no vSIM has anything to do.                                 *)
(* (host-fpga.cpp 158-163, usim.cc 313-323)                                *)
Untouched ==
  posted = {} =>
    /\ \A s \in Segments : /\ ~command_ready[s] /\ ~auth_response_ready[s]
                           /\ response[s] = NoAnswer
    /\ ~HostBusy

(* An answer that srsUE returns to a quiet request, having seen the flag,  *)
(* is that of a challenge the enclave was given whole.                     *)
(* (usim.cc 328-347, host-fpga.cpp 134-188)                                *)
SeenIsGiven == \A d \in done : d.seen /\ d.chal \in quiet => Given(d.chal)

(* One srsUE announces one challenge: it waits for the response and then   *)
(* computes by itself.  (usim.cc 302, 323-350, 362-365)                    *)
OneRequest ==
  /\ posted # {} => Awaiting \/ (uePc = "idle" /\ fpga_initialized)
  /\ ~UeAtRest => ueChal \in quiet
  /\ \A d \in done : d.seen => d.chal \in quiet

(* An authentication that saw the flag was given to the vSIM and returns   *)
(* the response to its own challenge.  (usim.cc 207, 316-347)              *)
SeenIsAnswered ==
  \A d \in done :
    d.via = "vsim" /\ d.seen => Given(d.chal) /\ d.resp = Answer(d.chal)

(* How an authentication ends that the vSIM had a part in.                 *)
ByVsim == [chal |-> ueChal, via |-> "vsim", result |-> "AUTH_OK",
           seen |-> ueSeen, resp |-> ueResponse, run |-> ueRuns]

(* It succeeded, whatever was read. *)
FromVsim(d) == d.via = "vsim" /\ d.result = "AUTH_OK"

(* Only a return from the wait has seen a flag or succeeds by the vSIM.    *)
(* (usim.cc 308-311, 328-350, 362-365)                                     *)
LEMMA HowItEnds ==
  ASSUME Next, NEW d \in done'
  PROVE  \/ d \in done
         \/ UeReturn /\ d = ByVsim
         \/ /\ ~d.seen /\ ~FromVsim(d) /\ d.run = ueRuns
            /\ d.via = "cached" => fpga_initialized
<1>1. ASSUME UNCHANGED done PROVE d \in done
  BY <1>1
<1>2. CASE VsimAction
  BY <1>1, <1>2, VsimFrame
<1>3. CASE UeReturn
  BY <1>3 DEF UeReturn, Finish, ByVsim
<1>4. ASSUME NEW c \in Challenges, UeUnmapped(c) \/ UeLocal(c) \/ UeCached(c)
      PROVE  \/ d \in done
             \/ /\ ~d.seen /\ ~FromVsim(d) /\ d.run = ueRuns
                /\ d.via = "cached" => fpga_initialized
  BY <1>4 DEF UeUnmapped, UeLocal, UeCached, Finish, FromVsim
<1>5. CASE SrsUEAction /\ ~UeReturn
            /\ ~\E c \in Challenges : UeUnmapped(c) \/ UeLocal(c) \/ UeCached(c)
  <2>1. UNCHANGED done
    BY <1>5 DEF SrsUEAction, UeStep, UeStart, UeRequest, UeWriteRand,
       UeWriteAutn, UeWriteType, UePost, UePollAgain, UeStopWaiting,
       UeReadField, UeSigbus, UeKilled, UeGone, histVars
  <2> QED
    BY <1>1, <2>1
<1> QED
  BY <1>2, <1>3, <1>4, <1>5, NextSplit

(* Only srsUE's announcement raises command_ready, and without one the     *)
(* vSIM keeps polling.                                                     *)
LEMMA UntouchedStep ==
  ASSUME TypeOK, Untouched, Next
  PROVE  Untouched'
<1> USE DEF Untouched, HostBusy
<1>1. CASE SrsUEAction
  <2>1. CASE UePost
    BY <2>1 DEF UePost
  <2>2. CASE ~UePost
    <3>1. UNCHANGED <<posted, command_ready>>
      BY <1>1, <2>2 DEF SrsUEAction, UeStep, UeStart, UeUnmapped, UeRequest,
         UeWriteRand, UeWriteAutn, UeWriteType, UePollAgain, UeStopWaiting,
         UeReadField, UeReturn, UeLocal, UeCached, UeSigbus, UeKilled,
         UeGone, shmVars, histVars
    <3> QED
      BY <1>1, <3>1, SrsUEFrame DEF hostVars
  <2> QED
    BY <2>1, <2>2
<1>2. CASE VsimAction
  <2>1. UNCHANGED posted
    BY <1>2, VsimFrame
  <2>2. CASE HostClearCommand
    BY <2>1, <2>2 DEF HostClearCommand, TypeOK
  <2>3. CASE HostClearResponse
    BY <2>1, <2>3 DEF HostClearResponse, TypeOK
  <2>4. CASE HostTakeCommand
    BY <2>1, <2>4 DEF HostTakeCommand, TypeOK
  <2>5. CASE HostBusy
    BY <2>1, <2>5
  <2>6. CASE ~HostBusy /\ ~(HostClearCommand \/ HostClearResponse \/ HostTakeCommand)
    <3>1. UNCHANGED <<command_ready, auth_response_ready, response>>
          /\ ~HostBusy'
      BY <1>2, <2>6 DEF VsimAction, HostStep, HostStart, HostTruncate,
         HostCopyRand, HostCopyAutn, HostHandOver, HostAllocFails,
         EnclaveCompute, HostWriteField, HostRaiseFlag, HostExit, HostKilled,
         HostCleanup, HostGone
    <3> QED
      BY <2>1, <3>1
  <2> QED
    BY <2>2, <2>3, <2>4, <2>5, <2>6
<1> QED
  BY <1>1, <1>2, NextSplit

LEMMA SeenIsGivenStep ==
  ASSUME IInv, HandedInv, SeenIsGiven, Next
  PROVE  SeenIsGiven'
<1>1. ASSUME NEW c, Given(c) PROVE Given(c)'
  <2>1. handed \subseteq handed'
    <3>1. CASE SrsUEAction
      BY <3>1, SrsUEFrame
    <3>2. CASE VsimAction
      BY <3>2 DEF VsimAction, HostStep, HostStart, HostTruncate,
         HostClearCommand, HostClearResponse, HostTakeCommand, HostCopyRand,
         HostCopyAutn, HostHandOver, HostAllocFails, EnclaveCompute,
         HostWriteField, HostRaiseFlag, HostExit, HostKilled, HostCleanup,
         HostGone, histVars
    <3> QED
      BY <3>1, <3>2, NextSplit
  <2> QED
    BY <1>1, <2>1 DEF Given
<1>2. ASSUME NEW d \in done, d.chal \in quiet' PROVE d.chal \in quiet
  <2>1. d.chal \in sent
    BY DEF IInv, TypeOK
  <2>2. CASE VsimAction
    BY <1>2, <2>2, VsimFrame
  <2>3. ASSUME NEW c \in Challenges, UeRequest(c) PROVE d.chal \in quiet
    BY <1>2, <2>1, <2>3 DEF UeRequest
  <2>4. CASE SrsUEAction /\ ~\E c \in Challenges : UeRequest(c)
    <3>1. UNCHANGED quiet
      BY <2>4 DEF SrsUEAction, UeStep, UeStart, UeUnmapped, UeWriteRand,
         UeWriteAutn, UeWriteType, UePost, UePollAgain, UeStopWaiting,
         UeReadField, UeReturn, UeLocal, UeCached, UeSigbus, UeKilled,
         UeGone, histVars
    <3> QED
      BY <1>2, <3>1
  <2> QED
    BY <2>2, <2>3, <2>4, NextSplit
<1>3. ASSUME NEW d \in done', d.seen, d.chal \in quiet', UeReturn, d = ByVsim
      PROVE  Given(d.chal)
  <2>1. d.chal = ueChal /\ d.seen = ueSeen
    BY <1>3 DEF ByVsim
  <2>2. uePc = "read" /\ UNCHANGED quiet
    BY <1>3 DEF UeReturn
  <2> QED
    BY <1>3, <2>1, <2>2 DEF HandedInv, Awaiting
<1>4. SUFFICES ASSUME NEW d \in done', d.seen, d.chal \in quiet'
               PROVE  Given(d.chal)
  BY <1>1 DEF SeenIsGiven
<1>5. CASE d \in done
  BY <1>2, <1>4, <1>5 DEF SeenIsGiven
<1> QED
  BY <1>3, <1>4, <1>5, HowItEnds
LEMMA OneRequestStep ==
  ASSUME "kill_ue" \notin Faults, TypeOK, Untouched, OneRequest, Next
  PROVE  OneRequest'
<1> USE DEF Awaiting, UeAtRest
<1>1. ASSUME NEW c \in Challenges, UeRequest(c) PROVE OneRequest'
  <2>1. /\ posted = {} /\ posted' = {} /\ UNCHANGED done
        /\ ueMap \in Segments /\ ueChal' = c
    BY <1>1 DEF UeRequest, OneRequest, TypeOK, NoSegment
  <2>2. Quiet(ueMap)
    BY <2>1 DEF Untouched, Quiet
  <2>3. quiet' = quiet \cup {c}
    BY <1>1, <2>2 DEF UeRequest
  <2> QED
    BY <2>1, <2>3 DEF OneRequest
<1>2. CASE UeReturn
  <2>1. /\ uePc = "read" /\ ueChal \in quiet /\ UNCHANGED quiet
        /\ uePc' = "idle" /\ fpga_initialized'
    BY <1>2 DEF UeReturn, OneRequest
  <2>2. \A d \in done' : d \in done \/ d.chal = ueChal
    BY <1>2 DEF UeReturn, Finish
  <2> QED
    BY <2>1, <2>2 DEF OneRequest
<1>3. ASSUME ~UeReturn, UNCHANGED quiet
      PROVE  \A d \in done' : d.seen => d.chal \in quiet'
  BY <1>3, HowItEnds DEF OneRequest
<1>4. CASE VsimAction
  <2>1. ~UeReturn
    BY <1>4, VsimFrame DEF UeReturn, ueVars
  <2> QED
    BY <1>3, <1>4, <2>1, VsimFrame DEF OneRequest, ueVars
<1>5. CASE UePost
  <2>1. ~UeReturn /\ UNCHANGED quiet
    BY <1>5 DEF UePost, UeReturn
  <2> QED
    BY <1>3, <1>5, <2>1 DEF UePost, OneRequest
<1>6. ASSUME NEW c \in Challenges, UeUnmapped(c) \/ UeLocal(c) \/ UeCached(c)
      PROVE  OneRequest'
  <2>1. ~UeReturn /\ UNCHANGED <<uePc, fpga_initialized, ueChal, posted, quiet>>
    BY <1>6 DEF UeUnmapped, UeLocal, UeCached, UeReturn, ueVars
  <2> QED
    BY <1>3, <2>1 DEF OneRequest
<1>7. CASE UeWriteRand \/ UeWriteAutn \/ UeWriteType
  <2>1. /\ ~UeReturn /\ UNCHANGED <<ueChal, posted, quiet>>
        /\ uePc \in {"write_rand", "write_autn", "write_type"}
    BY <1>7 DEF UeWriteRand, UeWriteAutn, UeWriteType, UeReturn, histVars
  <2>2. posted = {} /\ ueChal \in quiet
    BY <2>1 DEF OneRequest
  <2> QED
    BY <1>3, <2>1, <2>2 DEF OneRequest
<1>8. CASE UePollAgain \/ UeStopWaiting \/ UeReadField
  <2>1. /\ UNCHANGED <<ueChal, posted, quiet, done>>
        /\ uePc \in {"wait", "read"} /\ uePc' \in {"wait", "read"}
    BY <1>8 DEF UePollAgain, UeStopWaiting, UeReadField, histVars
  <2> QED
    BY <2>1 DEF OneRequest
<1>9. CASE UeSigbus \/ UeStart
  <2>1. /\ UNCHANGED <<posted, quiet, done>>
        /\ uePc \in {"write_rand", "off"} /\ uePc' \in {"idle", "off"}
    BY <1>9 DEF UeSigbus, UeStart, UeGone, histVars
  <2> QED
    BY <2>1 DEF OneRequest
<1>10. ~UeKilled
  BY DEF UeKilled
<1> QED
  BY <1>1, <1>2, <1>4, <1>5, <1>6, <1>7, <1>8, <1>9, <1>10, NextSplit
     DEF SrsUEAction, UeStep

-----------------------------------------------------------------------------
(* Until srsUE has announced a challenge the memory holds no data of an    *)
(* earlier one, as the comment of usim.cc 313 has it, although nothing     *)
(* clears any: so the first request announced is quiet, whatever the vSIM  *)
(* does.  (usim.cc 313-323, host-fpga.cpp 158-163, 233-235)                *)
THEOREM UntouchedHolds ==
  Spec => [](Untouched /\ (posted = {} => PreviousDataCleared))
<1>1. Init => Untouched
  BY DEF Init, Untouched, HostBusy
<1>2. TypeOK /\ Untouched /\ [Next]_vars => Untouched'
  <2>1. ASSUME Untouched, UNCHANGED vars PROVE Untouched'
    BY <2>1 DEF Untouched, HostBusy, vars, shmVars, hostVars, histVars
  <2> QED
    BY <2>1, UntouchedStep
<1>3. TypeOK /\ Untouched => (posted = {} => PreviousDataCleared)
  BY DEF Untouched, PreviousDataCleared, TypeOK, NoSegment
<1> QED
  BY <1>1, <1>2, <1>3, TypeCorrect, PTL DEF Spec

(* What srsUE returns for a quiet request whose flag it saw is the answer  *)
(* to a challenge the enclave was given whole: for these the claim of      *)
(* usim.cc 207, "Using vSIM for authentication", is true; the run          *)
(* auth_timeout_ok needs one that saw no flag.                             *)
(* (usim.cc 207, 328-347, host-fpga.cpp 134-188)                           *)
THEOREM SeenIsGivenHolds == Spec => []SeenIsGiven
<1>1. Init => HandedInv /\ SeenIsGiven
  BY DEF Init, HandedInv, Awaiting, SeenIsGiven
<1>2. IInv /\ HandedInv /\ SeenIsGiven /\ [Next]_vars =>
        HandedInv' /\ SeenIsGiven'
  <2>1. ASSUME HandedInv, UNCHANGED vars PROVE HandedInv'
    BY <2>1 DEF HandedInv, Given, Awaiting, vars, shmVars, hostVars, ueVars,
       histVars
  <2>2. ASSUME SeenIsGiven, UNCHANGED vars PROVE SeenIsGiven'
    BY <2>2 DEF SeenIsGiven, Given, vars, histVars
  <2> QED
    BY <2>1, <2>2, HandedInvStep, SeenIsGivenStep
<1> QED
  BY <1>1, <1>2, Invariance, PTL DEF Spec

(* As long as no srsUE is killed every request is quiet, because one srsUE *)
(* announces one challenge only: the previous data is cleared whenever     *)
(* usim.cc 313 says so, and every authentication that saw the flag was     *)
(* given to the vSIM and returns the response to its own challenge,        *)
(* whatever becomes of the vSIM.                                           *)
(* (usim.cc 302, 313-350, 362-365, host-fpga.cpp 134-199)                  *)
THEOREM UndisturbedRequests ==
  ASSUME "kill_ue" \notin Faults
  PROVE  Spec => [](OneRequest /\ PreviousDataCleared /\ SeenIsAnswered)
<1>1. Init => OneRequest
  BY DEF Init, OneRequest, UeAtRest
<1>2. TypeOK /\ Untouched /\ OneRequest /\ [Next]_vars => OneRequest'
  <2>1. ASSUME OneRequest, UNCHANGED vars PROVE OneRequest'
    BY <2>1 DEF OneRequest, UeAtRest, Awaiting, vars, ueVars, histVars
  <2> QED
    BY <2>1, OneRequestStep
<1>3. OneRequest /\ (posted = {} => PreviousDataCleared) => PreviousDataCleared
  BY DEF OneRequest, PreviousDataCleared, Awaiting
<1>4. OneRequest /\ IInv /\ SeenIsGiven => SeenIsAnswered
  BY DEF OneRequest, SeenIsGiven, SeenIsAnswered, IInv, OwnAnswer
<1> QED
  BY <1>1, <1>2, <1>3, <1>4, Invariance, TypeCorrect, UntouchedHolds,
     SeenIsGivenHolds, PTL DEF Spec

-----------------------------------------------------------------------------
(* One srsUE takes one response from the vSIM, and computes by itself only *)
(* after that one.  (usim.cc 302, 350, 362-365)                            *)
OncePerRun ==
  /\ \A d, e \in done : FromVsim(d) /\ FromVsim(e) /\ d.run = e.run => d = e
  /\ \A d \in done : d.via = "cached" =>
       \E e \in done : FromVsim(e) /\ e.run = d.run

(* fpga_initialized tells whether the running srsUE has had its response.  *)
RunInv ==
  /\ \A d \in done : d.run <= ueRuns
  /\ ~UeAtRest => ~fpga_initialized
  /\ fpga_initialized <=> \E d \in done : FromVsim(d) /\ d.run = ueRuns

LEMMA OncePerRunStep ==
  ASSUME TypeOK, RunInv, OncePerRun, Next
  PROVE  RunInv' /\ OncePerRun'
<1>0. ueRuns \in Nat /\ \A d \in done : d.run \in Nat
  BY ConstantsAssumption DEF TypeOK
<1>1. done \subseteq done'
  <2>1. CASE VsimAction
    BY <2>1, VsimFrame
  <2>2. CASE SrsUEAction
    BY <2>2 DEF SrsUEAction, UeStep, UeStart, UeUnmapped, UeRequest,
       UeWriteRand, UeWriteAutn, UeWriteType, UePost, UePollAgain,
       UeStopWaiting, UeReadField, UeReturn, UeLocal, UeCached, UeSigbus,
       UeKilled, UeGone, Finish, histVars
  <2> QED
    BY <2>1, <2>2, NextSplit
<1>2. CASE UeReturn
  <2>1. /\ uePc = "read" /\ uePc' = "idle" /\ fpga_initialized'
        /\ UNCHANGED ueRuns /\ done' = done \cup {ByVsim}
    BY <1>2 DEF UeReturn, Finish, ByVsim
  <2>2. FromVsim(ByVsim) /\ ByVsim.run = ueRuns /\ ByVsim.via # "cached"
    BY DEF FromVsim, ByVsim
  <2>3. \A d \in done : ~(FromVsim(d) /\ d.run = ueRuns)
    BY <2>1 DEF RunInv, UeAtRest
  <2>4. RunInv'
    BY <1>0, <2>1, <2>2 DEF RunInv, UeAtRest, FromVsim
  <2>5. OncePerRun'
    BY <2>1, <2>2, <2>3 DEF OncePerRun, FromVsim
  <2> QED
    BY <2>4, <2>5
<1>3. ASSUME ~UeReturn
      PROVE  OncePerRun'
  <2>1. \A d \in done' : FromVsim(d) => d \in done
    BY <1>3, HowItEnds
  <2>2. \A d \in done' : d.via = "cached" =>
          \E e \in done : FromVsim(e) /\ e.run = d.run
    BY <1>3, HowItEnds DEF RunInv, OncePerRun
  <2> QED
    BY <1>1, <2>1, <2>2 DEF OncePerRun, FromVsim
<1>4. CASE UeStart
  <2>1. /\ uePc' = "idle" /\ ~fpga_initialized' /\ ueRuns' = ueRuns + 1
        /\ UNCHANGED done
    BY <1>4 DEF UeStart, histVars
  <2>2. \A d \in done : d.run < ueRuns'
    BY <1>0, <2>1 DEF RunInv
  <2>3. \A d \in done : d.run <= ueRuns' /\ d.run # ueRuns'
    BY <1>0, <2>1, <2>2
  <2>4. RunInv'
    BY <2>1, <2>3 DEF RunInv, UeAtRest
  <2>5. ~UeReturn
    BY <1>4 DEF UeStart, UeReturn
  <2> QED
    BY <1>3, <2>4, <2>5
<1>5. ASSUME UNCHANGED <<ueRuns, fpga_initialized>>, ~UeReturn,
             ~UeAtRest' => ~fpga_initialized
      PROVE  RunInv' /\ OncePerRun'
  <2>1. \A d \in done' : d \in done \/ (~FromVsim(d) /\ d.run = ueRuns)
    BY <1>5, HowItEnds
  <2>2. \A d \in done' : d.run <= ueRuns
    BY <1>0, <2>1 DEF RunInv
  <2>3. (\E d \in done' : FromVsim(d) /\ d.run = ueRuns)
          <=> (\E d \in done : FromVsim(d) /\ d.run = ueRuns)
    BY <1>1, <2>1
  <2>4. RunInv'
    BY <1>5, <2>2, <2>3 DEF RunInv, FromVsim
  <2> QED
    BY <1>3, <1>5, <2>4
<1>6. CASE VsimAction
  <2>1. UNCHANGED <<ueRuns, fpga_initialized, uePc>>
    BY <1>6, VsimFrame DEF ueVars
  <2>2. ~UeReturn
    BY <2>1 DEF UeReturn
  <2>3. ~UeAtRest' => ~fpga_initialized
    BY <2>1 DEF RunInv, UeAtRest
  <2> QED
    BY <1>5, <2>1, <2>2, <2>3
<1>7. CASE SrsUEAction /\ ~UeReturn /\ ~UeStart
  <2>1. /\ UNCHANGED <<ueRuns, fpga_initialized>>
        /\ \/ uePc' \in {"off", "idle"}
           \/ uePc \notin {"off", "idle"}
           \/ ~fpga_initialized
    BY <1>7 DEF SrsUEAction, UeStep, UeUnmapped, UeRequest, UeWriteRand,
       UeWriteAutn, UeWriteType, UePost, UePollAgain, UeStopWaiting,
       UeReadField, UeLocal, UeCached, UeSigbus, UeKilled, UeGone, ueVars
  <2>2. ~UeAtRest' => ~fpga_initialized
    BY <2>1 DEF RunInv, UeAtRest
  <2> QED
    BY <1>5, <1>7, <2>1, <2>2
<1> QED
  BY <1>2, <1>3, <1>4, <1>6, <1>7, NextSplit

(* A response is taken from the vSIM once in a run of srsUE, and a 5G      *)
(* authentication does without the vSIM only after that: fpga_initialized  *)
(* says no more and no less, across kills and restarts.                    *)
(* (usim.cc 302, 350, 362-365)                                             *)
THEOREM OncePerRunHolds == Spec => [](RunInv /\ OncePerRun)
<1>1. Init => RunInv /\ OncePerRun
  BY DEF Init, RunInv, OncePerRun, UeAtRest
<1>2. TypeOK /\ RunInv /\ OncePerRun /\ [Next]_vars => RunInv' /\ OncePerRun'
  <2>1. ASSUME RunInv, OncePerRun, UNCHANGED vars PROVE RunInv' /\ OncePerRun'
    BY <2>1 DEF RunInv, OncePerRun, UeAtRest, FromVsim, vars, ueVars, histVars
  <2> QED
    BY <2>1, OncePerRunStep
<1> QED
  BY <1>1, <1>2, TypeCorrect, PTL DEF Spec
=============================================================================

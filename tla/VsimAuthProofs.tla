--------------------------- MODULE VsimAuthProofs ---------------------------
(***************************************************************************)
(* Theorems about VsimAuth, for every set of challenges, every number of   *)
(* starts of srsUE and of the vSIM, every number of polls and every choice *)
(* of faults.                                                              *)
(*                                                                         *)
(* IInv is inductive.  Its parts lean on each other, so there is one lemma *)
(* per part, which assumes of IInv exactly the parts it needs and looks at *)
(* each action in turn.  The theorems at the end put the lemmas together.  *)
(***************************************************************************)
EXTENDS VsimAuth, TLAPS

(* The actions of one process, its starts and its faults included. *)
VsimAction ==
  HostStep \/ HostStart \/ HostKilled \/ HostCleanup \/ HostAllocFails

SrsUEAction ==
  \/ UeStep \/ UeStart \/ UeKilled
  \/ \E c \in Challenges :
       UeUnmapped(c) \/ UeRequest(c) \/ UeLocal(c) \/ UeCached(c)

(* Every step is one of the vSIM process or one of the srsUE process.      *)
LEMMA NextSplit == Next => VsimAction \/ SrsUEAction
  BY DEF Next, Environment, VsimAction, SrsUEAction

(* What the vSIM process never changes: the state of srsUE and the         *)
(* challenge in the memory.  (host-fpga.cpp)                               *)
LEMMA VsimFrame ==
  VsimAction => UNCHANGED <<ueVars, rand_bytes, autenb_bytes, command_type,
                            sent, posted, quiet, done>>
  BY DEF VsimAction, HostStep, HostStart, HostTruncate, HostClearCommand,
         HostClearResponse, HostTakeCommand, HostCopyRand, HostCopyAutn,
         HostHandOver, HostAllocFails, EnclaveCompute, HostWriteField,
         HostRaiseFlag, HostExit, HostKilled, HostCleanup, HostGone,
         shmVars, ueVars, histVars

(* What srsUE never changes: the state of the vSIM process, the objects    *)
(* themselves, the response and its flag.  (usim.cc)                       *)
LEMMA SrsUEFrame ==
  SrsUEAction => UNCHANGED <<hostVars, name, sized, auth_response_ready,
                             response, handed>>
  BY DEF SrsUEAction, UeStep, UeStart, UeUnmapped, UeRequest, UeWriteRand,
         UeWriteAutn, UeWriteType, UePost, UePollAgain, UeStopWaiting,
         UeReadField, UeReturn, UeLocal, UeCached, UeSigbus, UeKilled,
         UeGone, Finish, shmVars, hostVars, histVars

-----------------------------------------------------------------------------
(* The entries of done once the network has sent the challenges in S.      *)
Outcomes(S) ==
  [chal : S, via : {"vsim", "cached", "lte"},
   result : {"AUTH_OK", "AUTH_FAILED"}, seen : BOOLEAN,
   resp : [Fields -> Bytes], run : 1 .. MaxUeRuns]

(* Recording how an authentication ended keeps the type of done.           *)
LEMMA RecordedOutcome ==
  ASSUME NEW c, NEW S, c \in S, sent \subseteq S,
         NEW via \in {"vsim", "cached", "lte"},
         NEW result \in {"AUTH_OK", "AUTH_FAILED"}, NEW seen \in BOOLEAN,
         NEW resp \in [Fields -> Bytes], ueRuns \in 1 .. MaxUeRuns,
         done \subseteq Outcomes(sent),
         Finish(c, via, result, seen, resp)
  PROVE  done' \subseteq Outcomes(S)
<1> DEFINE d == [chal |-> c, via |-> via, result |-> result, seen |-> seen,
                 resp |-> resp, run |-> ueRuns]
<1>1. d \in Outcomes(S)
  BY DEF Outcomes
<1>2. done \subseteq Outcomes(S)
  BY DEF Outcomes
<1>3. done' = done \cup {d}
  BY Zenon DEF Finish
<1> HIDE DEF d
<1> QED
  BY <1>1, <1>2, <1>3, Zenon

(* Every action keeps every variable in its type, the poll count within    *)
(* the limit of usim.cc 330 and a working process on an object included.   *)
LEMMA TypeStep ==
  ASSUME TypeOK, Next
  PROVE  TypeOK'
<1> USE ConstantsAssumption DEF TypeOK, Segments, NoSegment, Fields, RES,
            AK_XOR_SQN, CK, IK, Bytes, UePcs, HostPcs, shmVars, hostVars,
            ueVars, histVars, NoAnswer
<1>0. done \subseteq Outcomes(sent)
  BY DEF Outcomes
<1>1. CASE HostTruncate
  BY <1>1 DEF HostTruncate
<1>2. CASE HostClearCommand
  BY <1>2 DEF HostClearCommand
<1>3. CASE HostClearResponse
  BY <1>3 DEF HostClearResponse
<1>4. CASE HostTakeCommand
  BY <1>4 DEF HostTakeCommand
<1>5. CASE HostCopyRand
  BY <1>5 DEF HostCopyRand
<1>6. CASE HostCopyAutn
  BY <1>6 DEF HostCopyAutn
<1>7. CASE HostHandOver
  BY <1>7 DEF HostHandOver
<1>8. CASE EnclaveCompute
  BY <1>8 DEF EnclaveCompute, Milenage
<1>9. CASE HostWriteField
  BY <1>9 DEF HostWriteField
<1>10. CASE HostRaiseFlag
  BY <1>10 DEF HostRaiseFlag
<1>11. CASE HostExit
  BY <1>11 DEF HostExit, HostGone
<1>12. CASE UeWriteRand
  BY <1>12 DEF UeWriteRand
<1>13. CASE UeWriteAutn
  BY <1>13 DEF UeWriteAutn
<1>14. CASE UeWriteType
  BY <1>14 DEF UeWriteType
<1>15. CASE UePost
  BY <1>15 DEF UePost
<1>16. CASE UePollAgain
  BY <1>16 DEF UePollAgain
<1>17. CASE UeStopWaiting
  BY <1>17 DEF UeStopWaiting
<1>18. CASE UeReadField
  BY <1>18 DEF UeReadField
<1>19. CASE UeReturn
  BY <1>19 DEF UeReturn, Finish
<1>20. CASE UeSigbus
  BY <1>20 DEF UeSigbus, UeGone
<1>21. CASE HostStart
  BY <1>21 DEF HostStart
<1>22. CASE HostKilled
  BY <1>22 DEF HostKilled, HostGone
<1>23. CASE HostCleanup
  BY <1>23 DEF HostCleanup, HostGone
<1>24. CASE HostAllocFails
  BY <1>24 DEF HostAllocFails
<1>25. CASE UeStart
  <2>1. fpga_initialized' \in BOOLEAN
    BY <1>25, Zenon DEF UeStart
  <2>2. /\ ueRuns' \in 0 .. MaxUeRuns /\ ueRuns' > 0
        /\ ueMap' \in Segments \cup {NoSegment}
        /\ uePc' = "idle"
        /\ UNCHANGED <<shmVars, hostVars, ueChal, wait_time, ueSeen, ueField,
                       ueResponse, histVars>>
    BY <1>25 DEF UeStart
  <2> QED
    BY <2>1, <2>2
<1>26. CASE UeKilled
  BY <1>26 DEF UeKilled, UeGone
<1>27. ASSUME NEW c \in Challenges, UeUnmapped(c)
       PROVE  TypeOK'
  <2>1. sent' = sent \cup {c} /\ ueRuns \in 1 .. MaxUeRuns
    BY <1>27 DEF UeUnmapped
  <2>2. NoAnswer \in [Fields -> Bytes]
    BY DEF Answer, Milenage
  <2>3. FALSE \in BOOLEAN
    BY Zenon
  <2>4. done' \subseteq Outcomes(sent')
    BY <1>27, <1>0, <2>1, <2>2, <2>3, RecordedOutcome
       DEF UeUnmapped
  <2> QED
    BY <1>27, <2>1, <2>4 DEF UeUnmapped, Outcomes
<1>28. ASSUME NEW c \in Challenges, UeRequest(c)
       PROVE  TypeOK'
  BY <1>28 DEF UeRequest
<1>29. ASSUME NEW c \in Challenges, UeLocal(c)
       PROVE  TypeOK'
  <2>1. sent' = sent \cup {c} /\ ueRuns \in 1 .. MaxUeRuns
    BY <1>29 DEF UeLocal
  <2>2. Answer(c) \in [Fields -> Bytes]
    BY DEF Answer, Milenage
  <2>3. FALSE \in BOOLEAN
    BY Zenon
  <2>4. done' \subseteq Outcomes(sent')
    BY <1>29, <1>0, <2>1, <2>2, <2>3, RecordedOutcome
       DEF UeLocal, Verdict
  <2> QED
    BY <1>29, <2>1, <2>4 DEF UeLocal, Outcomes
<1>30. ASSUME NEW c \in Challenges, UeCached(c)
       PROVE  TypeOK'
  <2>1. sent' = sent \cup {c} /\ ueRuns \in 1 .. MaxUeRuns
    BY <1>30 DEF UeCached
  <2>2. Answer(c) \in [Fields -> Bytes]
    BY DEF Answer, Milenage
  <2>3. FALSE \in BOOLEAN
    BY Zenon
  <2>4. done' \subseteq Outcomes(sent')
    BY <1>30, <1>0, <2>1, <2>2, <2>3, RecordedOutcome
       DEF UeCached
  <2> QED
    BY <1>30, <2>1, <2>4 DEF UeCached, Outcomes
<1> QED
  BY <1>1, <1>2, <1>3, <1>4, <1>5, <1>6, <1>7, <1>8, <1>9, <1>10, <1>11,
     <1>12, <1>13, <1>14, <1>15, <1>16, <1>17, <1>18, <1>19, <1>20, <1>21,
     <1>22, <1>23, <1>24, <1>25, <1>26, <1>27, <1>28, <1>29, <1>30
     DEF Next, HostStep, UeStep, Environment

(* While srsUE writes a challenge, what it has stored stays stored: only   *)
(* srsUE writes these bytes, and a challenge is not announced before its   *)
(* last byte is there.  (usim.cc 317-323)                                  *)
LEMMA ChallengeWrittenStep ==
  ASSUME TypeOK, TypeOK', ChallengeWritten, Next
  PROVE  ChallengeWritten'
<1> USE DEF TypeOK, ChallengeWritten, Announcing, shmVars, ueVars, histVars
<1>1. CASE VsimAction
  BY <1>1, VsimFrame
<1>2. CASE UeStart
  BY <1>2 DEF UeStart
<1>3. ASSUME NEW c \in Challenges, UeUnmapped(c)
      PROVE  ChallengeWritten'
  BY <1>3 DEF UeUnmapped, Finish
<1>4. ASSUME NEW c \in Challenges, UeRequest(c)
      PROVE  ChallengeWritten'
  BY <1>4 DEF UeRequest
<1>5. CASE UeWriteRand
  BY <1>5 DEF UeWriteRand
<1>6. CASE UeWriteAutn
  BY <1>6 DEF UeWriteAutn
<1>7. CASE UeWriteType
  BY <1>7 DEF UeWriteType
<1>8. CASE UePost
  BY <1>8 DEF UePost
<1>9. CASE UePollAgain
  BY <1>9 DEF UePollAgain
<1>10. CASE UeStopWaiting
  BY <1>10 DEF UeStopWaiting
<1>11. CASE UeReadField
  BY <1>11 DEF UeReadField
<1>12. CASE UeReturn
  BY <1>12 DEF UeReturn, Finish
<1>13. ASSUME NEW c \in Challenges, UeLocal(c)
      PROVE  ChallengeWritten'
  BY <1>13 DEF UeLocal, Finish
<1>14. ASSUME NEW c \in Challenges, UeCached(c)
      PROVE  ChallengeWritten'
  BY <1>14 DEF UeCached, Finish
<1>15. CASE UeSigbus
  BY <1>15 DEF UeSigbus, UeGone
<1>16. CASE UeKilled
  BY <1>16 DEF UeKilled, UeGone
<1> QED
  BY <1>1, <1>2, <1>3, <1>4, <1>5, <1>6, <1>7, <1>8, <1>9, <1>10, <1>11,
     <1>12, <1>13, <1>14, <1>15, <1>16, NextSplit
     DEF SrsUEAction, UeStep

(* A request that began on a quiet object keeps it quiet until it raises   *)
(* command_ready: nobody but srsUE can wake the vSIM.  (usim.cc 317-322)   *)
LEMMA StaysQuietStep ==
  ASSUME TypeOK, TypeOK', StaysQuiet, Next
  PROVE  StaysQuiet'
<1> USE DEF TypeOK, StaysQuiet, Announcing, Quiet, HostBusy, shmVars,
            hostVars, ueVars, histVars
<1>1. CASE HostStart
  BY <1>1 DEF HostStart
<1>2. CASE HostTruncate
  BY <1>2 DEF HostTruncate
<1>3. CASE HostClearCommand
  BY <1>3 DEF HostClearCommand
<1>4. CASE HostClearResponse
  BY <1>4 DEF HostClearResponse
<1>5. CASE HostTakeCommand
  BY <1>5 DEF HostTakeCommand
<1>6. CASE HostCopyRand
  BY <1>6 DEF HostCopyRand
<1>7. CASE HostCopyAutn
  BY <1>7 DEF HostCopyAutn
<1>8. CASE HostHandOver
  BY <1>8 DEF HostHandOver
<1>9. CASE HostAllocFails
  BY <1>9 DEF HostAllocFails
<1>10. CASE EnclaveCompute
  BY <1>10 DEF EnclaveCompute, Milenage
<1>11. CASE HostWriteField
  BY <1>11 DEF HostWriteField
<1>12. CASE HostRaiseFlag
  BY <1>12 DEF HostRaiseFlag
<1>13. CASE HostExit
  BY <1>13 DEF HostExit, HostGone
<1>14. CASE HostKilled
  BY <1>14 DEF HostKilled, HostGone
<1>15. CASE HostCleanup
  BY <1>15 DEF HostCleanup, HostGone
<1>16. CASE UeStart
  BY <1>16 DEF UeStart
<1>17. ASSUME NEW c \in Challenges, UeUnmapped(c)
      PROVE  StaysQuiet'
  BY <1>17 DEF UeUnmapped, Finish
<1>18. ASSUME NEW c \in Challenges, UeRequest(c)
      PROVE  StaysQuiet'
  BY <1>18 DEF UeRequest
<1>19. CASE UeWriteRand
  BY <1>19 DEF UeWriteRand
<1>20. CASE UeWriteAutn
  BY <1>20 DEF UeWriteAutn
<1>21. CASE UeWriteType
  BY <1>21 DEF UeWriteType
<1>22. CASE UePost
  BY <1>22 DEF UePost
<1>23. CASE UePollAgain
  BY <1>23 DEF UePollAgain
<1>24. CASE UeStopWaiting
  BY <1>24 DEF UeStopWaiting
<1>25. CASE UeReadField
  BY <1>25 DEF UeReadField
<1>26. CASE UeReturn
  BY <1>26 DEF UeReturn, Finish
<1>27. ASSUME NEW c \in Challenges, UeLocal(c)
      PROVE  StaysQuiet'
  BY <1>27 DEF UeLocal, Finish
<1>28. ASSUME NEW c \in Challenges, UeCached(c)
      PROVE  StaysQuiet'
  BY <1>28 DEF UeCached, Finish
<1>29. CASE UeSigbus
  BY <1>29 DEF UeSigbus, UeGone
<1>30. CASE UeKilled
  BY <1>30 DEF UeKilled, UeGone
<1> QED
  BY <1>1, <1>2, <1>3, <1>4, <1>5, <1>6, <1>7, <1>8, <1>9, <1>10, <1>11,
     <1>12, <1>13, <1>14, <1>15, <1>16, <1>17, <1>18, <1>19, <1>20, <1>21,
     <1>22, <1>23, <1>24, <1>25, <1>26, <1>27, <1>28, <1>29, <1>30
     DEF Next, HostStep, UeStep, Environment

(* While a quiet request waits, the vSIM that works on its object holds    *)
(* this very challenge, and what it has answered so far is this answer.    *)
(* (host-fpga.cpp 134-188)                                                 *)
LEMMA ServingInvStep ==
  ASSUME TypeOK, TypeOK', ServingInv, ChallengeWritten, StaysQuiet, Next
  PROVE  ServingInv'
<1> USE DEF TypeOK, ChallengeWritten, StaysQuiet, ServingInv, Awaiting,
            Announcing, Quiet, HostBusy, Answer, Milenage, shmVars,
            hostVars, ueVars, histVars, Fields, RES, AK_XOR_SQN, CK, IK
<1>1. CASE HostStart
  BY <1>1 DEF HostStart
<1>2. CASE HostTruncate
  BY <1>2 DEF HostTruncate
<1>3. CASE HostClearCommand
  BY <1>3 DEF HostClearCommand
<1>4. CASE HostClearResponse
  BY <1>4 DEF HostClearResponse
<1>5. CASE HostTakeCommand
  BY <1>5 DEF HostTakeCommand
<1>6. CASE HostCopyRand
  BY <1>6 DEF HostCopyRand
<1>7. CASE HostCopyAutn
  BY <1>7 DEF HostCopyAutn
<1>8. CASE HostHandOver
  BY <1>8 DEF HostHandOver
<1>9. CASE HostAllocFails
  BY <1>9 DEF HostAllocFails
<1>10. CASE EnclaveCompute
  BY <1>10 DEF EnclaveCompute
<1>11. CASE HostWriteField
  BY <1>11 DEF HostWriteField
<1>12. CASE HostRaiseFlag
  BY <1>12 DEF HostRaiseFlag
<1>13. CASE HostExit
  BY <1>13 DEF HostExit, HostGone
<1>14. CASE HostKilled
  BY <1>14 DEF HostKilled, HostGone
<1>15. CASE HostCleanup
  BY <1>15 DEF HostCleanup, HostGone
<1>16. CASE UeStart
  BY <1>16 DEF UeStart
<1>17. ASSUME NEW c \in Challenges, UeUnmapped(c)
      PROVE  ServingInv'
  BY <1>17 DEF UeUnmapped, Finish
<1>18. ASSUME NEW c \in Challenges, UeRequest(c)
      PROVE  ServingInv'
  BY <1>18 DEF UeRequest
<1>19. CASE UeWriteRand
  BY <1>19 DEF UeWriteRand
<1>20. CASE UeWriteAutn
  BY <1>20 DEF UeWriteAutn
<1>21. CASE UeWriteType
  BY <1>21 DEF UeWriteType
<1>22. CASE UePost
  BY <1>22 DEF UePost
<1>23. CASE UePollAgain
  BY <1>23 DEF UePollAgain
<1>24. CASE UeStopWaiting
  BY <1>24 DEF UeStopWaiting
<1>25. CASE UeReadField
  BY <1>25 DEF UeReadField
<1>26. CASE UeReturn
  BY <1>26 DEF UeReturn, Finish
<1>27. ASSUME NEW c \in Challenges, UeLocal(c)
      PROVE  ServingInv'
  BY <1>27 DEF UeLocal, Finish
<1>28. ASSUME NEW c \in Challenges, UeCached(c)
      PROVE  ServingInv'
  BY <1>28 DEF UeCached, Finish
<1>29. CASE UeSigbus
  BY <1>29 DEF UeSigbus, UeGone
<1>30. CASE UeKilled
  BY <1>30 DEF UeKilled, UeGone
<1> QED
  BY <1>1, <1>2, <1>3, <1>4, <1>5, <1>6, <1>7, <1>8, <1>9, <1>10, <1>11,
     <1>12, <1>13, <1>14, <1>15, <1>16, <1>17, <1>18, <1>19, <1>20, <1>21,
     <1>22, <1>23, <1>24, <1>25, <1>26, <1>27, <1>28, <1>29, <1>30
     DEF Next, HostStep, UeStep, Environment

(* Once the flag answers a quiet request its response stays in the object  *)
(* until srsUE has copied it.  (host-fpga.cpp 134-148, usim.cc 330-347)    *)
LEMMA AnsweredInvStep ==
  ASSUME TypeOK, TypeOK', AnsweredInv, ServingInv, StaysQuiet, Next
  PROVE  AnsweredInv'
<1> USE DEF TypeOK, StaysQuiet, ServingInv, AnsweredInv, Awaiting,
            Announcing, Quiet, HostBusy, shmVars, hostVars, ueVars,
            histVars, Fields, RES, AK_XOR_SQN, CK, IK
<1>1. CASE HostStart
  BY <1>1 DEF HostStart
<1>2. CASE HostTruncate
  BY <1>2 DEF HostTruncate
<1>3. CASE HostClearCommand
  BY <1>3 DEF HostClearCommand
<1>4. CASE HostClearResponse
  BY <1>4 DEF HostClearResponse
<1>5. CASE HostTakeCommand
  BY <1>5 DEF HostTakeCommand
<1>6. CASE HostCopyRand
  BY <1>6 DEF HostCopyRand
<1>7. CASE HostCopyAutn
  BY <1>7 DEF HostCopyAutn
<1>8. CASE HostHandOver
  BY <1>8 DEF HostHandOver
<1>9. CASE HostAllocFails
  BY <1>9 DEF HostAllocFails
<1>10. CASE EnclaveCompute
  BY <1>10 DEF EnclaveCompute, Milenage
<1>11. CASE HostWriteField
  BY <1>11 DEF HostWriteField
<1>12. CASE HostRaiseFlag
  BY <1>12 DEF HostRaiseFlag
<1>13. CASE HostExit
  BY <1>13 DEF HostExit, HostGone
<1>14. CASE HostKilled
  BY <1>14 DEF HostKilled, HostGone
<1>15. CASE HostCleanup
  BY <1>15 DEF HostCleanup, HostGone
<1>16. CASE UeStart
  BY <1>16 DEF UeStart
<1>17. ASSUME NEW c \in Challenges, UeUnmapped(c)
      PROVE  AnsweredInv'
  BY <1>17 DEF UeUnmapped, Finish
<1>18. ASSUME NEW c \in Challenges, UeRequest(c)
      PROVE  AnsweredInv'
  BY <1>18 DEF UeRequest
<1>19. CASE UeWriteRand
  BY <1>19 DEF UeWriteRand
<1>20. CASE UeWriteAutn
  BY <1>20 DEF UeWriteAutn
<1>21. CASE UeWriteType
  BY <1>21 DEF UeWriteType
<1>22. CASE UePost
  BY <1>22 DEF UePost
<1>23. CASE UePollAgain
  BY <1>23 DEF UePollAgain
<1>24. CASE UeStopWaiting
  BY <1>24 DEF UeStopWaiting
<1>25. CASE UeReadField
  BY <1>25 DEF UeReadField
<1>26. CASE UeReturn
  BY <1>26 DEF UeReturn, Finish
<1>27. ASSUME NEW c \in Challenges, UeLocal(c)
      PROVE  AnsweredInv'
  BY <1>27 DEF UeLocal, Finish
<1>28. ASSUME NEW c \in Challenges, UeCached(c)
      PROVE  AnsweredInv'
  BY <1>28 DEF UeCached, Finish
<1>29. CASE UeSigbus
  BY <1>29 DEF UeSigbus, UeGone
<1>30. CASE UeKilled
  BY <1>30 DEF UeKilled, UeGone
<1> QED
  BY <1>1, <1>2, <1>3, <1>4, <1>5, <1>6, <1>7, <1>8, <1>9, <1>10, <1>11,
     <1>12, <1>13, <1>14, <1>15, <1>16, <1>17, <1>18, <1>19, <1>20, <1>21,
     <1>22, <1>23, <1>24, <1>25, <1>26, <1>27, <1>28, <1>29, <1>30
     DEF Next, HostStep, UeStep, Environment

(* Only challenges of the network are copied around, and each was written  *)
(* to one object.  (usim.cc 317-318, host-fpga.cpp 165-166)                *)
LEMMA ProvenanceInvStep ==
  ASSUME TypeOK, TypeOK', ProvenanceInv, Next
  PROVE  ProvenanceInv'
<1> USE ConstantsAssumption DEF TypeOK, ProvenanceInv, shmVars, hostVars,
            ueVars, histVars
<1>1. CASE HostStart
  BY <1>1 DEF HostStart
<1>2. CASE HostTruncate
  BY <1>2 DEF HostTruncate
<1>3. CASE HostClearCommand
  BY <1>3 DEF HostClearCommand
<1>4. CASE HostClearResponse
  BY <1>4 DEF HostClearResponse
<1>5. CASE HostTakeCommand
  BY <1>5 DEF HostTakeCommand
<1>6. CASE HostCopyRand
  BY <1>6 DEF HostCopyRand
<1>7. CASE HostCopyAutn
  BY <1>7 DEF HostCopyAutn
<1>8. CASE HostHandOver
  BY <1>8 DEF HostHandOver
<1>9. CASE HostAllocFails
  BY <1>9 DEF HostAllocFails
<1>10. CASE EnclaveCompute
  BY <1>10 DEF EnclaveCompute, Milenage
<1>11. CASE HostWriteField
  BY <1>11 DEF HostWriteField
<1>12. CASE HostRaiseFlag
  BY <1>12 DEF HostRaiseFlag
<1>13. CASE HostExit
  BY <1>13 DEF HostExit, HostGone
<1>14. CASE HostKilled
  BY <1>14 DEF HostKilled, HostGone
<1>15. CASE HostCleanup
  BY <1>15 DEF HostCleanup, HostGone
<1>16. CASE UeStart
  BY <1>16 DEF UeStart
<1>17. ASSUME NEW c \in Challenges, UeUnmapped(c)
      PROVE  ProvenanceInv'
  BY <1>17 DEF UeUnmapped, Finish
<1>18. ASSUME NEW c \in Challenges, UeRequest(c)
      PROVE  ProvenanceInv'
  BY <1>18 DEF UeRequest
<1>19. CASE UeWriteRand
  BY <1>19 DEF UeWriteRand
<1>20. CASE UeWriteAutn
  BY <1>20 DEF UeWriteAutn
<1>21. CASE UeWriteType
  BY <1>21 DEF UeWriteType
<1>22. CASE UePost
  BY <1>22 DEF UePost
<1>23. CASE UePollAgain
  BY <1>23 DEF UePollAgain
<1>24. CASE UeStopWaiting
  BY <1>24 DEF UeStopWaiting
<1>25. CASE UeReadField
  BY <1>25 DEF UeReadField
<1>26. CASE UeReturn
  BY <1>26 DEF UeReturn, Finish
<1>27. ASSUME NEW c \in Challenges, UeLocal(c)
      PROVE  ProvenanceInv'
  BY <1>27 DEF UeLocal, Finish
<1>28. ASSUME NEW c \in Challenges, UeCached(c)
      PROVE  ProvenanceInv'
  BY <1>28 DEF UeCached, Finish
<1>29. CASE UeSigbus
  BY <1>29 DEF UeSigbus, UeGone
<1>30. CASE UeKilled
  BY <1>30 DEF UeKilled, UeGone
<1> QED
  BY <1>1, <1>2, <1>3, <1>4, <1>5, <1>6, <1>7, <1>8, <1>9, <1>10, <1>11,
     <1>12, <1>13, <1>14, <1>15, <1>16, <1>17, <1>18, <1>19, <1>20, <1>21,
     <1>22, <1>23, <1>24, <1>25, <1>26, <1>27, <1>28, <1>29, <1>30
     DEF Next, HostStep, UeStep, Environment

(* A pending command with the RAND of a quiet request has its AUTN too,    *)
(* and srsUE announced it.  (usim.cc 317-323)                              *)
LEMMA PendingInvStep ==
  ASSUME TypeOK, TypeOK', PendingInv, ProvenanceInv, ChallengeWritten,
         StaysQuiet, Next
  PROVE  PendingInv'
<1> USE ConstantsAssumption DEF TypeOK, ChallengeWritten, StaysQuiet,
            ProvenanceInv, PendingInv, Announcing, Quiet, shmVars, histVars
<1>1. CASE HostStart
  BY <1>1 DEF HostStart
<1>2. CASE HostTruncate
  BY <1>2 DEF HostTruncate
<1>3. CASE HostClearCommand
  BY <1>3 DEF HostClearCommand
<1>4. CASE HostClearResponse
  BY <1>4 DEF HostClearResponse
<1>5. CASE HostTakeCommand
  BY <1>5 DEF HostTakeCommand
<1>6. CASE HostCopyRand
  BY <1>6 DEF HostCopyRand
<1>7. CASE HostCopyAutn
  BY <1>7 DEF HostCopyAutn
<1>8. CASE HostHandOver
  BY <1>8 DEF HostHandOver
<1>9. CASE HostAllocFails
  BY <1>9 DEF HostAllocFails
<1>10. CASE EnclaveCompute
  BY <1>10 DEF EnclaveCompute, Milenage
<1>11. CASE HostWriteField
  BY <1>11 DEF HostWriteField
<1>12. CASE HostRaiseFlag
  BY <1>12 DEF HostRaiseFlag
<1>13. CASE HostExit
  BY <1>13 DEF HostExit, HostGone
<1>14. CASE HostKilled
  BY <1>14 DEF HostKilled, HostGone
<1>15. CASE HostCleanup
  BY <1>15 DEF HostCleanup, HostGone
<1>16. CASE UeStart
  BY <1>16 DEF UeStart
<1>17. ASSUME NEW c \in Challenges, UeUnmapped(c)
      PROVE  PendingInv'
  BY <1>17 DEF UeUnmapped, Finish
<1>18. ASSUME NEW c \in Challenges, UeRequest(c)
      PROVE  PendingInv'
  BY <1>18 DEF UeRequest
<1>19. CASE UeWriteRand
  BY <1>19 DEF UeWriteRand
<1>20. CASE UeWriteAutn
  BY <1>20 DEF UeWriteAutn
<1>21. CASE UeWriteType
  BY <1>21 DEF UeWriteType
<1>22. CASE UePost
  BY <1>22 DEF UePost
<1>23. CASE UePollAgain
  BY <1>23 DEF UePollAgain
<1>24. CASE UeStopWaiting
  BY <1>24 DEF UeStopWaiting
<1>25. CASE UeReadField
  BY <1>25 DEF UeReadField
<1>26. CASE UeReturn
  BY <1>26 DEF UeReturn, Finish
<1>27. ASSUME NEW c \in Challenges, UeLocal(c)
      PROVE  PendingInv'
  BY <1>27 DEF UeLocal, Finish
<1>28. ASSUME NEW c \in Challenges, UeCached(c)
      PROVE  PendingInv'
  BY <1>28 DEF UeCached, Finish
<1>29. CASE UeSigbus
  BY <1>29 DEF UeSigbus, UeGone
<1>30. CASE UeKilled
  BY <1>30 DEF UeKilled, UeGone
<1> QED
  BY <1>1, <1>2, <1>3, <1>4, <1>5, <1>6, <1>7, <1>8, <1>9, <1>10, <1>11,
     <1>12, <1>13, <1>14, <1>15, <1>16, <1>17, <1>18, <1>19, <1>20, <1>21,
     <1>22, <1>23, <1>24, <1>25, <1>26, <1>27, <1>28, <1>29, <1>30
     DEF Next, HostStep, UeStep, Environment

(* The vSIM's copy of a challenge agrees with the object it came from,     *)
(* as long as the challenge has not been handed over.                      *)
(* (host-fpga.cpp 165-166)                                                 *)
LEMMA CopyingInvStep ==
  ASSUME TypeOK, TypeOK', CopyingInv, PendingInv, ProvenanceInv, StaysQuiet, Next
  PROVE  CopyingInv'
<1> USE ConstantsAssumption DEF TypeOK, StaysQuiet, ProvenanceInv,
            PendingInv, CopyingInv, Announcing, Quiet, shmVars, hostVars,
            histVars
<1>1. CASE HostStart
  BY <1>1 DEF HostStart
<1>2. CASE HostTruncate
  BY <1>2 DEF HostTruncate
<1>3. CASE HostClearCommand
  BY <1>3 DEF HostClearCommand
<1>4. CASE HostClearResponse
  BY <1>4 DEF HostClearResponse
<1>5. CASE HostTakeCommand
  BY <1>5 DEF HostTakeCommand
<1>6. CASE HostCopyRand
  BY <1>6 DEF HostCopyRand
<1>7. CASE HostCopyAutn
  BY <1>7 DEF HostCopyAutn
<1>8. CASE HostHandOver
  BY <1>8 DEF HostHandOver
<1>9. CASE HostAllocFails
  BY <1>9 DEF HostAllocFails
<1>10. CASE EnclaveCompute
  BY <1>10 DEF EnclaveCompute, Milenage
<1>11. CASE HostWriteField
  BY <1>11 DEF HostWriteField
<1>12. CASE HostRaiseFlag
  BY <1>12 DEF HostRaiseFlag
<1>13. CASE HostExit
  BY <1>13 DEF HostExit, HostGone
<1>14. CASE HostKilled
  BY <1>14 DEF HostKilled, HostGone
<1>15. CASE HostCleanup
  BY <1>15 DEF HostCleanup, HostGone
<1>16. CASE UeStart
  BY <1>16 DEF UeStart
<1>17. ASSUME NEW c \in Challenges, UeUnmapped(c)
      PROVE  CopyingInv'
  BY <1>17 DEF UeUnmapped, Finish
<1>18. ASSUME NEW c \in Challenges, UeRequest(c)
      PROVE  CopyingInv'
  BY <1>18 DEF UeRequest
<1>19. CASE UeWriteRand
  BY <1>19 DEF UeWriteRand
<1>20. CASE UeWriteAutn
  BY <1>20 DEF UeWriteAutn
<1>21. CASE UeWriteType
  BY <1>21 DEF UeWriteType
<1>22. CASE UePost
  BY <1>22 DEF UePost
<1>23. CASE UePollAgain
  BY <1>23 DEF UePollAgain
<1>24. CASE UeStopWaiting
  BY <1>24 DEF UeStopWaiting
<1>25. CASE UeReadField
  BY <1>25 DEF UeReadField
<1>26. CASE UeReturn
  BY <1>26 DEF UeReturn, Finish
<1>27. ASSUME NEW c \in Challenges, UeLocal(c)
      PROVE  CopyingInv'
  BY <1>27 DEF UeLocal, Finish
<1>28. ASSUME NEW c \in Challenges, UeCached(c)
      PROVE  CopyingInv'
  BY <1>28 DEF UeCached, Finish
<1>29. CASE UeSigbus
  BY <1>29 DEF UeSigbus, UeGone
<1>30. CASE UeKilled
  BY <1>30 DEF UeKilled, UeGone
<1> QED
  BY <1>1, <1>2, <1>3, <1>4, <1>5, <1>6, <1>7, <1>8, <1>9, <1>10, <1>11,
     <1>12, <1>13, <1>14, <1>15, <1>16, <1>17, <1>18, <1>19, <1>20, <1>21,
     <1>22, <1>23, <1>24, <1>25, <1>26, <1>27, <1>28, <1>29, <1>30
     DEF Next, HostStep, UeStep, Environment

(* A quiet challenge the enclave has had is never pending again.           *)
(* (host-fpga.cpp 179, usim.cc 323)                                        *)
LEMMA ConsumedInvStep ==
  ASSUME TypeOK, TypeOK', ConsumedInv, CopyingInv, ProvenanceInv,
         ChallengeWritten, CleanHandover, Next
  PROVE  ConsumedInv'
<1> USE ConstantsAssumption DEF TypeOK, ChallengeWritten, ProvenanceInv,
            CopyingInv, ConsumedInv, CleanHandover, Announcing, shmVars,
            hostVars, histVars
<1>1. CASE HostStart
  BY <1>1 DEF HostStart
<1>2. CASE HostTruncate
  BY <1>2 DEF HostTruncate
<1>3. CASE HostClearCommand
  BY <1>3 DEF HostClearCommand
<1>4. CASE HostClearResponse
  BY <1>4 DEF HostClearResponse
<1>5. CASE HostTakeCommand
  BY <1>5 DEF HostTakeCommand
<1>6. CASE HostCopyRand
  BY <1>6 DEF HostCopyRand
<1>7. CASE HostCopyAutn
  BY <1>7 DEF HostCopyAutn
<1>8. CASE HostHandOver
  BY <1>8 DEF HostHandOver
<1>9. CASE HostAllocFails
  BY <1>9 DEF HostAllocFails
<1>10. CASE EnclaveCompute
  BY <1>10 DEF EnclaveCompute, Milenage
<1>11. CASE HostWriteField
  BY <1>11 DEF HostWriteField
<1>12. CASE HostRaiseFlag
  BY <1>12 DEF HostRaiseFlag
<1>13. CASE HostExit
  BY <1>13 DEF HostExit, HostGone
<1>14. CASE HostKilled
  BY <1>14 DEF HostKilled, HostGone
<1>15. CASE HostCleanup
  BY <1>15 DEF HostCleanup, HostGone
<1>16. CASE UeStart
  BY <1>16 DEF UeStart
<1>17. ASSUME NEW c \in Challenges, UeUnmapped(c)
      PROVE  ConsumedInv'
  BY <1>17 DEF UeUnmapped, Finish
<1>18. ASSUME NEW c \in Challenges, UeRequest(c)
      PROVE  ConsumedInv'
  BY <1>18 DEF UeRequest
<1>19. CASE UeWriteRand
  BY <1>19 DEF UeWriteRand
<1>20. CASE UeWriteAutn
  BY <1>20 DEF UeWriteAutn
<1>21. CASE UeWriteType
  BY <1>21 DEF UeWriteType
<1>22. CASE UePost
  <2>1. \A h \in handed : h.rand \in quiet /\ h.autn = h.rand => h.rand # ueChal
    BY <1>22 DEF UePost
  <2> QED
    BY <1>22, <2>1 DEF UePost
<1>23. CASE UePollAgain
  BY <1>23 DEF UePollAgain
<1>24. CASE UeStopWaiting
  BY <1>24 DEF UeStopWaiting
<1>25. CASE UeReadField
  BY <1>25 DEF UeReadField
<1>26. CASE UeReturn
  BY <1>26 DEF UeReturn, Finish
<1>27. ASSUME NEW c \in Challenges, UeLocal(c)
      PROVE  ConsumedInv'
  BY <1>27 DEF UeLocal, Finish
<1>28. ASSUME NEW c \in Challenges, UeCached(c)
      PROVE  ConsumedInv'
  BY <1>28 DEF UeCached, Finish
<1>29. CASE UeSigbus
  BY <1>29 DEF UeSigbus, UeGone
<1>30. CASE UeKilled
  BY <1>30 DEF UeKilled, UeGone
<1> QED
  BY <1>1, <1>2, <1>3, <1>4, <1>5, <1>6, <1>7, <1>8, <1>9, <1>10, <1>11,
     <1>12, <1>13, <1>14, <1>15, <1>16, <1>17, <1>18, <1>19, <1>20, <1>21,
     <1>22, <1>23, <1>24, <1>25, <1>26, <1>27, <1>28, <1>29, <1>30
     DEF Next, HostStep, UeStep, Environment

(* The vSIM lowers the response flag when it takes a command and raises it *)
(* when it has answered.  (host-fpga.cpp 148, 163)                         *)
LEMMA FlaggedIsStableStep ==
  ASSUME TypeOK, TypeOK', FlaggedIsStable, Next
  PROVE  FlaggedIsStable'
<1> USE DEF TypeOK, FlaggedIsStable, HostBusy, shmVars, hostVars
<1>1. CASE HostStart
  BY <1>1 DEF HostStart
<1>2. CASE HostTruncate
  BY <1>2 DEF HostTruncate
<1>3. CASE HostClearCommand
  BY <1>3 DEF HostClearCommand
<1>4. CASE HostClearResponse
  BY <1>4 DEF HostClearResponse
<1>5. CASE HostTakeCommand
  BY <1>5 DEF HostTakeCommand
<1>6. CASE HostCopyRand
  BY <1>6 DEF HostCopyRand
<1>7. CASE HostCopyAutn
  BY <1>7 DEF HostCopyAutn
<1>8. CASE HostHandOver
  BY <1>8 DEF HostHandOver
<1>9. CASE HostAllocFails
  BY <1>9 DEF HostAllocFails
<1>10. CASE EnclaveCompute
  BY <1>10 DEF EnclaveCompute, Milenage
<1>11. CASE HostWriteField
  BY <1>11 DEF HostWriteField
<1>12. CASE HostRaiseFlag
  BY <1>12 DEF HostRaiseFlag
<1>13. CASE HostExit
  BY <1>13 DEF HostExit, HostGone
<1>14. CASE HostKilled
  BY <1>14 DEF HostKilled, HostGone
<1>15. CASE HostCleanup
  BY <1>15 DEF HostCleanup, HostGone
<1>16. CASE SrsUEAction
  BY <1>16, SrsUEFrame
<1> QED
  BY <1>1, <1>2, <1>3, <1>4, <1>5, <1>6, <1>7, <1>8, <1>9, <1>10, <1>11,
     <1>12, <1>13, <1>14, <1>15, <1>16, NextSplit
     DEF VsimAction, HostStep

(* An authentication ends with what srsUE copied, which for a quiet        *)
(* request that saw the flag is its own answer.  (usim.cc 344-368)         *)
LEMMA OwnAnswerStep ==
  ASSUME TypeOK, TypeOK', OwnAnswer, AnsweredInv, Next
  PROVE  OwnAnswer'
<1> USE DEF TypeOK, AnsweredInv, OwnAnswer, Awaiting, Answer, Milenage,
            histVars, Fields, IK
<1>1. CASE VsimAction
  BY <1>1, VsimFrame
<1>2. CASE UeStart
  BY <1>2 DEF UeStart
<1>3. ASSUME NEW c \in Challenges, UeUnmapped(c)
      PROVE  OwnAnswer'
  BY <1>3 DEF UeUnmapped, Finish
<1>4. ASSUME NEW c \in Challenges, UeRequest(c)
      PROVE  OwnAnswer'
  <2>1. done' = done /\ quiet' \subseteq quiet \cup {c} /\ c \notin sent
    BY <1>4 DEF UeRequest
  <2>2. \A d \in done : d.chal \in sent
    OBVIOUS
  <2> HIDE DEF TypeOK, AnsweredInv, Awaiting, Milenage, Answer
  <2> QED
    BY <2>1, <2>2, Zenon DEF OwnAnswer
<1>5. CASE UeWriteRand
  BY <1>5 DEF UeWriteRand
<1>6. CASE UeWriteAutn
  BY <1>6 DEF UeWriteAutn
<1>7. CASE UeWriteType
  BY <1>7 DEF UeWriteType
<1>8. CASE UePost
  BY <1>8 DEF UePost
<1>9. CASE UePollAgain
  BY <1>9 DEF UePollAgain
<1>10. CASE UeStopWaiting
  BY <1>10 DEF UeStopWaiting
<1>11. CASE UeReadField
  BY <1>11 DEF UeReadField
<1>12. CASE UeReturn
  <2> DEFINE d == [chal |-> ueChal, via |-> "vsim", result |-> "AUTH_OK",
                   seen |-> ueSeen, resp |-> ueResponse, run |-> ueRuns]
  <2>1. done' = done \cup {d} /\ quiet' = quiet
    BY <1>12 DEF UeReturn, Finish
  <2>2. ASSUME d.seen, d.chal \in quiet PROVE d.resp = Answer(d.chal)
    <3>1. \A f \in Fields : ueResponse[f] = ueChal
      BY <1>12, <2>2 DEF UeReturn
    <3>2. ueResponse = [f \in Fields |-> ueChal]
      BY <3>1
    <3> QED
      BY <3>2
  <2>3. SUFFICES ASSUME NEW e \in done', e.via = "vsim", e.seen,
                        e.chal \in quiet'
                 PROVE  e.resp = Answer(e.chal)
    OBVIOUS
  <2>4. CASE e \in done
    BY <2>1, <2>3, <2>4
  <2>5. CASE e = d
    BY <2>1, <2>2, <2>3, <2>5
  <2> QED
    BY <2>1, <2>3, <2>4, <2>5
<1>13. ASSUME NEW c \in Challenges, UeLocal(c)
      PROVE  OwnAnswer'
  BY <1>13 DEF UeLocal, Finish
<1>14. ASSUME NEW c \in Challenges, UeCached(c)
      PROVE  OwnAnswer'
  BY <1>14 DEF UeCached, Finish
<1>15. CASE UeSigbus
  BY <1>15 DEF UeSigbus, UeGone
<1>16. CASE UeKilled
  BY <1>16 DEF UeKilled, UeGone
<1> QED
  BY <1>1, <1>2, <1>3, <1>4, <1>5, <1>6, <1>7, <1>8, <1>9, <1>10, <1>11,
     <1>12, <1>13, <1>14, <1>15, <1>16, NextSplit
     DEF SrsUEAction, UeStep

(* The enclave receives what the vSIM copied.  (host-fpga.cpp 165-188)     *)
LEMMA CleanHandoverStep ==
  ASSUME TypeOK, TypeOK', CleanHandover, CopyingInv, ProvenanceInv, Next
  PROVE  CleanHandover'
<1> USE ConstantsAssumption DEF TypeOK, ProvenanceInv, CopyingInv,
            CleanHandover, histVars
<1>1. CASE HostStart
  BY <1>1 DEF HostStart
<1>2. CASE HostTruncate
  BY <1>2 DEF HostTruncate
<1>3. CASE HostClearCommand
  BY <1>3 DEF HostClearCommand
<1>4. CASE HostClearResponse
  BY <1>4 DEF HostClearResponse
<1>5. CASE HostTakeCommand
  BY <1>5 DEF HostTakeCommand
<1>6. CASE HostCopyRand
  BY <1>6 DEF HostCopyRand
<1>7. CASE HostCopyAutn
  BY <1>7 DEF HostCopyAutn
<1>8. CASE HostHandOver
  BY <1>8 DEF HostHandOver
<1>9. CASE HostAllocFails
  BY <1>9 DEF HostAllocFails
<1>10. CASE EnclaveCompute
  BY <1>10 DEF EnclaveCompute, Milenage
<1>11. CASE HostWriteField
  BY <1>11 DEF HostWriteField
<1>12. CASE HostRaiseFlag
  BY <1>12 DEF HostRaiseFlag
<1>13. CASE HostExit
  BY <1>13 DEF HostExit, HostGone
<1>14. CASE HostKilled
  BY <1>14 DEF HostKilled, HostGone
<1>15. CASE HostCleanup
  BY <1>15 DEF HostCleanup, HostGone
<1>16. CASE UeStart
  BY <1>16 DEF UeStart
<1>17. ASSUME NEW c \in Challenges, UeUnmapped(c)
      PROVE  CleanHandover'
  BY <1>17 DEF UeUnmapped, Finish
<1>18. ASSUME NEW c \in Challenges, UeRequest(c)
      PROVE  CleanHandover'
  <2>1. \A h \in handed : h.rand # c /\ h.autn # c
    BY <1>18 DEF UeRequest
  <2>2. quiet' \subseteq quiet \cup {c} /\ handed' = handed /\ posted' = posted
    BY <1>18 DEF UeRequest
  <2> QED
    BY <2>1, <2>2
<1>19. CASE UeWriteRand
  BY <1>19 DEF UeWriteRand
<1>20. CASE UeWriteAutn
  BY <1>20 DEF UeWriteAutn
<1>21. CASE UeWriteType
  BY <1>21 DEF UeWriteType
<1>22. CASE UePost
  BY <1>22 DEF UePost
<1>23. CASE UePollAgain
  BY <1>23 DEF UePollAgain
<1>24. CASE UeStopWaiting
  BY <1>24 DEF UeStopWaiting
<1>25. CASE UeReadField
  BY <1>25 DEF UeReadField
<1>26. CASE UeReturn
  BY <1>26 DEF UeReturn, Finish
<1>27. ASSUME NEW c \in Challenges, UeLocal(c)
      PROVE  CleanHandover'
  BY <1>27 DEF UeLocal, Finish
<1>28. ASSUME NEW c \in Challenges, UeCached(c)
      PROVE  CleanHandover'
  BY <1>28 DEF UeCached, Finish
<1>29. CASE UeSigbus
  BY <1>29 DEF UeSigbus, UeGone
<1>30. CASE UeKilled
  BY <1>30 DEF UeKilled, UeGone
<1> QED
  BY <1>1, <1>2, <1>3, <1>4, <1>5, <1>6, <1>7, <1>8, <1>9, <1>10, <1>11,
     <1>12, <1>13, <1>14, <1>15, <1>16, <1>17, <1>18, <1>19, <1>20, <1>21,
     <1>22, <1>23, <1>24, <1>25, <1>26, <1>27, <1>28, <1>29, <1>30
     DEF Next, HostStep, UeStep, Environment

(* The vSIM does not hand over what an enclave has already had.            *)
(* (host-fpga.cpp 179-188)                                                 *)
LEMMA AtMostOnceStep ==
  ASSUME TypeOK, TypeOK', AtMostOnce, ConsumedInv, ProvenanceInv, Next
  PROVE  AtMostOnce'
<1> USE ConstantsAssumption DEF TypeOK, ProvenanceInv, ConsumedInv,
            AtMostOnce, histVars
<1>1. CASE HostStart
  BY <1>1 DEF HostStart
<1>2. CASE HostTruncate
  BY <1>2 DEF HostTruncate
<1>3. CASE HostClearCommand
  BY <1>3 DEF HostClearCommand
<1>4. CASE HostClearResponse
  BY <1>4 DEF HostClearResponse
<1>5. CASE HostTakeCommand
  BY <1>5 DEF HostTakeCommand
<1>6. CASE HostCopyRand
  BY <1>6 DEF HostCopyRand
<1>7. CASE HostCopyAutn
  BY <1>7 DEF HostCopyAutn
<1>8. CASE HostHandOver
  BY <1>8 DEF HostHandOver
<1>9. CASE HostAllocFails
  BY <1>9 DEF HostAllocFails
<1>10. CASE EnclaveCompute
  BY <1>10 DEF EnclaveCompute, Milenage
<1>11. CASE HostWriteField
  BY <1>11 DEF HostWriteField
<1>12. CASE HostRaiseFlag
  BY <1>12 DEF HostRaiseFlag
<1>13. CASE HostExit
  BY <1>13 DEF HostExit, HostGone
<1>14. CASE HostKilled
  BY <1>14 DEF HostKilled, HostGone
<1>15. CASE HostCleanup
  BY <1>15 DEF HostCleanup, HostGone
<1>16. CASE UeStart
  BY <1>16 DEF UeStart
<1>17. ASSUME NEW c \in Challenges, UeUnmapped(c)
      PROVE  AtMostOnce'
  BY <1>17 DEF UeUnmapped, Finish
<1>18. ASSUME NEW c \in Challenges, UeRequest(c)
      PROVE  AtMostOnce'
  BY <1>18 DEF UeRequest
<1>19. CASE UeWriteRand
  BY <1>19 DEF UeWriteRand
<1>20. CASE UeWriteAutn
  BY <1>20 DEF UeWriteAutn
<1>21. CASE UeWriteType
  BY <1>21 DEF UeWriteType
<1>22. CASE UePost
  BY <1>22 DEF UePost
<1>23. CASE UePollAgain
  BY <1>23 DEF UePollAgain
<1>24. CASE UeStopWaiting
  BY <1>24 DEF UeStopWaiting
<1>25. CASE UeReadField
  BY <1>25 DEF UeReadField
<1>26. CASE UeReturn
  BY <1>26 DEF UeReturn, Finish
<1>27. ASSUME NEW c \in Challenges, UeLocal(c)
      PROVE  AtMostOnce'
  BY <1>27 DEF UeLocal, Finish
<1>28. ASSUME NEW c \in Challenges, UeCached(c)
      PROVE  AtMostOnce'
  BY <1>28 DEF UeCached, Finish
<1>29. CASE UeSigbus
  BY <1>29 DEF UeSigbus, UeGone
<1>30. CASE UeKilled
  BY <1>30 DEF UeKilled, UeGone
<1> QED
  BY <1>1, <1>2, <1>3, <1>4, <1>5, <1>6, <1>7, <1>8, <1>9, <1>10, <1>11,
     <1>12, <1>13, <1>14, <1>15, <1>16, <1>17, <1>18, <1>19, <1>20, <1>21,
     <1>22, <1>23, <1>24, <1>25, <1>26, <1>27, <1>28, <1>29, <1>30
     DEF Next, HostStep, UeStep, Environment

-----------------------------------------------------------------------------
(* Nothing has happened yet: no object, no process, no challenge.          *)
LEMMA InitIInv == Init => IInv
<1> SUFFICES ASSUME Init
             PROVE  IInv
  OBVIOUS
<1> USE ConstantsAssumption DEF Init, Segments, NoSegment, Fields, RES, IK,
            Bytes, NoAnswer
<1>1. TypeOK
  <2>1. fpga_initialized \in BOOLEAN /\ ueSeen \in BOOLEAN
    BY Zenon
  <2>2. /\ sized \in [Segments -> BOOLEAN]
        /\ command_ready \in [Segments -> BOOLEAN]
        /\ auth_response_ready \in [Segments -> BOOLEAN]
    OBVIOUS
  <2>3. /\ vsimResponse \in [Fields -> Bytes]
        /\ ueResponse \in [Fields -> Bytes]
        /\ response \in [Segments -> [Fields -> Bytes]]
    OBVIOUS
  <2> QED
    BY <2>1, <2>2, <2>3 DEF TypeOK, HostPcs, UePcs
<1>2. ChallengeWritten /\ StaysQuiet /\ ServingInv /\ AnsweredInv
  BY DEF ChallengeWritten, StaysQuiet, ServingInv, AnsweredInv, Announcing,
         Awaiting
<1>3. ProvenanceInv /\ PendingInv /\ CopyingInv /\ ConsumedInv
  BY DEF ProvenanceInv, PendingInv, CopyingInv, ConsumedInv
<1>4. FlaggedIsStable /\ OwnAnswer /\ CleanHandover /\ AtMostOnce
  BY DEF FlaggedIsStable, OwnAnswer, CleanHandover, AtMostOnce
<1> QED
  BY <1>1, <1>2, <1>3, <1>4 DEF IInv

(* A step in which neither process does anything changes nothing IInv      *)
(* speaks of.                                                              *)
LEMMA StutterIInv ==
  ASSUME IInv, UNCHANGED vars
  PROVE  IInv'
<1> USE DEF IInv, vars, shmVars, hostVars, ueVars, histVars
<1>1. TypeOK'
  BY DEF TypeOK
<1>2. ChallengeWritten' /\ StaysQuiet' /\ ServingInv' /\ AnsweredInv'
  BY DEF ChallengeWritten, StaysQuiet, ServingInv, AnsweredInv, Announcing,
         Awaiting, Quiet, HostBusy
<1>3. ProvenanceInv' /\ PendingInv' /\ CopyingInv' /\ ConsumedInv'
  BY DEF ProvenanceInv, PendingInv, CopyingInv, ConsumedInv
<1>4. FlaggedIsStable' /\ OwnAnswer' /\ CleanHandover' /\ AtMostOnce'
  BY DEF FlaggedIsStable, OwnAnswer, CleanHandover, AtMostOnce, HostBusy
<1> QED
  BY <1>1, <1>2, <1>3, <1>4

(* IInv is inductive: the parts together are kept by every step.           *)
LEMMA NextIInv ==
  ASSUME IInv, [Next]_vars
  PROVE  IInv'
<1>1. CASE UNCHANGED vars
  BY <1>1, StutterIInv
<1>2. CASE Next
  <2>1. TypeOK'
    BY <1>2, TypeStep DEF IInv
  <2>2. ChallengeWritten'
    BY <1>2, <2>1, ChallengeWrittenStep DEF IInv
  <2>3. StaysQuiet'
    BY <1>2, <2>1, StaysQuietStep DEF IInv
  <2>4. ServingInv'
    BY <1>2, <2>1, ServingInvStep DEF IInv
  <2>5. AnsweredInv'
    BY <1>2, <2>1, AnsweredInvStep DEF IInv
  <2>6. ProvenanceInv'
    BY <1>2, <2>1, ProvenanceInvStep DEF IInv
  <2>7. PendingInv'
    BY <1>2, <2>1, PendingInvStep DEF IInv
  <2>8. CopyingInv'
    BY <1>2, <2>1, CopyingInvStep DEF IInv
  <2>9. ConsumedInv'
    BY <1>2, <2>1, ConsumedInvStep DEF IInv
  <2>10. FlaggedIsStable'
    BY <1>2, <2>1, FlaggedIsStableStep DEF IInv
  <2>11. OwnAnswer'
    BY <1>2, <2>1, OwnAnswerStep DEF IInv
  <2>12. CleanHandover'
    BY <1>2, <2>1, CleanHandoverStep DEF IInv
  <2>13. AtMostOnce'
    BY <1>2, <2>1, AtMostOnceStep DEF IInv
  <2> QED
    BY <2>1, <2>2, <2>3, <2>4, <2>5, <2>6, <2>7, <2>8, <2>9, <2>10, <2>11,
       <2>12, <2>13 DEF IInv
<1> QED
  BY <1>1, <1>2

-----------------------------------------------------------------------------
(* The inductive invariant holds in every reachable state, whatever order  *)
(* the two processes run, die and start again in.                          *)
(* (usim.cc 67-371, host-fpga.cpp 120-260, fpga-auth.c 69-141)             *)
THEOREM Invariance == Spec => []IInv
<1>1. Init => IInv
  BY InitIInv
<1>2. IInv /\ [Next]_vars => IInv'
  BY NextIInv
<1> QED
  BY <1>1, <1>2, PTL DEF Spec

(* Every variable keeps its type: the poll count stays within its limit, a *)
(* process at work has an object, an answer only field numbers it has.     *)
(* (usim.cc 330, host-fpga.cpp 134-148)                                    *)
THEOREM TypeCorrect == Spec => []TypeOK
<1>1. IInv => TypeOK
  BY DEF IInv
<1> QED
  BY <1>1, Invariance, PTL

(* An authentication that began on quiet memory and saw the response flag  *)
(* returns the response to its own challenge, in all four fields.          *)
(* (usim.cc 316-347 against host-fpga.cpp 134-199)                         *)
THEOREM OwnAnswerHolds == Spec => []OwnAnswer
<1>1. IInv => OwnAnswer
  BY DEF IInv
<1> QED
  BY <1>1, Invariance, PTL

(* The challenge of a quiet request is handed to an enclave at most once,  *)
(* though the vSIM may die and start again at any point.                   *)
(* (host-fpga.cpp 179, 233)                                                *)
THEOREM AtMostOnceHolds == Spec => []AtMostOnce
<1>1. IInv => AtMostOnce
  BY DEF IInv
<1> QED
  BY <1>1, Invariance, PTL

(* The enclave never receives a mixture of two quiet challenges, nor one   *)
(* before srsUE announced it.  (usim.cc 317-323, host-fpga.cpp 165-179)    *)
THEOREM CleanHandoverHolds == Spec => []CleanHandover
<1>1. IInv => CleanHandover
  BY DEF IInv
<1> QED
  BY <1>1, Invariance, PTL

(* While a response is flagged no vSIM is at work on its object.           *)
(* (host-fpga.cpp 140-148, 163, 235)                                       *)
THEOREM FlaggedIsStableHolds == Spec => []FlaggedIsStable
<1>1. IInv => FlaggedIsStable
  BY DEF IInv
<1> QED
  BY <1>1, Invariance, PTL
=============================================================================

---------------------------- MODULE AuthService ----------------------------
(***************************************************************************)
(* What authentication through the vSIM promises, without shared memory: a *)
(* service that is asked one challenge at a time.  It works on a challenge *)
(* only after it was asked, and once; the answer it gives is the answer to *)
(* the challenge that is being asked, and follows the work.  The asker may *)
(* give up at any moment, the service may then work for nobody.            *)
(*                                                                         *)
(* VsimAuth implements this specification for the requests that begin on a *)
(* quiet object (VsimAuth!Serves).                                         *)
(***************************************************************************)
CONSTANTS
  Challenges,   \* what may be asked
  Nobody,       \* no challenge
  Answer(_)     \* the one right answer to a challenge

VARIABLES
  asked,        \* challenges that have been asked
  pending,      \* the challenge being asked, or Nobody
  worked,       \* challenges the service has worked on
  answered      \* challenges with the answers given to them

vars == <<asked, pending, worked, answered>>

Init ==
  /\ asked = {}
  /\ pending = Nobody
  /\ worked = {}
  /\ answered = {}

Ask(c) ==
  /\ pending = Nobody
  /\ c \notin asked
  /\ asked' = asked \cup {c}
  /\ pending' = c
  /\ UNCHANGED <<worked, answered>>

Work(c) ==
  /\ c \in asked \ worked
  /\ worked' = worked \cup {c}
  /\ UNCHANGED <<asked, pending, answered>>

Receive ==
  /\ pending \in worked
  /\ answered' = answered \cup {[chal |-> pending, resp |-> Answer(pending)]}
  /\ pending' = Nobody
  /\ UNCHANGED <<asked, worked>>

GiveUp ==
  /\ pending # Nobody
  /\ pending' = Nobody
  /\ UNCHANGED <<asked, worked, answered>>

Next ==
  \/ \E c \in Challenges : Ask(c) \/ Work(c)
  \/ Receive
  \/ GiveUp

Spec == Init /\ [][Next]_vars
=============================================================================

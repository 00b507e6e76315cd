---------------------------- MODULE MC_Provision ----------------------------
(***************************************************************************)
(* Instances of Provision for TLC.  Two vSIMs make one wait in the backlog *)
(* while the other is served, three let the backlog itself hold two; two   *)
(* server runs make a handshake straddle a restart; HeadSize is below the  *)
(* 24 bytes that ServerLengthWraps needs.                                  *)
(***************************************************************************)
EXTENDS Provision, TLC

CONSTANTS v1, v2, v3    \* distinct vSIM runs

MCVsims    == {v1, v2, v3}
MCTwoVsims == {v1, v2}
MCExpected == {v1}

(* Nothing in Spec tells one vSIM from another (Expected does not occur in *)
(* it), so the safety run takes the vSIMs for interchangeable.             *)
MCSymmetry == Permutations(MCVsims)
=============================================================================

---------------------------- MODULE MC_VsimAuth ----------------------------
(***************************************************************************)
(* Instances of VsimAuth small enough for TLC.  Two challenges are what    *)
(* every pairwise property needs; one of them carries an AUTN that does    *)
(* not verify.  Two starts of each process give every restart order, a     *)
(* second object after an unlink, and a stale object under a new process.  *)
(***************************************************************************)
EXTENDS VsimAuth

CONSTANTS c1, c2    \* two distinct challenges

MCChallenges == {c1, c2}
MCGoodAutn   == {c1}
=============================================================================

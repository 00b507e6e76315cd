----------------------------- MODULE Agreement -----------------------------
(***************************************************************************)
(* What provisioning promises, without messages: a vSIM and the provider   *)
(* agree on a session.  The vSIM settles on a session, the provider        *)
(* attests that very session, then acknowledges it, and only then the vSIM *)
(* ends well.  Each of these happens at most once, in this order, whatever *)
(* happens to the other vSIMs; a vSIM may end badly at any moment, and the *)
(* provider may be one step behind a vSIM that did.                        *)
(*                                                                         *)
(* Provision implements this specification (Provision!Agrees).             *)
(***************************************************************************)
CONSTANTS
  Vsims,      \* the vSIMs
  Sessions,   \* the sessions they may settle on, records with a field vsim
  NoSession   \* the session of a vSIM that has not settled on one

VARIABLES
  key,        \* the session each vSIM has settled on
  attested,   \* the sessions whose vSIM the provider has attested
  acked,      \* the sessions the provider has acknowledged
  outcome     \* how each vSIM ended

vars == <<key, attested, acked, outcome>>

Init ==
  /\ key = [v \in Vsims |-> NoSession]
  /\ attested = {}
  /\ acked = {}
  /\ outcome = [v \in Vsims |-> "open"]

Settle(v) ==
  /\ outcome[v] = "open"
  /\ key[v] = NoSession
  /\ \E s \in Sessions : s.vsim = v /\ key' = [key EXCEPT ![v] = s]
  /\ UNCHANGED <<attested, acked, outcome>>

Attest(v) ==
  /\ key[v] \in Sessions \ attested
  /\ attested' = attested \cup {key[v]}
  /\ UNCHANGED <<key, acked, outcome>>

Acknowledge(v) ==
  /\ key[v] \in attested \ acked
  /\ acked' = acked \cup {key[v]}
  /\ UNCHANGED <<key, attested, outcome>>

EndWell(v) ==
  /\ outcome[v] = "open"
  /\ key[v] \in acked
  /\ outcome' = [outcome EXCEPT ![v] = "done"]
  /\ UNCHANGED <<key, attested, acked>>

EndBadly(v) ==
  /\ outcome[v] = "open"
  /\ outcome' = [outcome EXCEPT ![v] = "failed"]
  /\ UNCHANGED <<key, attested, acked>>

Next ==
  \E v \in Vsims :
    Settle(v) \/ Attest(v) \/ Acknowledge(v) \/ EndWell(v) \/ EndBadly(v)

Spec == Init /\ [][Next]_vars
=============================================================================

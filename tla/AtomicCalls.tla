----------------------------- MODULE AtomicCalls -----------------------------
(***************************************************************************)
(* What the code of the enclaves takes an ocall for: a call like that of a *)
(* function of its own.  It is one step, it never fails, the string that   *)
(* is printed and the message that is sent are those passed, and a message *)
(* waited for is there, whole, when the enclave fetches it.  There is no   *)
(* shared buffer, no number of a call, no status and no other side.        *)
(*                                                                         *)
(* EdgeCalls implements this specification (EdgeCalls!CallsAreAtomic);     *)
(* Provision and VsimAuth, which model what is said over these calls, take *)
(* every one of them for one step.                                         *)
(***************************************************************************)
EXTENDS Sequences

CONSTANTS
  Entry,        \* what each enclave has to do
  Apology,      \* what it does instead when a message is of no use to it
  String,       \* the strings it prints
  Incoming,     \* the messages each wait may bring
  Outgoing,     \* the names of the calls that send
  Boxed,        \* the message the enclave boxes
  Computed,     \* the message an enclave computes of what it has fetched
  Nothing       \* no message

VARIABLES
  enclave,      \* which enclave runs
  todo,         \* the operations it has still to do
  copy,         \* the message it has fetched last
  built,        \* the message it has built last
  received,     \* the message that came last
  sent,         \* the message that was sent last
  printed       \* the string that was printed last

vars == <<enclave, todo, copy, built, received, sent, printed>>

Op == Head(todo)
Does(op) == todo # <<>> /\ Op.op = op
Done == todo' = Tail(todo)

Init ==
  /\ enclave \in DOMAIN Entry
  /\ todo = Entry[enclave].todo
  /\ built = Entry[enclave].built
  /\ copy = Nothing /\ received = Nothing /\ sent = Nothing /\ printed = Nothing

PrintsItsString ==
  /\ Does("print") /\ Done
  /\ printed' = String[Op.string]
  /\ UNCHANGED <<enclave, copy, built, received, sent>>

SendsTheMessage ==
  /\ \E name \in Outgoing : Does(name)
  /\ Op.size = built.size
  /\ sent' = built
  /\ Done
  /\ UNCHANGED <<enclave, copy, built, received, printed>>

Waits ==
  /\ \E name \in DOMAIN Incoming : Does(name) /\ received' \in Incoming[name]
  /\ Done
  /\ UNCHANGED <<enclave, copy, built, sent, printed>>

Sleeps ==
  /\ Does("wait") /\ Done
  /\ UNCHANGED <<enclave, copy, built, received, sent, printed>>

(* Of a message of no bytes nothing is fetched. *)
Fetches ==
  /\ Does("copy") /\ Done
  /\ copy' = IF received.size = 0 THEN copy ELSE received
  /\ built' = IF enclave \in DOMAIN Computed THEN Computed[enclave] ELSE built
  /\ UNCHANGED <<enclave, received, sent, printed>>

Opens ==
  /\ Does("check")
  /\ \/ copy = received /\ copy.size = Op.size /\ Done
     \/ todo' = Apology
  /\ UNCHANGED <<enclave, copy, built, received, sent, printed>>

Boxes ==
  /\ Does("box") /\ Done
  /\ built' = Boxed
  /\ UNCHANGED <<enclave, copy, received, sent, printed>>

Next ==
  \/ PrintsItsString \/ SendsTheMessage \/ Waits \/ Sleeps
  \/ Fetches \/ Opens \/ Boxes

Spec == Init /\ [][Next]_vars
=============================================================================

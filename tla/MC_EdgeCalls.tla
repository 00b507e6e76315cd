---------------------------- MODULE MC_EdgeCalls ----------------------------
(* Model checking of EdgeCalls with the sizes of the code.                 *)
EXTENDS EdgeCalls

(* The untrusted memory of an enclave has 8192 bytes unless the host sets  *)
(* another size, and none does; struct edge_call takes 48 of them.         *)
MCRoom == 8192 - 48

(* nothing, part of a message, an Ack, a response, all that is read at once *)
MCReadSizes == {0, 20, 72, 233, BUFFER_SIZE}
=============================================================================

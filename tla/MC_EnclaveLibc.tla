--------------------------- MODULE MC_EnclaveLibc ---------------------------
(* Model checking of EnclaveLibc.  A second has 3 milliseconds of 4        *)
(* microseconds of 2 cycles; the product overflows after 85 cycles, so     *)
(* that the clock starts anew once.  Five bytes of entropy are drawn by up *)
(* to three.                                                               *)
EXTENDS EnclaveLibc

MCRequests == 1 .. 3
=============================================================================

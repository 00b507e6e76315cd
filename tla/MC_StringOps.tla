---------------------------- MODULE MC_StringOps ----------------------------
(* Model checking of StringOps with words of four bytes and a memory of    *)
(* nearly four of them.                                                    *)
EXTENDS StringOps

(* all bytes distinct; pairs and runs of equal bytes, with NULs; almost    *)
(* periodic, so that areas agree and differ in their last bytes            *)
MCContents ==
  { [a \in Addr |-> a + 1], [a \in Addr |-> a % 2],
    [a \in Addr |-> IF a = 10 THEN 0 ELSE 1 + (a % 3)],
    [a \in Addr |-> IF a = 7 THEN 200 ELSE 3] }
=============================================================================

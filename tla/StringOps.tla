------------------------------ MODULE StringOps ------------------------------
(***************************************************************************)
(* The string functions the enclaves are linked with, which replace those  *)
(* of the Keystone SDK (keytone-patch/string.c): memcpy, memmove, memset,  *)
(* memcmp and strlen, loop by loop over one memory, so that overlapping    *)
(* areas, short lengths and unaligned addresses do what they do in the     *)
(* code.  memcpy and memset move whole words when they may.                *)
(*                                                                         *)
(* Abstractions.  A word is WORD bytes (8 on the target); an address is a  *)
(* number, and no area wraps around the end of the address space: the last *)
(* WORD bytes of the memory belong to none.  The value memset stores is a  *)
(* byte already.                                                           *)
(***************************************************************************)
EXTENDS Integers

CONSTANTS
  WORD,        \* sizeof(uintptr_t)
  MemSize,     \* bytes of memory
  Contents     \* what the memory may hold before the call

Addr == 0 .. MemSize - 1
Byte == 0 .. 255

ASSUME ConstantsAssumption ==
  /\ WORD \in Nat \ {0}
  /\ MemSize \in Nat
  /\ Contents \subseteq [Addr -> Byte]

(* The len bytes at p *)
Area(p, len) == p .. p + len - 1

Disjoint(p, q, len) == p + len <= q \/ q + len <= p

VARIABLES
  fn, dest, src, len, value,    \* the call; memcmp's s1 is dest, its s2 src
  pc,                           \* the loop, or "returned"
  d, s, n,                      \* the moving pointers, what is left to do
  mem,
  ret,                          \* what memcmp and strlen return
  before,                       \* history: the memory at the call
  loaded                        \* history: the addresses read

callVars == <<fn, dest, src, len, value, before>>
vars     == <<callVars, pc, d, s, n, mem, ret, loaded>>

Functions == {"memcpy", "memmove", "memset", "memcmp", "strlen"}

-----------------------------------------------------------------------------
(* The two tests of alignment: the low bits of (dest | src), of (dest|len) *)
Aligned(x, y) == x % WORD = 0 /\ y % WORD = 0

(* The size bytes at d become those at s, which are all read first. *)
Store(size) ==
  /\ mem' = [a \in Addr |-> IF a \in Area(d, size) THEN mem[s + (a - d)]
                            ELSE mem[a]]
  /\ loaded' = loaded \cup Area(s, size)

Return == pc' = "returned" /\ UNCHANGED <<d, s, n, mem, ret, loaded>>

(* A slip: only dest is tested. *)
MemcpyEnter_DestOnly ==
  /\ pc = "enter" /\ fn = "memcpy"
  /\ pc' = IF dest % WORD = 0 THEN "words" ELSE "bytes"
  /\ d' = dest /\ s' = src
  /\ UNCHANGED <<callVars, n, mem, ret, loaded>>

(* memcpy: words, if both pointers are aligned *)
MemcpyEnter ==
  /\ pc = "enter" /\ fn = "memcpy"
  /\ pc' = IF Aligned(dest, src) THEN "words" ELSE "bytes"
  /\ d' = dest /\ s' = src
  /\ UNCHANGED <<callVars, n, mem, ret, loaded>>

(* A slip: the bytes of the last word are not reckoned with. *)
MemcpyWords_TooFar ==
  /\ pc = "words" /\ fn = "memcpy"
  /\ IF d < dest + len
     THEN Store(WORD) /\ d' = d + WORD /\ s' = s + WORD /\ UNCHANGED <<pc, n, ret>>
     ELSE pc' = "bytes" /\ UNCHANGED <<d, s, n, mem, ret, loaded>>
  /\ UNCHANGED callVars

(* ... as long as a whole word is left: for a short len the bound lies     *)
(* before dest                                                             *)
MemcpyWords ==
  /\ pc = "words" /\ fn = "memcpy"
  /\ IF d < dest + len - (WORD - 1)
     THEN Store(WORD) /\ d' = d + WORD /\ s' = s + WORD /\ UNCHANGED <<pc, n, ret>>
     ELSE pc' = "bytes" /\ UNCHANGED <<d, s, n, mem, ret, loaded>>
  /\ UNCHANGED callVars

(* then the bytes that are left, or all of them *)
MemcpyBytes ==
  /\ pc = "bytes" /\ fn = "memcpy"
  /\ IF d < dest + len
     THEN Store(1) /\ d' = d + 1 /\ s' = s + 1 /\ UNCHANGED <<pc, n, ret>>
     ELSE Return
  /\ UNCHANGED callVars

(* A slip: memmove always copies upwards. *)
MemmoveEnter_Upwards ==
  /\ pc = "enter" /\ fn = "memmove"
  /\ pc' = "up" /\ d' = dest /\ s' = src
  /\ n' = len
  /\ UNCHANGED <<callVars, mem, ret, loaded>>

(* memmove: upwards from the start or downwards from the end *)
MemmoveEnter ==
  /\ pc = "enter" /\ fn = "memmove"
  /\ IF dest <= src
     THEN pc' = "up" /\ d' = dest /\ s' = src
     ELSE pc' = "down" /\ d' = dest + len /\ s' = src + len
  /\ n' = len
  /\ UNCHANGED <<callVars, mem, ret, loaded>>

(* A slip: one byte too many. *)
MemmoveUp_OneMore ==
  /\ pc = "up"
  /\ IF n >= 0
     THEN /\ Store(1) /\ d' = d + 1 /\ s' = s + 1 /\ n' = n - 1
          /\ UNCHANGED <<pc, ret>>
     ELSE Return
  /\ UNCHANGED callVars

MemmoveUp ==
  /\ pc = "up"
  /\ IF n > 0
     THEN /\ Store(1) /\ d' = d + 1 /\ s' = s + 1 /\ n' = n - 1
          /\ UNCHANGED <<pc, ret>>
     ELSE Return
  /\ UNCHANGED callVars

MemmoveDown ==
  /\ pc = "down"
  /\ IF n > 0
     THEN /\ d' = d - 1 /\ s' = s - 1 /\ n' = n - 1
          /\ mem' = [mem EXCEPT ![d - 1] = mem[s - 1]]
          /\ loaded' = loaded \cup {s - 1}
          /\ UNCHANGED <<pc, ret>>
     ELSE Return
  /\ UNCHANGED callVars

(* A slip: only dest is tested. *)
MemsetEnter_DestOnly ==
  /\ pc = "enter" /\ fn = "memset"
  /\ pc' = IF dest % WORD = 0 THEN "words" ELSE "bytes"
  /\ d' = dest
  /\ UNCHANGED <<callVars, s, n, mem, ret, loaded>>

(* memset: words, if dest and len are multiples of a word *)
MemsetEnter ==
  /\ pc = "enter" /\ fn = "memset"
  /\ pc' = IF Aligned(dest, len) THEN "words" ELSE "bytes"
  /\ d' = dest
  /\ UNCHANGED <<callVars, s, n, mem, ret, loaded>>

MemsetLoop ==
  /\ pc \in {"words", "bytes"} /\ fn = "memset"
  /\ LET size == IF pc = "words" THEN WORD ELSE 1
     IN IF d < dest + len
        THEN /\ mem' = [a \in Addr |-> IF a \in Area(d, size) THEN value
                                       ELSE mem[a]]
             /\ d' = d + size
             /\ UNCHANGED <<pc, s, n, ret, loaded>>
        ELSE Return
  /\ UNCHANGED callVars

(* memcmp and strlen begin at their first byte. *)
ScanEnter ==
  /\ pc = "enter" /\ fn \in {"memcmp", "strlen"}
  /\ pc' = "scan" /\ d' = dest /\ s' = src /\ n' = len
  /\ UNCHANGED <<callVars, mem, ret, loaded>>

(* A slip: the comparison ends when the bytes agree. *)
MemcmpScan_Inverted ==
  /\ pc = "scan" /\ fn = "memcmp"
  /\ IF n > 0 /\ mem[d] # mem[s]
     THEN /\ d' = d + 1 /\ s' = s + 1 /\ n' = n - 1
          /\ loaded' = loaded \cup {d, s}
          /\ UNCHANGED <<pc, mem, ret>>
     ELSE /\ pc' = "returned"
          /\ ret' = IF n > 0 THEN mem[d] - mem[s] ELSE 0
          /\ loaded' = loaded \cup IF n > 0 THEN {d, s} ELSE {}
          /\ UNCHANGED <<d, s, n, mem>>
  /\ UNCHANGED callVars

(* memcmp: on to the first pair of bytes that differ *)
MemcmpScan ==
  /\ pc = "scan" /\ fn = "memcmp"
  /\ IF n > 0 /\ mem[d] = mem[s]
     THEN /\ d' = d + 1 /\ s' = s + 1 /\ n' = n - 1
          /\ loaded' = loaded \cup {d, s}
          /\ UNCHANGED <<pc, mem, ret>>
     ELSE /\ pc' = "returned"
          /\ ret' = IF n > 0 THEN mem[d] - mem[s] ELSE 0
          /\ loaded' = loaded \cup IF n > 0 THEN {d, s} ELSE {}
          /\ UNCHANGED <<d, s, n, mem>>
  /\ UNCHANGED callVars

(* strlen: on to the NUL *)
StrlenScan ==
  /\ pc = "scan" /\ fn = "strlen"
  /\ loaded' = loaded \cup {s}
  /\ IF mem[s] # 0
     THEN s' = s + 1 /\ UNCHANGED <<pc, ret>>
     ELSE pc' = "returned" /\ ret' = s - src /\ UNCHANGED s
  /\ UNCHANGED <<callVars, d, n, mem>>

-----------------------------------------------------------------------------
(* A string ends in the memory; len is how long it is. *)
IsString(p, l) ==
  before[p + l] = 0 /\ \A a \in Area(p, l) : before[a] # 0

Init ==
  /\ fn \in Functions
  /\ before \in Contents
  /\ dest \in Addr /\ src \in Addr /\ value \in {0, 255}
  /\ len \in 0 .. MemSize
  /\ dest + len <= MemSize - WORD /\ src + len <= MemSize - WORD
  /\ fn = "strlen" => IsString(src, len)
  /\ pc = "enter" /\ d = dest /\ s = src /\ n = 0
  /\ mem = before /\ ret = 0 /\ loaded = {}

Next ==
  \/ MemcpyEnter \/ MemcpyWords \/ MemcpyBytes
  \/ MemmoveEnter \/ MemmoveUp \/ MemmoveDown
  \/ MemsetEnter \/ MemsetLoop
  \/ ScanEnter \/ MemcmpScan \/ StrlenScan

Spec == Init /\ [][Next]_vars

-----------------------------------------------------------------------------
(***************************************************************************)
(* Properties.                                                             *)
(***************************************************************************)

(* Every variable has its type; what is left to do is never negative.      *)
TypeOK ==
  /\ fn \in Functions
  /\ dest \in Addr /\ src \in Addr /\ value \in Byte
  /\ len \in Nat /\ dest + len <= MemSize /\ src + len <= MemSize
  /\ before \in [Addr -> Byte]
  /\ pc \in {"enter", "words", "bytes", "up", "down", "scan", "returned"}
  /\ d \in Int /\ s \in Int /\ n \in Nat
  /\ mem \in [Addr -> Byte]
  /\ ret \in Int
  /\ loaded \subseteq Addr

(* No function reads or writes outside the areas it is given, and no word  *)
(* is read or written at an address that is not a multiple of a word.      *)
(* (string.c 10-18, 36-46)                                                 *)
StaysInside ==
  /\ \A a \in Addr : mem[a] # before[a] =>
       a \in Area(dest, len) /\ fn \in {"memcpy", "memmove", "memset"}
  /\ loaded \subseteq Area(src, len)
                    \cup (IF fn = "memcmp" THEN Area(dest, len) ELSE {})
                    \cup (IF fn = "strlen" THEN {src + len} ELSE {})
  /\ pc = "words" => d % WORD = 0 /\ (fn = "memcpy" => s % WORD = 0)

(* memmove gives dest what was at src, overlap or not; so does memcpy when *)
(* the areas are apart, and also when dest is not above src (a copy onto   *)
(* itself is one compilers make).                                          *)
(* (string.c 5-21, 73-90)                                                  *)
Copies ==
  /\ pc = "returned"
  /\ \/ fn = "memmove"
     \/ fn = "memcpy" /\ (Disjoint(dest, src, len) \/ dest <= src)
  => mem = [a \in Addr |-> IF a \in Area(dest, len)
                           THEN before[src + (a - dest)] ELSE before[a]]

(* memset fills its area, in either loop.  (string.c 34-49)                *)
Fills ==
  pc = "returned" /\ fn = "memset" =>
    mem = [a \in Addr |-> IF a \in Area(dest, len) THEN value ELSE before[a]]

(* memcmp returns 0 for equal areas, and otherwise orders them by the      *)
(* first bytes that differ; strlen returns the length.                     *)
(* (string.c 23-32, 50-62)                                                 *)
Scans ==
  pc = "returned" =>
    /\ fn = "strlen" => ret = len
    /\ fn = "memcmp" =>
         \/ /\ ret = 0
            /\ \A i \in 0 .. len - 1 : before[dest + i] = before[src + i]
         \/ \E i \in 0 .. len - 1 :
              /\ ret = before[dest + i] - before[src + i] /\ ret # 0
              /\ \A j \in 0 .. i - 1 : before[dest + j] = before[src + j]
=============================================================================

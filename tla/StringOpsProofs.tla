-------------------------- MODULE StringOpsProofs ---------------------------
(***************************************************************************)
(* What the string functions return, for every word size, memory and call. *)
(*                                                                         *)
(* Each loop has an invariant: how far it has got, and what the memory is  *)
(* by then.  LoopInv says it of the pointers and of the functions that     *)
(* only read, CopyInv of the memory under a copy, FillInv of the memory    *)
(* under memset; StaysInside is inductive together with them.              *)
(***************************************************************************)
EXTENDS StringOps, TLAPS

(* memmove always, memcpy when the areas are apart or dest is not above src *)
Copying ==
  \/ fn = "memmove"
  \/ fn = "memcpy" /\ (Disjoint(dest, src, len) \/ dest <= src)

LoopInv ==
  /\ pc \in {"words", "bytes"} => fn \in {"memcpy", "memset"}
  /\ pc \in {"up", "down"} => fn = "memmove"
  /\ pc = "scan" => fn \in {"memcmp", "strlen"}
  /\ pc \in {"words", "bytes"} /\ fn = "memcpy" =>
       dest <= d /\ d <= dest + len /\ s = src + (d - dest)
  /\ pc \in {"up", "scan"} /\ fn # "strlen" =>
       n <= len /\ d = dest + (len - n) /\ s = src + (len - n)
  /\ pc = "up" => dest <= src
  /\ pc = "down" => n <= len /\ d = dest + n /\ s = src + n /\ src < dest
  /\ fn = "strlen" => src + len \in Addr /\ IsString(src, len)
  /\ fn \in {"memcmp", "strlen"} => mem = before
  /\ pc = "scan" /\ fn = "strlen" => src <= s /\ s <= src + len
  /\ pc = "scan" /\ fn = "memcmp" =>
       \A i \in 0 .. len - n - 1 : before[dest + i] = before[src + i]

(* The bytes from one address up to another have been copied. *)
Copied(from, to) ==
  \A a \in Addr : mem[a] = IF from <= a /\ a < to
                           THEN before[src + (a - dest)] ELSE before[a]

CopyInv ==
  Copying =>
    /\ pc = "enter" => mem = before
    /\ pc \in {"words", "bytes", "up"} => Copied(dest, d)
    /\ pc = "down" => Copied(d, dest + len)
    /\ pc = "returned" => Copied(dest, dest + len)

(* The area is filled up to an address; in the word loop a whole number of *)
(* words is left.                                                          *)
Filled(to) ==
  \A a \in Addr : mem[a] = IF dest <= a /\ a < to THEN value ELSE before[a]

FillInv ==
  fn = "memset" =>
    /\ pc = "enter" => mem = before
    /\ pc \in {"words", "bytes"} => dest <= d /\ d <= dest + len /\ Filled(d)
    /\ pc = "words" => \E k \in Nat : dest + len = d + k * WORD
    /\ pc = "returned" => Filled(dest + len)

Inv == TypeOK /\ LoopInv /\ CopyInv /\ FillInv /\ StaysInside /\ Scans

USE ConstantsAssumption

-----------------------------------------------------------------------------
(* Initially nothing has been read or written. *)
LEMMA Initially == Init => Inv
<1> SUFFICES ASSUME Init PROVE Inv
  OBVIOUS
<1>1. TypeOK
  <2>1. /\ dest \in Addr /\ src \in Addr /\ value \in Byte
        /\ len \in Nat /\ dest + len <= MemSize /\ src + len <= MemSize
    BY DEF Init, Addr, Byte
  <2>2. d \in Int /\ s \in Int /\ n \in Nat /\ ret \in Int /\ loaded \subseteq Addr
    BY <2>1 DEF Init, Addr
  <2>3. /\ fn \in Functions /\ pc = "enter"
        /\ before \in [Addr -> Byte] /\ mem \in [Addr -> Byte]
    BY DEF Init
  <2> QED
    BY <2>1, <2>2, <2>3 DEF TypeOK
<1>2. LoopInv
  BY DEF Init, LoopInv, Addr, IsString
<1>3. CopyInv /\ FillInv /\ StaysInside /\ Scans
  BY DEF Init, CopyInv, FillInv, StaysInside, Scans
<1> QED
  BY <1>1, <1>2, <1>3 DEF Inv

(* Storing size bytes that lie in the memory keeps it a memory. *)
LEMMA StoreType ==
  ASSUME TypeOK, NEW size \in Nat, Store(size),
         0 <= d, d + size <= MemSize, 0 <= s, s + size <= MemSize
  PROVE  mem' \in [Addr -> Byte] /\ loaded' \subseteq Addr
BY DEF TypeOK, Store, Area, Addr

-----------------------------------------------------------------------------
(* Every step keeps the types and the pointers in their areas. *)
LEMMA StepLoop == Inv /\ [Next]_vars => TypeOK' /\ LoopInv'
<1> SUFFICES ASSUME Inv, [Next]_vars PROVE TypeOK' /\ LoopInv'
  OBVIOUS
<1>0. TypeOK /\ LoopInv
  BY DEF Inv
<1>t. /\ dest \in Int /\ src \in Int /\ len \in Nat /\ MemSize \in Nat
      /\ 0 <= dest /\ 0 <= src /\ d \in Int /\ s \in Int /\ n \in Nat
      /\ dest + len <= MemSize /\ src + len <= MemSize
      /\ WORD \in Nat /\ WORD >= 1
  BY <1>0 DEF TypeOK, Addr
<1>1. CASE MemcpyEnter
  <2>1. TypeOK'
    BY <1>0, <1>t, <1>1 DEF TypeOK, MemcpyEnter, callVars
  <2> QED
    BY <2>1, <1>0, <1>t, <1>1 DEF LoopInv, MemcpyEnter, callVars, IsString
<1>2. CASE MemcpyWords
  <2>1. CASE d < dest + len - (WORD - 1)
    <3>0. d + WORD <= dest + len /\ dest <= d /\ s = src + (d - dest)
      BY <1>0, <1>t, <1>2, <2>1 DEF LoopInv, MemcpyWords
    <3>1. mem' \in [Addr -> Byte] /\ loaded' \subseteq Addr
      <4>1. Store(WORD)
        BY <1>2, <2>1 DEF MemcpyWords
      <4>2. d + WORD <= MemSize /\ s + WORD <= MemSize /\ 0 <= d /\ 0 <= s
        BY <3>0, <1>t
      <4> QED
        BY <4>1, <4>2, <1>0, <1>t, StoreType
    <3>2. TypeOK'
      BY <3>1, <2>1, <1>0, <1>t, <1>2 DEF TypeOK, MemcpyWords, callVars
    <3> QED
      BY <3>0, <3>2, <2>1, <1>0, <1>t, <1>2 DEF LoopInv, MemcpyWords, callVars, IsString
  <2>2. CASE ~(d < dest + len - (WORD - 1))
    BY <2>2, <1>0, <1>t, <1>2 DEF TypeOK, LoopInv, MemcpyWords, callVars, IsString
  <2> QED
    BY <2>1, <2>2
<1>3. CASE MemcpyBytes
  <2>1. CASE d < dest + len
    <3>0. d + 1 <= dest + len /\ dest <= d /\ s = src + (d - dest)
      BY <1>0, <1>t, <1>3, <2>1 DEF LoopInv, MemcpyBytes
    <3>1. mem' \in [Addr -> Byte] /\ loaded' \subseteq Addr
      <4>1. Store(1)
        BY <1>3, <2>1 DEF MemcpyBytes
      <4>2. d + 1 <= MemSize /\ s + 1 <= MemSize /\ 0 <= d /\ 0 <= s
        BY <3>0, <1>t
      <4> QED
        BY <4>1, <4>2, <1>0, <1>t, StoreType
    <3>2. TypeOK'
      BY <3>1, <2>1, <1>0, <1>t, <1>3 DEF TypeOK, MemcpyBytes, callVars
    <3> QED
      BY <3>0, <3>2, <2>1, <1>0, <1>t, <1>3 DEF LoopInv, MemcpyBytes, callVars, IsString
  <2>2. CASE ~(d < dest + len)
    BY <2>2, <1>0, <1>t, <1>3 DEF TypeOK, LoopInv, MemcpyBytes, Return, callVars, IsString
  <2> QED
    BY <2>1, <2>2
<1>4. CASE MemmoveEnter
  <2>1. TypeOK'
    BY <1>0, <1>t, <1>4 DEF TypeOK, MemmoveEnter, callVars
  <2> QED
    BY <2>1, <1>0, <1>t, <1>4 DEF LoopInv, MemmoveEnter, callVars, IsString
<1>5. CASE MemmoveUp
  <2>1. CASE n > 0
    <3>0. /\ n <= len /\ d = dest + (len - n) /\ s = src + (len - n)
          /\ fn = "memmove" /\ dest <= src
      BY <1>0, <1>5 DEF LoopInv, MemmoveUp
    <3>1. mem' \in [Addr -> Byte] /\ loaded' \subseteq Addr
      <4>1. Store(1)
        BY <1>5, <2>1 DEF MemmoveUp
      <4>2. d + 1 <= MemSize /\ s + 1 <= MemSize /\ 0 <= d /\ 0 <= s
        BY <3>0, <1>t, <2>1
      <4> QED
        BY <4>1, <4>2, <1>0, <1>t, StoreType
    <3>2. TypeOK'
      BY <3>1, <2>1, <1>0, <1>t, <1>5 DEF TypeOK, MemmoveUp, callVars
    <3> QED
      BY <3>0, <3>2, <2>1, <1>0, <1>t, <1>5 DEF LoopInv, MemmoveUp, callVars, IsString
  <2>2. CASE ~(n > 0)
    BY <2>2, <1>0, <1>t, <1>5 DEF TypeOK, LoopInv, MemmoveUp, Return, callVars, IsString
  <2> QED
    BY <2>1, <2>2
<1>6. CASE MemmoveDown
  <2>1. CASE n > 0
    <3>0. /\ n <= len /\ d = dest + n /\ s = src + n
          /\ fn = "memmove" /\ src < dest
      BY <1>0, <1>6 DEF LoopInv, MemmoveDown
    <3>1. d - 1 \in Addr /\ s - 1 \in Addr
      BY <3>0, <1>t, <2>1 DEF Addr
    <3>2. TypeOK'
      <4>1. mem' \in [Addr -> Byte]
        BY <3>1, <2>1, <1>0, <1>6 DEF TypeOK, MemmoveDown
      <4>2. loaded' \subseteq Addr
        BY <3>1, <2>1, <1>0, <1>6 DEF TypeOK, MemmoveDown
      <4>3. d' \in Int /\ s' \in Int /\ n' \in Nat
        BY <2>1, <1>t, <1>6 DEF MemmoveDown
      <4> QED
        BY <4>1, <4>2, <4>3, <2>1, <1>0, <1>6 DEF TypeOK, MemmoveDown, callVars
    <3> QED
      BY <3>0, <3>2, <2>1, <1>0, <1>t, <1>6 DEF LoopInv, MemmoveDown, callVars, IsString
  <2>2. CASE ~(n > 0)
    BY <2>2, <1>0, <1>t, <1>6 DEF TypeOK, LoopInv, MemmoveDown, Return, callVars, IsString
  <2> QED
    BY <2>1, <2>2
<1>7. CASE MemsetEnter
  <2>1. TypeOK'
    BY <1>0, <1>t, <1>7 DEF TypeOK, MemsetEnter, callVars
  <2> QED
    BY <2>1, <1>0, <1>t, <1>7 DEF LoopInv, MemsetEnter, callVars, IsString
<1>8. CASE MemsetLoop
  <2>1. CASE d < dest + len
    <3>1. mem' \in [Addr -> Byte]
      BY <1>0, <2>1, <1>8 DEF TypeOK, MemsetLoop
    <3>2. TypeOK'
      <4>1. d' \in Int
        BY <2>1, <1>t, <1>8 DEF MemsetLoop
      <4> QED
        BY <4>1, <3>1, <2>1, <1>0, <1>8 DEF TypeOK, MemsetLoop, callVars
    <3> QED
      BY <3>2, <2>1, <1>0, <1>t, <1>8 DEF LoopInv, MemsetLoop, callVars, IsString
  <2>2. CASE ~(d < dest + len)
    BY <2>2, <1>0, <1>t, <1>8 DEF TypeOK, LoopInv, MemsetLoop, Return, callVars, IsString
  <2> QED
    BY <2>1, <2>2
<1>9. CASE ScanEnter
  <2>1. TypeOK'
    BY <1>0, <1>t, <1>9 DEF TypeOK, ScanEnter, callVars
  <2> QED
    BY <2>1, <1>0, <1>t, <1>9 DEF LoopInv, ScanEnter, callVars, IsString
<1>10. CASE MemcmpScan
  <2>0. /\ n <= len /\ d = dest + (len - n) /\ s = src + (len - n)
        /\ fn = "memcmp" /\ mem = before
        /\ \A i \in 0 .. len - n - 1 : before[dest + i] = before[src + i]
    BY <1>0, <1>10 DEF LoopInv, MemcmpScan
  <2>1. n > 0 => d \in Addr /\ s \in Addr
    BY <2>0, <1>t DEF Addr
  <2>2. CASE n > 0 /\ mem[d] = mem[s]
    <3>1. TypeOK'
      <4>1. loaded' \subseteq Addr
        BY <2>1, <2>2, <1>0, <1>10 DEF TypeOK, MemcmpScan
      <4>2. d' \in Int /\ s' \in Int /\ n' \in Nat
        BY <2>2, <1>t, <1>10 DEF MemcmpScan
      <4> QED
        BY <4>1, <4>2, <2>2, <1>0, <1>10 DEF TypeOK, MemcmpScan, callVars
    <3>2. ASSUME NEW i \in 0 .. len - (n - 1) - 1
          PROVE  before[dest + i] = before[src + i]
      <4>1. CASE i = len - n
        BY <4>1, <2>0, <2>2, <1>t
      <4>2. CASE i # len - n
        BY <4>2, <2>0, <1>t
      <4> QED
        BY <4>1, <4>2
    <3> QED
      BY <3>1, <3>2, <2>0, <2>2, <1>0, <1>t, <1>10 DEF LoopInv, MemcmpScan, callVars, IsString
  <2>3. CASE ~(n > 0 /\ mem[d] = mem[s])
    <3>1. n > 0 => mem[d] - mem[s] \in Int
      <4>1. n > 0 => mem[d] \in Byte /\ mem[s] \in Byte
        BY <2>1, <1>0 DEF TypeOK
      <4>2. \A x, y \in Byte : x - y \in Int
        BY DEF Byte
      <4> QED
        BY <4>1, <4>2, Zenon
    <3>2. TypeOK'
      <4>1. loaded' \subseteq Addr
        BY <2>1, <2>3, <1>0, <1>10 DEF TypeOK, MemcmpScan
      <4>2. ret' \in Int
        BY <3>1, <2>3, <1>10 DEF MemcmpScan
      <4> QED
        BY <4>1, <4>2, <2>3, <1>0, <1>10 DEF TypeOK, MemcmpScan, callVars
    <3> QED
      BY <3>2, <2>0, <2>3, <1>0, <1>t, <1>10 DEF LoopInv, MemcmpScan, callVars, IsString
  <2> QED
    BY <2>2, <2>3
<1>11. CASE StrlenScan
  <2>0. /\ src <= s /\ s <= src + len /\ fn = "strlen" /\ mem = before
        /\ src + len \in Addr /\ IsString(src, len)
    BY <1>0, <1>11 DEF LoopInv, StrlenScan
  <2>1. s \in Addr
    BY <2>0, <1>t DEF Addr
  <2>2. CASE mem[s] # 0
    <3>1. s # src + len
      BY <2>0, <2>2 DEF IsString
    <3>2. TypeOK'
      BY <2>1, <2>2, <1>0, <1>t, <1>11 DEF TypeOK, StrlenScan, callVars
    <3> QED
      BY <3>1, <3>2, <2>0, <2>2, <1>0, <1>t, <1>11 DEF LoopInv, StrlenScan, callVars, IsString
  <2>3. CASE mem[s] = 0
    <3>2. TypeOK'
      BY <2>1, <2>3, <1>0, <1>t, <1>11 DEF TypeOK, StrlenScan, callVars
    <3> QED
      BY <3>2, <2>0, <2>3, <1>0, <1>t, <1>11 DEF LoopInv, StrlenScan, callVars, IsString
  <2> QED
    BY <2>2, <2>3
<1>12. CASE UNCHANGED vars
  BY <1>0, <1>12 DEF TypeOK, LoopInv, vars, callVars, IsString
<1> QED
  BY <1>1, <1>2, <1>3, <1>4, <1>5, <1>6, <1>7, <1>8, <1>9, <1>10, <1>11, <1>12
  DEF Next

-----------------------------------------------------------------------------
(* An upward store carries the copy on by size bytes: what it reads has    *)
(* not been overwritten, for dest is not above src or the areas are apart. *)
LEMMA StoreCopies ==
  ASSUME TypeOK, NEW size \in Nat, Store(size), Copied(dest, d),
         Disjoint(dest, src, len) \/ dest <= src,
         dest <= d, d + size <= dest + len, s = src + (d - dest)
  PROVE  \A a \in Addr : mem'[a] = IF dest <= a /\ a < d + size
                                  THEN before[src + (a - dest)] ELSE before[a]
<1> SUFFICES ASSUME NEW a \in Addr
             PROVE  mem'[a] = IF dest <= a /\ a < d + size
                              THEN before[src + (a - dest)] ELSE before[a]
  OBVIOUS
<1>0. /\ dest \in Int /\ src \in Int /\ len \in Nat /\ d \in Int /\ a \in Int
      /\ 0 <= src /\ src + len <= MemSize /\ MemSize \in Nat
  BY DEF TypeOK, Addr
<1>1. CASE d <= a /\ a < d + size
  <2> DEFINE b == src + (a - dest)
  <2>1. b \in Addr /\ ~(dest <= b /\ b < d)
    BY <1>0, <1>1 DEF Disjoint, Addr
  <2>2. mem[b] = before[b]
    BY <2>1 DEF Copied
  <2>3. mem'[a] = mem[s + (a - d)]
    BY <1>0, <1>1 DEF Store, Area
  <2>4. s + (a - d) = b
    BY <1>0
  <2> QED
    BY <1>0, <1>1, <2>2, <2>3, <2>4
<1>2. CASE ~(d <= a /\ a < d + size)
  <2>1. mem'[a] = mem[a]
    BY <1>0, <1>2 DEF Store, Area
  <2> QED
    BY <1>0, <1>2, <2>1 DEF Copied
<1> QED
  BY <1>1, <1>2

(* Every step leaves the copied part copied, and the rest as it was. *)
LEMMA StepCopy == Inv /\ [Next]_vars => CopyInv'
<1> SUFFICES ASSUME Inv, [Next]_vars PROVE CopyInv'
  OBVIOUS
<1>0. TypeOK /\ LoopInv /\ CopyInv
  BY DEF Inv
<1>t. /\ dest \in Int /\ src \in Int /\ len \in Nat /\ MemSize \in Nat
      /\ 0 <= dest /\ 0 <= src /\ d \in Int /\ s \in Int /\ n \in Nat
      /\ dest + len <= MemSize /\ src + len <= MemSize
      /\ WORD \in Nat /\ WORD >= 1
      /\ \A a \in Addr : a \in Int
  BY <1>0 DEF TypeOK, Addr
<1>m. mem \in [Addr -> Byte] /\ before \in [Addr -> Byte]
  BY <1>0 DEF TypeOK
<1>1. CASE MemcpyEnter
  BY <1>0, <1>t, <1>1 DEF CopyInv, Copying, Copied, MemcpyEnter, callVars, Disjoint
<1>2. CASE MemcpyWords
  <2>1. CASE d < dest + len - (WORD - 1)
    <3>0. d + WORD <= dest + len /\ dest <= d /\ s = src + (d - dest)
      BY <1>0, <1>t, <1>2, <2>1 DEF LoopInv, MemcpyWords
    <3>1. ASSUME Copying
          PROVE  \A a \in Addr : mem'[a] = IF dest <= a /\ a < d + WORD
                                 THEN before[src + (a - dest)] ELSE before[a]
      <4>1. Copied(dest, d) /\ (Disjoint(dest, src, len) \/ dest <= src)
        BY <3>1, <1>0, <1>2 DEF CopyInv, Copying, MemcpyWords
      <4>2. Store(WORD)
        BY <1>2, <2>1 DEF MemcpyWords
      <4> QED
        BY <4>1, <4>2, <3>0, <1>0, <1>t, StoreCopies
    <3> QED
      BY <3>1, <2>1, <1>2 DEF CopyInv, Copying, Copied, MemcpyWords, callVars, Disjoint
  <2>2. CASE ~(d < dest + len - (WORD - 1))
    BY <2>2, <1>0, <1>2 DEF CopyInv, Copying, Copied, MemcpyWords, callVars, Disjoint
  <2> QED
    BY <2>1, <2>2
<1>3. CASE MemcpyBytes
  <2>1. CASE d < dest + len
    <3>0. d + 1 <= dest + len /\ dest <= d /\ s = src + (d - dest)
      BY <1>0, <1>t, <1>3, <2>1 DEF LoopInv, MemcpyBytes
    <3>1. ASSUME Copying
          PROVE  \A a \in Addr : mem'[a] = IF dest <= a /\ a < d + 1
                                 THEN before[src + (a - dest)] ELSE before[a]
      <4>1. Copied(dest, d) /\ (Disjoint(dest, src, len) \/ dest <= src)
        BY <3>1, <1>0, <1>3 DEF CopyInv, Copying, MemcpyBytes
      <4>2. Store(1)
        BY <1>3, <2>1 DEF MemcpyBytes
      <4> QED
        BY <4>1, <4>2, <3>0, <1>0, <1>t, StoreCopies
    <3> QED
      BY <3>1, <2>1, <1>3 DEF CopyInv, Copying, Copied, MemcpyBytes, callVars, Disjoint
  <2>2. CASE ~(d < dest + len)
    <3>1. d = dest + len
      BY <2>2, <1>0, <1>t, <1>3 DEF LoopInv, MemcpyBytes
    <3> QED
      BY <3>1, <2>2, <1>0, <1>3 DEF CopyInv, Copying, Copied, MemcpyBytes, Return, callVars, Disjoint
  <2> QED
    BY <2>1, <2>2
<1>4. CASE MemmoveEnter
  BY <1>0, <1>t, <1>4 DEF CopyInv, Copying, Copied, MemmoveEnter, callVars, Disjoint
<1>5. CASE MemmoveUp
  <2>0. /\ n <= len /\ d = dest + (len - n) /\ s = src + (len - n)
        /\ fn = "memmove" /\ dest <= src /\ Copied(dest, d)
    BY <1>0, <1>5 DEF LoopInv, CopyInv, Copying, MemmoveUp
  <2>1. CASE n > 0
    <3>1. \A a \in Addr : mem'[a] = IF dest <= a /\ a < d + 1
                                 THEN before[src + (a - dest)] ELSE before[a]
      <4>1. Store(1)
        BY <1>5, <2>1 DEF MemmoveUp
      <4>2. dest <= d /\ d + 1 <= dest + len /\ s = src + (d - dest)
        BY <2>0, <2>1, <1>t
      <4> QED
        BY <4>1, <4>2, <2>0, <1>0, StoreCopies
    <3> QED
      BY <3>1, <2>0, <2>1, <1>5 DEF CopyInv, Copying, Copied, MemmoveUp, callVars
  <2>2. CASE ~(n > 0)
    <3>1. d = dest + len
      BY <2>0, <2>2, <1>t
    <3> QED
      BY <3>1, <2>0, <2>2, <1>5 DEF CopyInv, Copying, Copied, MemmoveUp, Return, callVars
  <2> QED
    BY <2>1, <2>2
<1>6. CASE MemmoveDown
  <2>0. /\ n <= len /\ d = dest + n /\ s = src + n
        /\ fn = "memmove" /\ src < dest /\ Copied(d, dest + len)
    BY <1>0, <1>6 DEF LoopInv, CopyInv, Copying, MemmoveDown
  <2>1. CASE n > 0
    <3>1. ASSUME NEW a \in Addr
          PROVE  mem'[a] = IF d - 1 <= a /\ a < dest + len
                           THEN before[src + (a - dest)] ELSE before[a]
      <4>1. CASE a = d - 1
        <5>1. mem'[a] = mem[s - 1]
          BY <4>1, <2>1, <1>6, <1>m DEF MemmoveDown
        <5>2. s - 1 \in Addr /\ ~(d <= s - 1) /\ s - 1 = src + (a - dest)
          BY <4>1, <2>0, <2>1, <1>t DEF Addr
        <5>3. mem[s - 1] = before[s - 1]
          BY <5>2, <2>0 DEF Copied
        <5> QED
          BY <5>1, <5>2, <5>3, <4>1, <2>0, <2>1, <1>t
      <4>2. CASE a # d - 1
        <5>1. mem'[a] = mem[a]
          BY <4>2, <2>1, <1>6, <1>m DEF MemmoveDown
        <5> QED
          BY <5>1, <4>2, <2>0, <1>t DEF Copied
      <4> QED
        BY <4>1, <4>2
    <3> QED
      BY <3>1, <2>0, <2>1, <1>6 DEF CopyInv, Copying, Copied, MemmoveDown, callVars
  <2>2. CASE ~(n > 0)
    <3>1. d = dest
      BY <2>0, <2>2, <1>t
    <3> QED
      BY <3>1, <2>0, <2>2, <1>6 DEF CopyInv, Copying, Copied, MemmoveDown, Return, callVars
  <2> QED
    BY <2>1, <2>2
<1>7. CASE MemsetEnter \/ MemsetLoop \/ ScanEnter \/ MemcmpScan \/ StrlenScan
  <2>1. fn' = fn /\ fn \notin {"memcpy", "memmove"}
    BY <1>7 DEF MemsetEnter, MemsetLoop, ScanEnter, MemcmpScan, StrlenScan, callVars
  <2> QED
    BY <2>1 DEF CopyInv, Copying
<1>8. CASE UNCHANGED vars
  BY <1>0, <1>8 DEF CopyInv, Copying, Copied, vars, callVars, Disjoint
<1> QED
  BY <1>1, <1>2, <1>3, <1>4, <1>5, <1>6, <1>7, <1>8 DEF Next

-----------------------------------------------------------------------------
(* A multiple of a word and the next one, and what is left of an area that *)
(* is a whole number of words.                                             *)
LEMMA NextWord ==
  ASSUME NEW x \in Int, x % WORD = 0
  PROVE  (x + WORD) % WORD = 0
<1> DEFINE y == x + WORD
           p == x \div WORD
           q == y \div WORD
           r == y % WORD
<1>1. p \in Int /\ q \in Int /\ r \in 0 .. WORD - 1 /\ WORD \in Nat /\ WORD > 0
  OBVIOUS
<1>2. x = WORD * p /\ y = WORD * q + r
  OBVIOUS
<1> HIDE DEF p, q, r, y
<1>3. y = WORD * (p + 1)
  BY <1>1, <1>2 DEF y
<1>4. r = WORD * (p + 1 - q)
  BY <1>1, <1>2, <1>3
<1>5. CASE p + 1 - q >= 1
  <2>1. WORD * (p + 1 - q) >= WORD
    BY <1>1, <1>5
  <2> QED
    BY <2>1, <1>1, <1>4
<1>6. CASE p + 1 - q <= -1
  <2>1. WORD * (p + 1 - q) <= -WORD
    BY <1>1, <1>6
  <2> QED
    BY <2>1, <1>1, <1>4
<1>7. CASE p + 1 - q = 0
  BY <1>1, <1>4, <1>7 DEF r, y
<1> QED
  BY <1>1, <1>5, <1>6, <1>7

LEMMA WholeWords ==
  ASSUME NEW x \in Nat, x % WORD = 0
  PROVE  \E k \in Nat : x = k * WORD
OBVIOUS

LEMMA OneWordLess ==
  ASSUME NEW x \in Int, NEW k \in Nat, x = k * WORD, x > 0
  PROVE  WORD <= x /\ k - 1 \in Nat /\ x - WORD = (k - 1) * WORD
OBVIOUS
(* Every step leaves the filled part filled, and never steps past the end. *)
LEMMA StepFill == Inv /\ [Next]_vars => FillInv'
<1> SUFFICES ASSUME Inv, [Next]_vars PROVE FillInv'
  OBVIOUS
<1>0. TypeOK /\ LoopInv /\ FillInv /\ StaysInside /\ Scans
  BY DEF Inv
<1>t. /\ dest \in Int /\ src \in Int /\ len \in Nat /\ MemSize \in Nat
      /\ 0 <= dest /\ 0 <= src /\ d \in Int /\ s \in Int /\ n \in Nat
      /\ dest + len <= MemSize /\ src + len <= MemSize
      /\ WORD \in Nat /\ WORD >= 1
      /\ \A a \in Addr : a \in Int
  BY <1>0 DEF TypeOK, Addr
<1>1. CASE MemsetEnter
  <2>1. CASE Aligned(dest, len)
    <3>1. \E k \in Nat : len = k * WORD
      BY <2>1, <1>t, WholeWords DEF Aligned
    <3>2. \E k \in Nat : dest + len = dest + k * WORD
      BY <3>1, <1>t
    <3> QED
      BY <2>1, <3>2, <1>0, <1>t, <1>1 DEF FillInv, Filled, MemsetEnter, callVars
  <2>2. CASE ~Aligned(dest, len)
    BY <2>2, <1>0, <1>t, <1>1 DEF FillInv, Filled, MemsetEnter, callVars
  <2> QED
    BY <2>1, <2>2
<1>2. CASE MemsetLoop
  <2> DEFINE size == IF pc = "words" THEN WORD ELSE 1
  <2>0. dest <= d /\ d <= dest + len /\ Filled(d) /\ fn = "memset"
    BY <1>0, <1>2 DEF FillInv, MemsetLoop
  <2>s. size \in Nat /\ size >= 1
    BY <1>t
  <2>1. CASE d < dest + len
    <3>1. /\ d + size <= dest + len
          /\ pc = "words" => \E k \in Nat : dest + len = (d + size) + k * WORD
      <4>1. CASE pc = "words"
        <5>1. PICK k \in Nat : dest + len = d + k * WORD
          BY <4>1, <2>0, <1>0 DEF FillInv
        <5> DEFINE x == dest + len - d
        <5>2. x \in Int /\ x > 0
          BY <2>1, <1>t
        <5>3. x = k * WORD
          BY <5>1, <1>t
        <5> HIDE DEF x
        <5>4. WORD <= x /\ k - 1 \in Nat /\ x - WORD = (k - 1) * WORD
          BY <5>2, <5>3, OneWordLess
        <5> DEFINE y == (k - 1) * WORD
        <5>5. x - WORD = y
          BY <5>4
        <5> HIDE DEF y
        <5>6. dest + len = (d + WORD) + y /\ d + WORD <= dest + len
          BY <5>4, <5>5, <5>2, <1>t DEF x
        <5> QED
          BY <4>1, <5>4, <5>6 DEF y
      <4>2. CASE pc # "words"
        BY <4>2, <2>1, <1>t
      <4> QED
        BY <4>1, <4>2
    <3>2. \A a \in Addr : mem'[a] = IF dest <= a /\ a < d + size THEN value
                                   ELSE before[a]
      <4> SUFFICES ASSUME NEW a \in Addr
                   PROVE  mem'[a] = IF dest <= a /\ a < d + size THEN value
                                    ELSE before[a]
        OBVIOUS
      <4>1. mem'[a] = IF a \in Area(d, size) THEN value ELSE mem[a]
        BY <2>1, <1>2 DEF MemsetLoop
      <4>2. a \in Area(d, size) <=> d <= a /\ a < d + size
        BY <1>t, <2>s DEF Area
      <4> HIDE DEF size
      <4> QED
        BY <4>1, <4>2, <2>0, <2>s, <1>t DEF Filled
    <3>3. d' = d + size /\ pc' = pc /\ UNCHANGED callVars
      BY <2>1, <1>2 DEF MemsetLoop
    <3> HIDE DEF size
    <3>4. dest <= d + size
      BY <2>0, <2>s, <1>t
    <3>5. pc \in {"words", "bytes"}
      BY <1>2 DEF MemsetLoop
    <3> QED
      BY <3>1, <3>2, <3>3, <3>4, <3>5 DEF FillInv, Filled, callVars
  <2>2. CASE ~(d < dest + len)
    <3>1. d = dest + len
      BY <2>0, <2>2, <1>t
    <3> QED
      BY <3>1, <2>0, <2>2, <1>2 DEF FillInv, Filled, MemsetLoop, Return, callVars
  <2> QED
    BY <2>1, <2>2
<1>3. CASE \/ MemcpyEnter \/ MemcpyWords \/ MemcpyBytes
           \/ MemmoveEnter \/ MemmoveUp \/ MemmoveDown
           \/ ScanEnter \/ MemcmpScan \/ StrlenScan
  <2>1. fn' = fn /\ fn # "memset"
    BY <1>3, <1>0 DEF LoopInv, MemcpyEnter, MemcpyWords, MemcpyBytes, MemmoveEnter,
       MemmoveUp, MemmoveDown, ScanEnter, MemcmpScan, StrlenScan, callVars
  <2> QED
    BY <2>1 DEF FillInv
<1>4. CASE UNCHANGED vars
  BY <1>0, <1>4 DEF FillInv, Filled, vars, callVars
<1> QED
  BY <1>1, <1>2, <1>3, <1>4 DEF Next

(* What the scans have seen by the time they return. *)
LEMMA StepScans == Inv /\ [Next]_vars => Scans'
<1> SUFFICES ASSUME Inv, [Next]_vars PROVE Scans'
  OBVIOUS
<1>0. TypeOK /\ LoopInv /\ FillInv /\ StaysInside /\ Scans
  BY DEF Inv
<1>t. /\ dest \in Int /\ src \in Int /\ len \in Nat /\ MemSize \in Nat
      /\ 0 <= dest /\ 0 <= src /\ d \in Int /\ s \in Int /\ n \in Nat
      /\ dest + len <= MemSize /\ src + len <= MemSize
      /\ WORD \in Nat /\ WORD >= 1
      /\ \A a \in Addr : a \in Int
  BY <1>0 DEF TypeOK, Addr
<1>1. CASE MemcmpScan
  <2>0. /\ n <= len /\ d = dest + (len - n) /\ s = src + (len - n)
        /\ fn = "memcmp" /\ mem = before
        /\ \A i \in 0 .. len - n - 1 : before[dest + i] = before[src + i]
    BY <1>0, <1>1 DEF LoopInv, MemcmpScan
  <2>1. CASE n > 0 /\ mem[d] = mem[s]
    BY <2>1, <1>1 DEF Scans, MemcmpScan
  <2>2. CASE n = 0
    <3>1. \A i \in 0 .. len - 1 : before[dest + i] = before[src + i]
      BY <2>0, <2>2, <1>t
    <3> QED
      BY <3>1, <2>0, <2>2, <1>1 DEF Scans, MemcmpScan, callVars
  <2>3. CASE n > 0 /\ mem[d] # mem[s]
    <3> DEFINE i == len - n
    <3>1. i \in 0 .. len - 1 /\ d = dest + i /\ s = src + i
      BY <2>0, <2>3, <1>t
    <3>2. \A j \in 0 .. i - 1 : before[dest + j] = before[src + j]
      BY <2>0
    <3>3. before[d] - before[s] # 0
      <4>1. d \in Addr /\ s \in Addr
        BY <2>0, <2>3, <1>t DEF Addr
      <4>2. before[d] \in Byte /\ before[s] \in Byte /\ before[d] # before[s]
        BY <4>1, <2>0, <2>3, <1>0 DEF TypeOK
      <4>3. \A x, y \in Byte : x # y => x - y # 0
        BY DEF Byte
      <4> QED
        BY <4>2, <4>3, Zenon
    <3>4. ret' = before[d] - before[s]
      BY <2>0, <2>3, <1>1 DEF MemcmpScan
    <3> HIDE DEF i
    <3>5. \E k \in 0 .. len - 1 :
            /\ ret' = before[dest + k] - before[src + k] /\ ret' # 0
            /\ \A j \in 0 .. k - 1 : before[dest + j] = before[src + j]
      BY <3>1, <3>2, <3>3, <3>4
    <3> QED
      BY <3>5, <2>0, <1>1 DEF Scans, MemcmpScan, callVars
  <2> QED
    BY <2>1, <2>2, <2>3, <1>t
<1>2. CASE StrlenScan
  <2>0. /\ src <= s /\ s <= src + len /\ fn = "strlen" /\ mem = before
        /\ IsString(src, len)
    BY <1>0, <1>2 DEF LoopInv, StrlenScan
  <2>1. CASE mem[s] # 0
    BY <2>1, <2>0, <1>2 DEF Scans, StrlenScan, callVars
  <2>2. CASE mem[s] = 0
    <3>1. s = src + len
      BY <2>0, <2>2, <1>t DEF IsString, Area
    <3>2. ret' = len
      BY <3>1, <2>2, <1>2, <1>t DEF StrlenScan
    <3> QED
      BY <3>2, <2>0, <1>2 DEF Scans, StrlenScan, callVars
  <2> QED
    BY <2>1, <2>2
<1>3. CASE \/ MemcpyEnter \/ MemcpyWords \/ MemcpyBytes
           \/ MemmoveEnter \/ MemmoveUp \/ MemmoveDown
           \/ MemsetEnter \/ MemsetLoop \/ ScanEnter
  <2>1. \/ fn' \notin {"memcmp", "strlen"}
        \/ pc' # "returned"
    BY <1>3, <1>0 DEF LoopInv, MemcpyEnter, MemcpyWords, MemcpyBytes, MemmoveEnter,
       MemmoveUp, MemmoveDown, MemsetEnter, MemsetLoop, ScanEnter, callVars
  <2> QED
    BY <2>1 DEF Scans
<1>4. CASE UNCHANGED vars
  BY <1>0, <1>4 DEF Scans, vars, callVars
<1> QED
  BY <1>1, <1>2, <1>3, <1>4 DEF Next
(* A store between the ends of the areas writes and reads inside them. *)
LEMMA StoreInside ==
  ASSUME TypeOK, StaysInside, NEW size \in Nat, Store(size),
         fn \in {"memcpy", "memmove"},
         dest <= d, d + size <= dest + len, s = src + (d - dest)
  PROVE  /\ \A a \in Addr : mem'[a] # before[a] => a \in Area(dest, len)
         /\ loaded' \subseteq Area(src, len)
<1>0. dest \in Int /\ src \in Int /\ len \in Nat /\ d \in Int
  BY DEF TypeOK, Addr
<1>1. ASSUME NEW a \in Addr, mem'[a] # before[a] PROVE a \in Area(dest, len)
  <2>1. CASE a \in Area(d, size)
    BY <2>1, <1>0 DEF Area
  <2>2. CASE a \notin Area(d, size)
    <3>1. mem'[a] = mem[a]
      BY <2>2 DEF Store
    <3> QED
      BY <3>1, <1>1 DEF StaysInside
  <2> QED
    BY <2>1, <2>2
<1>2. Area(s, size) \subseteq Area(src, len)
  BY <1>0 DEF Area
<1>3. loaded \subseteq Area(src, len)
  BY DEF StaysInside
<1> QED
  BY <1>1, <1>2, <1>3 DEF Store

(* Every step reads and writes inside the areas, and words where they lie. *)
LEMMA StepInside == Inv /\ [Next]_vars => StaysInside'
<1> SUFFICES ASSUME Inv, [Next]_vars PROVE StaysInside'
  OBVIOUS
<1>0. TypeOK /\ LoopInv /\ FillInv /\ StaysInside /\ Scans
  BY DEF Inv
<1>t. /\ dest \in Int /\ src \in Int /\ len \in Nat /\ MemSize \in Nat
      /\ 0 <= dest /\ 0 <= src /\ d \in Int /\ s \in Int /\ n \in Nat
      /\ dest + len <= MemSize /\ src + len <= MemSize
      /\ WORD \in Nat /\ WORD >= 1
      /\ \A a \in Addr : a \in Int
  BY <1>0 DEF TypeOK, Addr
<1>1. CASE MemcpyEnter \/ MemmoveEnter \/ MemsetEnter \/ ScanEnter
  BY <1>0, <1>1 DEF StaysInside, MemcpyEnter, MemmoveEnter, MemsetEnter, ScanEnter,
     Aligned, callVars
<1>2. CASE MemcpyWords
  <2>1. CASE d < dest + len - (WORD - 1)
    <3>0. /\ d + WORD <= dest + len /\ dest <= d /\ s = src + (d - dest)
          /\ fn = "memcpy" /\ pc = "words" /\ Store(WORD)
      BY <1>0, <1>t, <1>2, <2>1 DEF LoopInv, MemcpyWords
    <3>1. d % WORD = 0 /\ s % WORD = 0
      BY <3>0, <1>0 DEF StaysInside
    <3>2. (d + WORD) % WORD = 0 /\ (s + WORD) % WORD = 0
      BY <3>1, <1>t, NextWord
    <3>3. /\ \A a \in Addr : mem'[a] # before[a] => a \in Area(dest, len)
          /\ loaded' \subseteq Area(src, len)
      BY <3>0, <1>0, <1>t, StoreInside
    <3>4. d' = d + WORD /\ s' = s + WORD /\ UNCHANGED callVars
      BY <2>1, <1>2 DEF MemcpyWords
    <3> QED
      BY <3>0, <3>2, <3>3, <3>4 DEF StaysInside, callVars
  <2>2. CASE ~(d < dest + len - (WORD - 1))
    BY <2>2, <1>0, <1>2 DEF StaysInside, MemcpyWords, callVars
  <2> QED
    BY <2>1, <2>2
<1>3. CASE MemcpyBytes
  <2>1. CASE d < dest + len
    <3>0. /\ d + 1 <= dest + len /\ dest <= d /\ s = src + (d - dest)
          /\ fn = "memcpy" /\ pc = "bytes" /\ Store(1)
      BY <1>0, <1>t, <1>3, <2>1 DEF LoopInv, MemcpyBytes
    <3>1. /\ \A a \in Addr : mem'[a] # before[a] => a \in Area(dest, len)
          /\ loaded' \subseteq Area(src, len)
      BY <3>0, <1>0, <1>t, StoreInside
    <3>2. pc' = pc /\ UNCHANGED callVars
      BY <2>1, <1>3 DEF MemcpyBytes
    <3> QED
      BY <3>0, <3>1, <3>2 DEF StaysInside, callVars
  <2>2. CASE ~(d < dest + len)
    BY <2>2, <1>0, <1>3 DEF StaysInside, MemcpyBytes, Return, callVars
  <2> QED
    BY <2>1, <2>2
<1>4. CASE MemmoveUp
  <2>1. CASE n > 0
    <3>0. /\ d + 1 <= dest + len /\ dest <= d /\ s = src + (d - dest)
          /\ fn = "memmove" /\ pc = "up" /\ Store(1)
      BY <1>0, <1>t, <1>4, <2>1 DEF LoopInv, MemmoveUp
    <3>1. /\ \A a \in Addr : mem'[a] # before[a] => a \in Area(dest, len)
          /\ loaded' \subseteq Area(src, len)
      BY <3>0, <1>0, <1>t, StoreInside
    <3>2. pc' = pc /\ UNCHANGED callVars
      BY <2>1, <1>4 DEF MemmoveUp
    <3> QED
      BY <3>0, <3>1, <3>2 DEF StaysInside, callVars
  <2>2. CASE ~(n > 0)
    BY <2>2, <1>0, <1>4 DEF StaysInside, MemmoveUp, Return, callVars
  <2> QED
    BY <2>1, <2>2
<1>5. CASE MemmoveDown
  <2>0. fn = "memmove" /\ n <= len /\ d = dest + n /\ s = src + n
    BY <1>0, <1>5 DEF LoopInv, MemmoveDown
  <2>1. CASE n > 0
    <3>1. d - 1 \in Area(dest, len) /\ s - 1 \in Area(src, len)
      BY <2>0, <2>1, <1>t DEF Area
    <3>2. ASSUME NEW a \in Addr, mem'[a] # before[a]
          PROVE  a \in Area(dest, len)
      <4>1. CASE a = d - 1
        BY <4>1, <3>1
      <4>2. CASE a # d - 1
        <5>1. mem'[a] = mem[a]
          BY <4>2, <2>1, <1>5, <1>0 DEF MemmoveDown, TypeOK
        <5> QED
          BY <5>1, <3>2, <1>0 DEF StaysInside
      <4> QED
        BY <4>1, <4>2
    <3>3. loaded' = loaded \cup {s - 1} /\ pc' = "down" /\ UNCHANGED callVars
      BY <2>1, <1>5 DEF MemmoveDown
    <3> QED
      BY <3>1, <3>2, <3>3, <2>0, <1>0 DEF StaysInside, callVars
  <2>2. CASE ~(n > 0)
    BY <2>2, <1>0, <1>5 DEF StaysInside, MemmoveDown, Return, callVars
  <2> QED
    BY <2>1, <2>2
<1>6. CASE MemsetLoop
  <2> DEFINE size == IF pc = "words" THEN WORD ELSE 1
  <2>0. fn = "memset" /\ dest <= d /\ d <= dest + len
    BY <1>0, <1>6 DEF FillInv, MemsetLoop
  <2>1. CASE d < dest + len
    <3>0. /\ UNCHANGED callVars /\ d' = d + size /\ pc' = pc /\ loaded' = loaded
          /\ \A a \in Addr : mem'[a] = IF a \in Area(d, size) THEN value ELSE mem[a]
      BY <2>1, <1>6 DEF MemsetLoop
    <3>1. d + size <= dest + len
      <4>1. CASE pc = "words"
        <5>1. PICK k \in Nat : dest + len = d + k * WORD
          BY <4>1, <2>0, <1>0 DEF FillInv
        <5> DEFINE x == dest + len - d
        <5>2. x \in Int /\ x > 0
          BY <2>1, <1>t
        <5>3. x = k * WORD
          BY <5>1, <1>t
        <5> HIDE DEF x
        <5>4. WORD <= x
          BY <5>2, <5>3, OneWordLess
        <5> QED
          BY <4>1, <5>4, <1>t DEF x
      <4>2. CASE pc # "words"
        BY <4>2, <2>1, <1>t
      <4> QED
        BY <4>1, <4>2
    <3>2. ASSUME NEW a \in Addr, mem'[a] # before[a]
          PROVE  a \in Area(dest, len)
      <4>1. CASE a \in Area(d, size)
        <5>1. size \in Int
          BY <1>t
        <5> HIDE DEF size
        <5> QED
          BY <5>1, <4>1, <3>1, <2>0, <1>t DEF Area
      <4>2. CASE a \notin Area(d, size)
        BY <4>2, <3>0, <3>2, <1>0 DEF StaysInside
      <4> QED
        BY <4>1, <4>2
    <3>3. pc = "words" => d' % WORD = 0
      BY <3>0, <1>0, <1>t, NextWord DEF StaysInside
    <3> QED
      BY <3>0, <3>2, <3>3, <2>0, <1>0 DEF StaysInside, callVars
  <2>2. CASE ~(d < dest + len)
    BY <2>2, <1>0, <1>6 DEF StaysInside, MemsetLoop, Return, callVars
  <2> QED
    BY <2>1, <2>2
<1>7. CASE MemcmpScan
  <2>0. /\ n <= len /\ d = dest + (len - n) /\ s = src + (len - n)
        /\ fn = "memcmp"
    BY <1>0, <1>7 DEF LoopInv, MemcmpScan
  <2>1. n > 0 => d \in Area(dest, len) /\ s \in Area(src, len)
    BY <2>0, <1>t DEF Area
  <2>2. /\ loaded' \subseteq loaded \cup (IF n > 0 THEN {d, s} ELSE {})
        /\ pc' # "words" /\ mem' = mem /\ UNCHANGED callVars
    BY <1>7 DEF MemcmpScan
  <2> QED
    BY <2>0, <2>1, <2>2, <1>0 DEF StaysInside, callVars
<1>8. CASE StrlenScan
  <2>0. src <= s /\ s <= src + len /\ fn = "strlen"
    BY <1>0, <1>8 DEF LoopInv, StrlenScan
  <2>1. s \in Area(src, len) \cup {src + len}
    BY <2>0, <1>t DEF Area
  <2>2. /\ loaded' = loaded \cup {s}
        /\ pc' # "words" /\ mem' = mem /\ UNCHANGED callVars
    BY <1>8 DEF StrlenScan
  <2> QED
    BY <2>0, <2>1, <2>2, <1>0 DEF StaysInside, callVars
<1>9. CASE UNCHANGED vars
  BY <1>0, <1>9 DEF StaysInside, vars, callVars
<1> QED
  BY <1>1, <1>2, <1>3, <1>4, <1>5, <1>6, <1>7, <1>8, <1>9 DEF Next

-----------------------------------------------------------------------------
(* The invariant holds in every state of every call.                       *)
(* (string.c 5-90)                                                         *)
THEOREM Invariance == Spec => []Inv
<1>1. Inv /\ [Next]_vars => Inv'
  BY StepLoop, StepCopy, StepFill, StepInside, StepScans DEF Inv
<1> QED
  BY Initially, <1>1, PTL DEF Spec

(* Every variable keeps its type; what is left to do is never negative.    *)
(* (string.c 73-90)                                                        *)
THEOREM TypeCorrect == Spec => []TypeOK
<1>1. Inv => TypeOK
  BY DEF Inv
<1> QED
  BY <1>1, Invariance, PTL

(* No function touches a byte outside its areas, nor a word off its        *)
(* boundary.  (string.c 10-18, 36-46)                                      *)
THEOREM StaysInsideHolds == Spec => []StaysInside
<1>1. Inv => StaysInside
  BY DEF Inv
<1> QED
  BY <1>1, Invariance, PTL

(* memmove always gives dest what was at src, memcpy when the areas are    *)
(* apart or dest is not above src.  (string.c 5-21, 73-90)                 *)
THEOREM CopiesHold == Spec => []Copies
<1>1. Inv => Copies
  <2> SUFFICES ASSUME Inv, pc = "returned", Copying
               PROVE  mem = [a \in Addr |-> IF a \in Area(dest, len)
                              THEN before[src + (a - dest)] ELSE before[a]]
    BY DEF Copies, Copying
  <2>1. Copied(dest, dest + len)
    BY DEF Inv, CopyInv
  <2>2. mem \in [Addr -> Byte] /\ dest \in Int /\ len \in Nat
    BY DEF Inv, TypeOK, Addr
  <2>3. \A a \in Addr : a \in Area(dest, len) <=> dest <= a /\ a < dest + len
    BY <2>2 DEF Area, Addr
  <2> QED
    BY <2>1, <2>2, <2>3 DEF Copied
<1> QED
  BY <1>1, Invariance, PTL

(* memset fills its area and nothing else.  (string.c 34-49)               *)
THEOREM FillsHold == Spec => []Fills
<1>1. Inv => Fills
  <2> SUFFICES ASSUME Inv, pc = "returned", fn = "memset"
               PROVE  mem = [a \in Addr |-> IF a \in Area(dest, len)
                                            THEN value ELSE before[a]]
    BY DEF Fills
  <2>1. Filled(dest + len)
    BY DEF Inv, FillInv
  <2>2. mem \in [Addr -> Byte] /\ dest \in Int /\ len \in Nat
    BY DEF Inv, TypeOK, Addr
  <2>3. \A a \in Addr : a \in Area(dest, len) <=> dest <= a /\ a < dest + len
    BY <2>2 DEF Area, Addr
  <2> QED
    BY <2>1, <2>2, <2>3 DEF Filled
<1> QED
  BY <1>1, Invariance, PTL

(* memcmp returns 0 exactly for equal areas, else the difference of the    *)
(* first bytes that differ; strlen returns the length.                     *)
(* (string.c 23-32, 50-62)                                                 *)
THEOREM ScansHold == Spec => []Scans
<1>1. Inv => Scans
  BY DEF Inv
<1> QED
  BY <1>1, Invariance, PTL

-----------------------------------------------------------------------------
(***************************************************************************)
(* Every call returns: how many steps it has yet to take, and that none is *)
(* taken in vain.                                                          *)
(***************************************************************************)

(* The bytes that are left, the step out of each loop, and the first step *)
StepsLeft ==
  CASE pc = "enter"    -> len + 3
    [] pc = "words"    -> (dest + len - d) + 2
    [] pc = "bytes"    -> (dest + len - d) + 1
    [] pc = "returned" -> 0
    [] OTHER           -> IF fn = "strlen" THEN (src + len - s) + 1 ELSE n + 1

(* A call that has not returned has a step left, and never more than its   *)
(* area is long and three.  (string.c 5-90)                               *)
ReturnIsNear ==
  StepsLeft \in 0 .. len + 3 /\ (StepsLeft = 0 <=> pc = "returned")

(* Every step brings the return closer: no loop turns in place, whatever   *)
(* the size of a word.  (string.c 5-90)                                   *)
EveryStepCounts == [][StepsLeft' < StepsLeft]_vars

LEMMA NearerReturn ==
  ASSUME Inv
  PROVE  ReturnIsNear
<1>1. /\ len \in Nat /\ n \in Nat /\ d \in Int /\ s \in Int
      /\ dest \in Nat /\ src \in Nat
      /\ pc \in {"enter", "words", "bytes", "up", "down", "scan", "returned"}
  BY DEF Inv, TypeOK, Addr
<1>2. pc \in {"words", "bytes"} => dest <= d /\ d <= dest + len
  BY DEF Inv, LoopInv, FillInv
<1>3. pc \in {"up", "down"} => n <= len /\ fn # "strlen"
  BY DEF Inv, LoopInv
<1>4. pc = "scan" => IF fn = "strlen" THEN src <= s /\ s <= src + len
                     ELSE n <= len
  BY DEF Inv, LoopInv
<1>5. CASE pc \in {"enter", "words", "bytes", "returned"}
  BY <1>1, <1>2, <1>5 DEF ReturnIsNear, StepsLeft
<1>6. CASE pc \in {"up", "down", "scan"}
  BY <1>1, <1>3, <1>4, <1>6 DEF ReturnIsNear, StepsLeft
<1> QED
  BY <1>1, <1>5, <1>6

LEMMA StepCounts ==
  ASSUME Inv, Next, Inv'
  PROVE  StepsLeft' < StepsLeft
<1>0. /\ len \in Nat /\ n \in Nat /\ d \in Int /\ s \in Int
      /\ dest \in Nat /\ src \in Nat /\ WORD \in Nat /\ WORD > 0
      /\ n' \in Nat /\ d' \in Int /\ s' \in Int
  BY DEF Inv, TypeOK, Addr
<1>1. pc # "returned" => StepsLeft > 0
  <2>1. ReturnIsNear
    BY NearerReturn
  <2> QED
    BY <1>0, <2>1 DEF ReturnIsNear
<1>2. CASE pc' = "returned"
  <2>1. pc # "returned"
    BY DEF Next, MemcpyEnter, MemcpyWords, MemcpyBytes, MemmoveEnter,
       MemmoveUp, MemmoveDown, MemsetEnter, MemsetLoop, ScanEnter, MemcmpScan,
       StrlenScan
  <2> QED
    BY <1>1, <1>2, <2>1 DEF StepsLeft
<1>3. CASE MemcpyEnter \/ MemmoveEnter \/ MemsetEnter \/ ScanEnter
  <2>1. /\ pc = "enter" /\ UNCHANGED callVars
        /\ pc' \in {"words", "bytes", "up", "down", "scan"}
        /\ pc' \in {"words", "bytes"} => d' = dest
        /\ pc' \in {"up", "down", "scan"} => n' = len
        /\ pc' \in {"up", "down"} => fn = "memmove"
        /\ pc' = "scan" => s' = src
    BY <1>3 DEF MemcpyEnter, MemmoveEnter, MemsetEnter, ScanEnter, callVars
  <2>2. UNCHANGED <<fn, dest, src, len>>
    BY <2>1 DEF callVars
  <2> QED
    BY <1>0, <2>1, <2>2 DEF StepsLeft
<1>4. CASE MemcpyWords /\ pc' # "returned"
  <2>1. /\ pc = "words" /\ UNCHANGED <<fn, dest, src, len>>
        /\ \/ pc' = "words" /\ d' = d + WORD
           \/ pc' = "bytes" /\ d' = d
    BY <1>4 DEF MemcpyWords, callVars
  <2> QED
    BY <1>0, <2>1 DEF StepsLeft
<1>5. CASE MemcpyBytes /\ pc' # "returned"
  <2>1. /\ pc = "bytes" /\ pc' = "bytes" /\ UNCHANGED <<fn, dest, src, len>>
        /\ d' = d + 1
    BY <1>5 DEF MemcpyBytes, callVars, Return
  <2> QED
    BY <1>0, <2>1 DEF StepsLeft
<1>6. CASE MemsetLoop /\ pc' # "returned"
  <2>1. /\ pc \in {"words", "bytes"} /\ pc' = pc
        /\ UNCHANGED <<fn, dest, src, len>>
        /\ d' = d + (IF pc = "words" THEN WORD ELSE 1)
    BY <1>6 DEF MemsetLoop, callVars, Return
  <2> QED
    BY <1>0, <2>1 DEF StepsLeft
<1>7. CASE (MemmoveUp \/ MemmoveDown \/ MemcmpScan) /\ pc' # "returned"
  <2>1. /\ pc \in {"up", "down", "scan"} /\ pc' = pc
        /\ UNCHANGED <<fn, dest, src, len>> /\ n' = n - 1
        /\ pc = "scan" => fn # "strlen"
    BY <1>7 DEF MemmoveUp, MemmoveDown, MemcmpScan, callVars, Return
  <2>2. fn # "strlen"
    BY <2>1 DEF Inv, LoopInv
  <2> QED
    BY <1>0, <2>1, <2>2 DEF StepsLeft
<1>8. CASE StrlenScan /\ pc' # "returned"
  <2>1. /\ pc = "scan" /\ pc' = pc /\ fn = "strlen"
        /\ UNCHANGED <<fn, dest, src, len>> /\ s' = s + 1
    BY <1>8 DEF StrlenScan, callVars
  <2> QED
    BY <1>0, <2>1 DEF StepsLeft
<1> QED
  BY <1>2, <1>3, <1>4, <1>5, <1>6, <1>7, <1>8 DEF Next

(* Every call of a string function returns, after as many steps as its     *)
(* area has bytes and three at most, whatever the word size, the areas and *)
(* their contents.  (string.c 5-90)                                       *)
THEOREM CallsReturn == Spec => []ReturnIsNear /\ EveryStepCounts
<1>1. Inv => ReturnIsNear
  BY NearerReturn
<1>2. Inv /\ Inv' /\ [Next]_vars => [StepsLeft' < StepsLeft]_vars
  BY StepCounts
<1> QED
  BY <1>1, <1>2, Invariance, PTL DEF Spec, EveryStepCounts
=============================================================================

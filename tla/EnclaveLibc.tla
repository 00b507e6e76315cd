----------------------------- MODULE EnclaveLibc -----------------------------
(***************************************************************************)
(* What the enclaves have instead of a C library (include/hacks.h), and    *)
(* what their main functions do with it: the entropy pool libsodium draws  *)
(* on while the provisioning enclave works, the clock that is read before  *)
(* and after the work, and the three numbers printed of it                 *)
(* (fpga-provision.c, fpga-auth.c: eapp_entry, ltoa).                      *)
(*                                                                         *)
(* Abstractions.  The pool, the cycle counter and long are small; the      *)
(* clock has fewer units but the same two divisions, and its product       *)
(* overflows below a larger power of two.  The counter moves only while    *)
(* something is measured.  The attestation and the delay are measured with *)
(* the same statements as the whole and left out, as are the labels.  How  *)
(* libsodium draws is modelled from its use of the one system call: it     *)
(* asks again and again for some bytes and aborts when it gets fewer.      *)
(***************************************************************************)
EXTENDS Integers, Sequences

CONSTANTS
  PoolSize,     \* bytes of entropy, 512 in the code
  Requests,     \* how many bytes libsodium may ask for at once
  UsecPerMs,    \* 1000
  MsPerSec,     \* 1000
  CPU_FREQ,     \* cycles per second
  Word,         \* unsigned long holds 0 .. Word - 1
  MaxCycles     \* bound: how long the machine has been up

UsecPerSec == UsecPerMs * MsPerSec

(* long: two's complement *)
LONG_MIN == -(Word \div 2)
LONG_MAX == Word - 1 + LONG_MIN
Long     == LONG_MIN .. LONG_MAX

ASSUME ConstantsAssumption ==
  /\ PoolSize \in Nat
  /\ Requests \subseteq Nat
  /\ UsecPerMs \in Nat \ {0}
  /\ MsPerSec \in Nat \ {0}
  /\ CPU_FREQ \in Nat \ {0, 1}
  /\ Word \in Nat \ {0} /\ Word % 2 = 0
  /\ UsecPerSec <= LONG_MAX
  /\ MaxCycles \in 0 .. Word - 1

EAPP_ERR_RET == 5

VARIABLES
  enclave,            \* "provision" or "auth"
  pc,
  retval,             \* what the enclave returned
  (* the entropy pool *)
  entropy_bytes, remaining_bytes,
  asked, drawn,       \* the request of libsodium and what it has got
  (* the clock *)
  cycles, start, end,
  (* the three numbers and the one being printed *)
  numbers, num, str,
  (* history *)
  startCycles,        \* the counter at the first reading of the clock
  used, wanted,       \* all bytes drawn, by their place; how many were asked
  printed             \* the number printed last and its text

poolVars  == <<entropy_bytes, remaining_bytes, asked, drawn, used, wanted>>
clockVars == <<cycles, start, end, startCycles>>
printVars == <<numbers, num, str, printed>>
vars == <<enclave, pc, retval, poolVars, clockVars, printVars>>

EAPP_RETURN(code) == pc' = "returned" /\ retval' = code

-----------------------------------------------------------------------------
(***************************************************************************)
(* The clock.                                                              *)
(***************************************************************************)

(* A slip: the remainder is taken by the frequency. *)
gettimeofday_Remainder(c) ==
  LET total_usec == ((c * UsecPerSec) % Word) \div CPU_FREQ
  IN [sec |-> total_usec \div UsecPerSec, usec |-> total_usec % CPU_FREQ]

(* The product of unsigned longs is taken modulo Word. *)
gettimeofday(c) ==
  LET total_usec == ((c * UsecPerSec) % Word) \div CPU_FREQ
  IN [sec |-> total_usec \div UsecPerSec, usec |-> total_usec % UsecPerSec]

(* A slip: the second is given back but not taken. *)
Difference_KeepsSecond(from, to) ==
  LET microseconds == to.usec - from.usec
      seconds == to.sec - from.sec
  IN [sec |-> seconds,
      usec |-> IF microseconds < 0 THEN microseconds + UsecPerSec ELSE microseconds]

(* The difference of two readings, a second borrowed when needed *)
Difference(from, to) ==
  LET microseconds == to.usec - from.usec
      seconds == to.sec - from.sec
  IN IF microseconds < 0
     THEN [sec |-> seconds - 1, usec |-> microseconds + UsecPerSec]
     ELSE [sec |-> seconds, usec |-> microseconds]

Milliseconds(t) == t.sec * MsPerSec + t.usec \div UsecPerMs

ReadStart ==
  /\ pc = "start"
  /\ start' = gettimeofday(cycles)
  /\ startCycles' = cycles
  /\ pc' = IF enclave = "provision" THEN "init" ELSE "work"
  /\ UNCHANGED <<enclave, retval, poolVars, cycles, end, printVars>>

(* The work takes any time. *)
ReadEnd ==
  /\ pc = "work"
  /\ cycles' \in cycles .. MaxCycles
  /\ end' = gettimeofday(cycles')
  /\ LET t == Difference(start, end')
     IN numbers' = <<t.sec, t.usec, Milliseconds(t)>>
  /\ pc' = "print"
  /\ UNCHANGED <<enclave, retval, poolVars, start, startCycles, num, str, printed>>

-----------------------------------------------------------------------------
(***************************************************************************)
(* The entropy pool.                                                       *)
(***************************************************************************)

(* magic_random_init: the pool is allocated and filled, or the enclave     *)
(* returns.                                                                *)
MagicRandomInit ==
  /\ pc = "init"
  /\ \/ /\ entropy_bytes' = 0
        /\ remaining_bytes' = PoolSize
        /\ pc' = "work"
        /\ UNCHANGED retval
     \/ /\ EAPP_RETURN(EAPP_ERR_RET)
        /\ UNCHANGED <<entropy_bytes, remaining_bytes>>
  /\ UNCHANGED <<enclave, asked, drawn, used, wanted, clockVars, printVars>>

(* libsodium asks the system call getrandom for count bytes; only the      *)
(* provisioning enclave uses random numbers.                               *)
Getrandom(count) ==
  /\ pc = "work" /\ enclave = "provision"
  /\ asked' = count /\ drawn' = 0
  /\ wanted' = wanted + count
  /\ pc' = "draw"
  /\ UNCHANGED <<enclave, retval, entropy_bytes, remaining_bytes, used,
                 clockVars, printVars>>

(* A slip: the pointer stays where it is. *)
DrawByte_SamePlace ==
  /\ pc = "draw"
  /\ remaining_bytes > 0 /\ drawn < asked
  /\ used' = Append(used, entropy_bytes)
  /\ remaining_bytes' = remaining_bytes - 1
  /\ drawn' = drawn + 1
  /\ UNCHANGED <<enclave, pc, retval, entropy_bytes, asked, wanted, clockVars,
                 printVars>>

(* the loop of syscall *)
DrawByte ==
  /\ pc = "draw"
  /\ remaining_bytes > 0 /\ drawn < asked
  /\ used' = Append(used, entropy_bytes)
  /\ entropy_bytes' = entropy_bytes + 1
  /\ remaining_bytes' = remaining_bytes - 1
  /\ drawn' = drawn + 1
  /\ UNCHANGED <<enclave, pc, retval, asked, wanted, clockVars, printVars>>

(* A slip: the system call returns what was asked for. *)
DrawReturns_Count ==
  /\ pc = "draw"
  /\ remaining_bytes = 0 \/ drawn = asked
  /\ pc' = "work"
  /\ UNCHANGED <<enclave, retval, poolVars, clockVars, printVars>>

(* It returns how many bytes there were.  When they are fewer than asked   *)
(* libsodium calls open or abort, and both end the enclave (BAD_CALL).     *)
DrawReturns ==
  /\ pc = "draw"
  /\ remaining_bytes = 0 \/ drawn = asked
  /\ IF drawn = asked THEN pc' = "work" /\ UNCHANGED retval
                      ELSE EAPP_RETURN(EAPP_ERR_RET)
  /\ UNCHANGED <<enclave, poolVars, clockVars, printVars>>

-----------------------------------------------------------------------------
(***************************************************************************)
(* ltoa, one digit at a time, the last one first.  A character is its      *)
(* distance from '0'.                                                      *)
(***************************************************************************)
MINUS == -3

Reversed(s) == [i \in 1 .. Len(s) |-> s[Len(s) + 1 - i]]

Printing == pc \in {"print", "digits"}

(* The sign is taken off; negating LONG_MIN is undefined. *)
LtoaSign ==
  /\ pc = "print"
  /\ LET x == Head(numbers)
     IN IF x = LONG_MIN THEN num' \in Long
                        ELSE num' = IF x < 0 THEN -x ELSE x
  /\ str' = IF num' = 0 THEN <<0>> ELSE <<>>
  /\ pc' = "digits"
  /\ UNCHANGED <<enclave, retval, poolVars, clockVars, numbers, printed>>

(* A slip: the first digit is left out. *)
LtoaDigit_DropsFirst ==
  /\ pc = "digits" /\ num # 0
  /\ str' = IF num > 9 THEN Append(str, num % 10) ELSE str
  /\ num' = num \div 10
  /\ UNCHANGED <<enclave, pc, retval, poolVars, clockVars, numbers, printed>>

LtoaDigit ==
  /\ pc = "digits" /\ num # 0
  /\ str' = Append(str, num % 10)
  /\ num' = num \div 10
  /\ UNCHANGED <<enclave, pc, retval, poolVars, clockVars, numbers, printed>>

(* The sign is appended, the string turned round and printed; after the    *)
(* third number the enclave returns.                                       *)
LtoaEnd ==
  /\ pc = "digits" /\ num = 0
  /\ LET x == Head(numbers)
     IN printed' = [num |-> x,
                    text |-> Reversed(IF x < 0 THEN Append(str, MINUS) ELSE str)]
  /\ numbers' = Tail(numbers)
  /\ IF Tail(numbers) = <<>> THEN EAPP_RETURN(0)
                             ELSE pc' = "print" /\ UNCHANGED retval
  /\ UNCHANGED <<enclave, poolVars, clockVars, num, str>>

-----------------------------------------------------------------------------
Reading0 == [sec |-> 0, usec |-> 0]

Init ==
  /\ enclave \in {"provision", "auth"}
  /\ pc = "start" /\ retval = 0
  /\ entropy_bytes = 0 /\ remaining_bytes = 0
  /\ asked = 0 /\ drawn = 0
  /\ cycles \in 0 .. MaxCycles
  /\ start = Reading0 /\ end = Reading0
  /\ numbers = <<>> /\ num = 0 /\ str = <<>>
  /\ startCycles = 0
  /\ used = <<>> /\ wanted = 0
  /\ printed = [num |-> 0, text |-> <<0>>]

Next ==
  \/ ReadStart \/ ReadEnd
  \/ MagicRandomInit
  \/ \E count \in Requests : Getrandom(count)
  \/ DrawByte \/ DrawReturns
  \/ LtoaSign \/ LtoaDigit \/ LtoaEnd

Spec == Init /\ [][Next]_vars

-----------------------------------------------------------------------------
(***************************************************************************)
(* Properties.                                                             *)
(***************************************************************************)

Reading == [sec : Nat, usec : 0 .. UsecPerSec - 1]

(* Every variable has its type; the microseconds of a reading are less     *)
(* than a second, and every number to print is a long.                     *)
TypeOK ==
  /\ enclave \in {"provision", "auth"}
  /\ pc \in {"start", "init", "work", "draw", "print", "digits", "returned"}
  /\ retval \in {0, EAPP_ERR_RET}
  /\ entropy_bytes \in 0 .. PoolSize
  /\ remaining_bytes \in 0 .. PoolSize
  /\ asked \in Requests \cup {0} /\ drawn \in 0 .. asked
  /\ cycles \in 0 .. MaxCycles /\ startCycles \in 0 .. MaxCycles
  /\ start \in Reading /\ end \in Reading
  /\ numbers \in Seq(Long) /\ (Printing => numbers # <<>>)
  /\ num \in Nat /\ str \in Seq(0 .. 9)
  /\ used \in Seq(Nat) /\ wanted \in Nat

(* No byte of entropy is given out twice, and none from outside the pool,  *)
(* however libsodium draws.  (hacks.h 186-199, 254-260)                    *)
EntropyOnce ==
  \A i, j \in DOMAIN used :
    used[i] \in 0 .. PoolSize - 1 /\ (used[i] = used[j] => i = j)

(* hacks.h 181: "After that we refuse and shutdown": an enclave that goes  *)
(* on, or returns well, got every byte it asked for.  (hacks.h 142, 254)   *)
NeverShort ==
  pc # "draw" /\ retval = 0 => Len(used) = wanted

(* The seconds and microseconds differ from the time that has passed by    *)
(* less than a microsecond, unless the product in gettimeofday overflowed  *)
(* in between; even then the microseconds stay below a second, and the     *)
(* milliseconds are those of the other two, rounded down.                  *)
(* (hacks.h 207-221, fpga-provision.c 253-273, fpga-auth.c 88-105)         *)
Overflows(c) == (c * UsecPerSec) \div Word

Elapsed ==
  pc = "print" /\ Len(numbers) = 3 =>
    LET usec == numbers[1] * UsecPerSec + numbers[2]
        passed == (cycles - startCycles) * UsecPerSec
    IN /\ numbers[2] \in 0 .. UsecPerSec - 1
       /\ numbers[3] = usec \div UsecPerMs
       /\ Overflows(startCycles) = Overflows(cycles) =>
            (usec - 1) * CPU_FREQ < passed /\ passed < (usec + 1) * CPU_FREQ

(* What is printed reads as the number it is the text of, without leading  *)
(* zeros.  (fpga-provision.c 166-201, fpga-auth.c 31-66)                   *)
Value(digits) ==
  LET value[i \in 0 .. Len(digits)] ==
        IF i = 0 THEN 0 ELSE value[i - 1] * 10 + digits[i]
  IN value[Len(digits)]

PrintsNumber ==
  LET text == printed.text
      digits == IF text # <<>> /\ Head(text) = MINUS THEN Tail(text) ELSE text
  IN /\ digits # <<>>
     /\ \A i \in DOMAIN digits : digits[i] \in 0 .. 9
     /\ Len(digits) > 1 => Head(digits) # 0
     /\ printed.num = IF digits = text THEN Value(digits) ELSE -Value(digits)
=============================================================================

-------------------------- MODULE EnclaveLibcProofs --------------------------
(***************************************************************************)
(* EnclaveLibc for a pool of any size, any requests, any clock whose       *)
(* microsecond has two cycles or more and any word long enough for a       *)
(* second.  The arithmetic comes first: divisions are proved about as      *)
(* quotient and remainder, with the products kept as names.                *)
(***************************************************************************)
EXTENDS EnclaveLibc, FiniteSetTheorems, TLAPS

(* What is read backwards.                                                 *)
LEMMA ReversedFacts ==
  ASSUME NEW S, NEW s \in Seq(S)
  PROVE  /\ Reversed(s) \in Seq(S) /\ Len(Reversed(s)) = Len(s)
         /\ \A i \in 1 .. Len(s) : Reversed(s)[i] = s[Len(s) + 1 - i]
<1>1. \A i \in 1 .. Len(s) : Len(s) + 1 - i \in 1 .. Len(s)
  OBVIOUS
<1>2. \A i \in 1 .. Len(s) : s[Len(s) + 1 - i] \in S
  BY <1>1
<1> QED
  BY <1>2 DEF Reversed

USE ConstantsAssumption

(* A number is one quotient and one remainder only. *)
LEMMA OneQuotient ==
  ASSUME NEW w \in Nat \ {0}, NEW a \in Int, NEW b \in Int,
         NEW r \in 0 .. w - 1, NEW t \in 0 .. w - 1,
         w * a + r = w * b + t
  PROVE  a = b /\ r = t
<1>1. w * (a - b) = t - r
  OBVIOUS
<1>2. CASE a - b >= 1
  <2>1. w * (a - b) >= w
    BY <1>2
  <2> QED
    BY <2>1, <1>1
<1>3. CASE a - b <= -1
  <2>1. w * (a - b) <= -w
    BY <1>3
  <2> QED
    BY <2>1, <1>1
<1>4. CASE a = b
  BY <1>1, <1>4
<1> QED
  BY <1>2, <1>3, <1>4

LEMMA Division ==
  ASSUME NEW w \in Nat \ {0}, NEW x \in Int
  PROVE  /\ x \div w \in Int /\ x % w \in 0 .. w - 1
         /\ x = w * (x \div w) + (x % w)
OBVIOUS

(* Dividing after whole multiples have been split off gives the same. *)
LEMMA SplitDivision ==
  ASSUME NEW w \in Nat \ {0}, NEW a \in Int, NEW x \in Int
  PROVE  (w * a + x) \div w = a + x \div w
<1> DEFINE y == w * a + x
           p == y \div w
           q == x \div w
           r == y % w
           t == x % w
<1>1. w * a \in Int /\ y \in Int
  OBVIOUS
<1>2. p \in Int /\ r \in 0 .. w - 1 /\ y = w * p + r
  <2> HIDE DEF y
  <2> QED
    BY <1>1, Division
<1>3. q \in Int /\ t \in 0 .. w - 1 /\ x = w * q + t
  BY Division
<1> HIDE DEF p, q, r, t
<1>4. w * p + r = w * (a + q) + t
  BY <1>2, <1>3
<1>5. a + q \in Int
  BY <1>3
<1>6. p = a + q
  BY <1>2, <1>3, <1>4, <1>5, OneQuotient
<1> QED
  BY <1>6 DEF p, q, y

-----------------------------------------------------------------------------
(* The microseconds a reading of the clock stands for *)
Total(c) == ((c * UsecPerSec) % Word) \div CPU_FREQ

Half == Word \div 2

LEMMA Constants ==
  /\ UsecPerMs \in Nat \ {0} /\ MsPerSec \in Nat \ {0}
  /\ UsecPerSec \in Nat \ {0} /\ UsecPerSec = UsecPerMs * MsPerSec
  /\ Half \in Nat \ {0} /\ Word = 2 * Half
  /\ LONG_MIN = -Half /\ LONG_MAX = Half - 1 /\ UsecPerSec < Half
<1>1. UsecPerSec \in Nat \ {0}
  BY DEF UsecPerSec
<1>2. Half \in Nat /\ Word = 2 * Half
  BY DEF Half
<1> QED
  BY <1>1, <1>2 DEF Half, LONG_MIN, LONG_MAX, UsecPerSec

(* The totals are below half of a word, for a microsecond has two cycles   *)
(* at least; how much of a word the cycles fill tells the total.           *)
LEMMA Totals ==
  ASSUME NEW c \in Nat
  PROVE  /\ Total(c) \in 0 .. Half - 1
         /\ \E r \in 0 .. CPU_FREQ - 1 :
              (c * UsecPerSec) % Word = CPU_FREQ * Total(c) + r
         /\ (c * UsecPerSec) % Word \in Nat
<1> DEFINE x == (c * UsecPerSec) % Word
<1>1. x \in 0 .. Word - 1
  <2>1. c * UsecPerSec \in Nat
    BY Constants
  <2> QED
    BY <2>1
<1>2. Total(c) = x \div CPU_FREQ
  BY DEF Total
<1> HIDE DEF x
<1>3. /\ x \div CPU_FREQ \in Int /\ x % CPU_FREQ \in 0 .. CPU_FREQ - 1
      /\ x = CPU_FREQ * (x \div CPU_FREQ) + (x % CPU_FREQ)
  BY <1>1, Division
<1> DEFINE t == Total(c)
           r == x % CPU_FREQ
<1>4. t \in Int /\ r \in 0 .. CPU_FREQ - 1 /\ x = CPU_FREQ * t + r
  BY <1>2, <1>3
<1> HIDE DEF t, r
<1>5. t >= 0
  <2> SUFFICES ASSUME t <= -1 PROVE FALSE
    BY <1>4
  <2>1. CPU_FREQ * t <= -CPU_FREQ
    BY <1>4
  <2> QED
    BY <2>1, <1>1, <1>4
<1>6. t <= Half - 1
  <2>1. CPU_FREQ * t >= 2 * t
    BY <1>4, <1>5
  <2> QED
    BY <2>1, <1>1, <1>4, Constants
<1> QED
  BY <1>1, <1>4, <1>5, <1>6 DEF t, x

(* A reading is its total in seconds and microseconds. *)
LEMMA Readings ==
  ASSUME NEW c \in Nat
  PROVE  /\ gettimeofday(c) \in Reading
         /\ UsecPerSec * gettimeofday(c).sec + gettimeofday(c).usec = Total(c)
<1> DEFINE t == Total(c)
<1>1. t \in Nat /\ UsecPerSec \in Nat \ {0}
  BY Totals, Constants
<1>2. gettimeofday(c) = [sec |-> t \div UsecPerSec, usec |-> t % UsecPerSec]
  BY DEF gettimeofday, Total
<1> HIDE DEF t
<1>3. /\ t \div UsecPerSec \in Int /\ t % UsecPerSec \in 0 .. UsecPerSec - 1
      /\ t = UsecPerSec * (t \div UsecPerSec) + (t % UsecPerSec)
  BY <1>1, Division
<1>4. t \div UsecPerSec >= 0
  BY <1>1
<1> QED
  BY <1>2, <1>3, <1>4 DEF Reading, t

(* So is a difference of two readings. *)
LEMMA Differences ==
  ASSUME NEW from \in Reading, NEW to \in Reading, NEW a \in Int, NEW b \in Int,
         UsecPerSec * from.sec + from.usec = a,
         UsecPerSec * to.sec + to.usec = b
  PROVE  LET t == Difference(from, to)
         IN /\ t.sec \in Int /\ t.usec \in 0 .. UsecPerSec - 1
            /\ UsecPerSec * t.sec + t.usec = b - a
<1>1. /\ from.sec \in Nat /\ from.usec \in 0 .. UsecPerSec - 1
      /\ to.sec \in Nat /\ to.usec \in 0 .. UsecPerSec - 1
      /\ UsecPerSec \in Nat
  BY Constants DEF Reading
<1> DEFINE u == UsecPerSec
           s1 == from.sec
           s2 == to.sec
           m1 == from.usec
           m2 == to.usec
<1> HIDE DEF u, s1, s2, m1, m2
<1>2. /\ s1 \in Nat /\ s2 \in Nat /\ u \in Nat
      /\ m1 \in 0 .. u - 1 /\ m2 \in 0 .. u - 1
      /\ u * s1 + m1 = a /\ u * s2 + m2 = b
  BY <1>1 DEF u, s1, s2, m1, m2
<1>3. /\ u * (s2 - s1 - 1) + (m2 - m1 + u) = b - a
      /\ u * (s2 - s1) + (m2 - m1) = b - a
  BY <1>2
<1>4. CASE m2 - m1 < 0
  <2>1. Difference(from, to) = [sec |-> s2 - s1 - 1, usec |-> m2 - m1 + u]
    BY <1>4 DEF Difference, u, s1, s2, m1, m2
  <2>2. s2 - s1 - 1 \in Int /\ m2 - m1 + u \in 0 .. u - 1
    BY <1>2, <1>4
  <2> QED
    BY <1>3, <2>1, <2>2 DEF u
<1>5. CASE ~(m2 - m1 < 0)
  <2>1. Difference(from, to) = [sec |-> s2 - s1, usec |-> m2 - m1]
    BY <1>5 DEF Difference, u, s1, s2, m1, m2
  <2>2. s2 - s1 \in Int /\ m2 - m1 \in 0 .. u - 1
    BY <1>2, <1>5
  <2> QED
    BY <1>3, <2>1, <2>2 DEF u
<1> QED
  BY <1>4, <1>5

(* The quotient of a number between -Half and Half lies between them too.  *)
LEMMA SmallQuotient ==
  ASSUME NEW w \in Nat \ {0}, NEW q \in Int, NEW r \in 0 .. w - 1,
         -Half < w * q + r, w * q + r < Half
  PROVE  -Half < q /\ q < Half
<1>0. Half \in Nat \ {0}
  BY Constants
<1>1. CASE q >= 0
  <2>1. w * q >= q
    BY <1>1
  <2> QED
    BY <2>1, <1>0, <1>1
<1>2. CASE q < 0
  <2>1. w * (q + 1) <= q + 1
    BY <1>2
  <2>2. w * (q + 1) = w * q + w
    OBVIOUS
  <2> QED
    BY <2>1, <2>2, <1>0, <1>2
<1> QED
  BY <1>1, <1>2

(* The milliseconds are those of the seconds and microseconds together,    *)
(* and all three are numbers that can be negated.                          *)
LEMMA ThreeNumbers ==
  ASSUME NEW t, t.sec \in Int, t.usec \in 0 .. UsecPerSec - 1,
         -Half < UsecPerSec * t.sec + t.usec, UsecPerSec * t.sec + t.usec < Half
  PROVE  /\ Milliseconds(t) = (t.sec * UsecPerSec + t.usec) \div UsecPerMs
         /\ \A x \in {t.sec, t.usec, Milliseconds(t)} : x \in Long /\ x # LONG_MIN
<1> DEFINE s == t.sec
           u == t.usec
           z == UsecPerSec * s + u
<1>1. s \in Int /\ u \in Int /\ u \in 0 .. UsecPerSec - 1
  BY Constants
<1>2. z \in Int /\ -Half < z /\ z < Half
  BY <1>1, Constants
<1>3. -Half < s /\ s < Half
  BY <1>1, <1>2, Constants, SmallQuotient
<1>4. z = s * UsecPerSec + u
  BY <1>1, Constants
<1>5. z = UsecPerMs * (s * MsPerSec) + u
  BY <1>1, <1>4, Constants
<1>6. Milliseconds(t) = s * MsPerSec + (u \div UsecPerMs)
  BY DEF Milliseconds
<1>7. s * MsPerSec \in Int
  BY <1>1, Constants
<1> HIDE DEF z, s, u
<1>8. Milliseconds(t) = z \div UsecPerMs
  BY <1>1, <1>5, <1>6, <1>7, Constants, SplitDivision
<1>9. -Half < z \div UsecPerMs /\ z \div UsecPerMs < Half /\ z \div UsecPerMs \in Int
  <2>1. /\ z \div UsecPerMs \in Int /\ z % UsecPerMs \in 0 .. UsecPerMs - 1
        /\ z = UsecPerMs * (z \div UsecPerMs) + (z % UsecPerMs)
    BY <1>2, Constants, Division
  <2> DEFINE q == z \div UsecPerMs
             r == z % UsecPerMs
  <2> HIDE DEF q, r
  <2>2. -Half < UsecPerMs * q + r /\ UsecPerMs * q + r < Half
    BY <2>1, <1>2 DEF q, r
  <2>3. q \in Int /\ r \in 0 .. UsecPerMs - 1
    BY <2>1 DEF q, r
  <2>4. -Half < q /\ q < Half
    BY <2>2, <2>3, Constants, SmallQuotient
  <2> QED
    BY <2>1, <2>4 DEF q
<1>10. \A x \in {s, u, Milliseconds(t)} : x \in Int /\ -Half < x /\ x < Half
  BY <1>1, <1>3, <1>8, <1>9, Constants
<1> QED
  BY <1>4, <1>8, <1>10, Constants DEF Long, s, u

(* Between two overflows the totals differ by the time passed. *)
LEMMA TotalsDiffer ==
  ASSUME NEW c \in Nat, NEW d \in Nat, Overflows(c) = Overflows(d)
  PROVE  LET usec == Total(d) - Total(c)
             passed == (d - c) * UsecPerSec
         IN (usec - 1) * CPU_FREQ < passed /\ passed < (usec + 1) * CPU_FREQ
<1> DEFINE p == Total(c)
           q == Total(d)
           k == Overflows(c)
<1>1. PICK r \in 0 .. CPU_FREQ - 1 : (c * UsecPerSec) % Word = CPU_FREQ * p + r
  BY Totals
<1>2. PICK s \in 0 .. CPU_FREQ - 1 : (d * UsecPerSec) % Word = CPU_FREQ * q + s
  BY Totals
<1>3. p \in Nat /\ q \in Nat
  BY Totals, Constants
<1>4. c * UsecPerSec \in Int /\ d * UsecPerSec \in Int
  BY Constants
<1>5. /\ k \in Int
      /\ c * UsecPerSec = Word * k + ((c * UsecPerSec) % Word)
      /\ d * UsecPerSec = Word * k + ((d * UsecPerSec) % Word)
  BY <1>4, Division DEF Overflows
<1> HIDE DEF p, q, k
<1>6. (d - c) * UsecPerSec = CPU_FREQ * q + s - CPU_FREQ * p - r
  <2>1. (d - c) * UsecPerSec = d * UsecPerSec - c * UsecPerSec
    BY Constants
  <2> QED
    BY <2>1, <1>1, <1>2, <1>3, <1>5
<1>7. /\ ((q - p) - 1) * CPU_FREQ = CPU_FREQ * q - CPU_FREQ * p - CPU_FREQ
      /\ ((q - p) + 1) * CPU_FREQ = CPU_FREQ * q - CPU_FREQ * p + CPU_FREQ
  BY <1>3
<1>8. /\ ((q - p) - 1) * CPU_FREQ < (d - c) * UsecPerSec
      /\ (d - c) * UsecPerSec < ((q - p) + 1) * CPU_FREQ
  BY <1>1, <1>2, <1>3, <1>6, <1>7
<1> QED
  BY <1>8 DEF p, q

(* What the end of the work leaves to be printed *)
LEMMA WorkMeasured ==
  ASSUME NEW c \in Nat, NEW d \in Nat
  PROVE  LET t == Difference(gettimeofday(c), gettimeofday(d))
             usec == t.sec * UsecPerSec + t.usec
         IN /\ t.usec \in 0 .. UsecPerSec - 1
            /\ Milliseconds(t) = usec \div UsecPerMs
            /\ usec = Total(d) - Total(c)
            /\ \A x \in {t.sec, t.usec, Milliseconds(t)} : x \in Long /\ x # LONG_MIN
<1> DEFINE t == Difference(gettimeofday(c), gettimeofday(d))
<1>1. /\ gettimeofday(c) \in Reading /\ gettimeofday(d) \in Reading
      /\ UsecPerSec * gettimeofday(c).sec + gettimeofday(c).usec = Total(c)
      /\ UsecPerSec * gettimeofday(d).sec + gettimeofday(d).usec = Total(d)
  BY Readings
<1>2. Total(c) \in 0 .. Half - 1 /\ Total(d) \in 0 .. Half - 1
  BY Totals
<1>3. Total(c) \in Int /\ Total(d) \in Int
  BY <1>2, Constants
<1>4. /\ t.sec \in Int /\ t.usec \in 0 .. UsecPerSec - 1
      /\ UsecPerSec * t.sec + t.usec = Total(d) - Total(c)
  BY <1>1, <1>3, Differences
<1> HIDE DEF t
<1>5. -Half < UsecPerSec * t.sec + t.usec /\ UsecPerSec * t.sec + t.usec < Half
  BY <1>2, <1>4, Constants
<1>6. /\ Milliseconds(t) = (t.sec * UsecPerSec + t.usec) \div UsecPerMs
      /\ \A x \in {t.sec, t.usec, Milliseconds(t)} : x \in Long /\ x # LONG_MIN
  BY <1>4, <1>5, ThreeNumbers
<1>7. t.sec * UsecPerSec + t.usec = Total(d) - Total(c)
  BY <1>4, Constants
<1> QED
  BY <1>4, <1>6, <1>7 DEF t

-----------------------------------------------------------------------------
(***************************************************************************)
(* The inductive invariant.                                                *)
(***************************************************************************)

(* The pool ends where the bytes given out begin, and a request is as far  *)
(* as the bytes it has got.                                                *)
PoolInv ==
  /\ \/ entropy_bytes = 0 /\ remaining_bytes = 0
     \/ entropy_bytes + remaining_bytes = PoolSize
  /\ Len(used) = entropy_bytes
  /\ \A i \in DOMAIN used : used[i] = i - 1
  /\ pc = "draw" => Len(used) + asked = wanted + drawn
  /\ pc # "draw" /\ retval = 0 => Len(used) = wanted
  /\ pc \in {"start", "init"} => used = <<>> /\ wanted = 0
  /\ pc # "returned" => retval = 0

(* The first reading is that of the counter then. *)
ClockInv == pc \in {"init", "work", "draw"} => start = gettimeofday(startCycles)

(* Every number to print can be negated. *)
NumbersInv ==
  Printing => Len(numbers) \in 1 .. 3 /\ \A i \in DOMAIN numbers : numbers[i] # LONG_MIN

Inv == TypeOK /\ PoolInv /\ ClockInv /\ NumbersInv /\ Elapsed

LEMMA InitInv == Init => Inv
BY Constants DEF Init, Inv, TypeOK, PoolInv, ClockInv, NumbersInv, Elapsed, Printing,
   Reading, Reading0, Long, poolVars

LEMMA ReadStartInv == Inv /\ ReadStart => Inv'
<1> SUFFICES ASSUME Inv, ReadStart PROVE Inv'
  OBVIOUS
<1> USE DEF Inv, ReadStart, poolVars, printVars
<1>0. cycles \in Nat
  BY DEF TypeOK
<1>1. gettimeofday(cycles) \in Reading
  BY <1>0, Readings
<1>2. TypeOK'
  BY <1>1 DEF TypeOK, Printing
<1>3. PoolInv'
  BY DEF PoolInv
<1>4. ClockInv'
  BY DEF ClockInv
<1>5. NumbersInv' /\ Elapsed'
  BY DEF NumbersInv, Elapsed, Printing
<1> QED
  BY <1>2, <1>3, <1>4, <1>5

LEMMA ReadEndInv == Inv /\ ReadEnd => Inv'
<1> SUFFICES ASSUME Inv, ReadEnd PROVE Inv'
  OBVIOUS
<1> USE DEF Inv, ReadEnd, poolVars
<1> DEFINE c == startCycles
           d == cycles'
           t == Difference(gettimeofday(c), gettimeofday(d))
           usec == t.sec * UsecPerSec + t.usec
<1>1. c \in Nat /\ d \in 0 .. MaxCycles /\ d \in Nat
  BY DEF TypeOK
<1>2. /\ t.usec \in 0 .. UsecPerSec - 1
      /\ Milliseconds(t) = usec \div UsecPerMs
      /\ usec = Total(d) - Total(c)
      /\ \A x \in {t.sec, t.usec, Milliseconds(t)} : x \in Long /\ x # LONG_MIN
  BY <1>1, WorkMeasured
<1>3. numbers' = <<t.sec, t.usec, Milliseconds(t)>> /\ pc' = "print"
  BY DEF ClockInv
<1>4. end' \in Reading
  BY <1>1, Readings
<1>5. Overflows(c) = Overflows(d) =>
        /\ (usec - 1) * CPU_FREQ < (d - c) * UsecPerSec
        /\ (d - c) * UsecPerSec < (usec + 1) * CPU_FREQ
  BY <1>1, <1>2, TotalsDiffer
<1> HIDE DEF t, d
<1>6. numbers' \in Seq(Long) /\ Len(numbers') = 3
  BY <1>2, <1>3
<1>7. numbers'[1] = t.sec /\ numbers'[2] = t.usec /\ numbers'[3] = Milliseconds(t)
  BY <1>3
<1>8. TypeOK'
  BY <1>1, <1>3, <1>4, <1>6 DEF TypeOK, Printing, d
<1>9. PoolInv'
  BY <1>3 DEF PoolInv
<1>10. ClockInv' /\ NumbersInv'
  BY <1>2, <1>3, <1>6, <1>7 DEF ClockInv, NumbersInv
<1>11. Elapsed'
  BY <1>2, <1>5, <1>7 DEF Elapsed, d, Overflows
<1> QED
  BY <1>8, <1>9, <1>10, <1>11

LEMMA MagicRandomInitInv == Inv /\ MagicRandomInit => Inv'
<1> SUFFICES ASSUME Inv, MagicRandomInit PROVE Inv'
  OBVIOUS
<1> USE DEF Inv, MagicRandomInit, clockVars, printVars, EAPP_RETURN
<1>1. TypeOK'
  BY DEF TypeOK, Printing
<1>2. PoolInv'
  BY DEF PoolInv, TypeOK, EAPP_ERR_RET
<1>3. ClockInv' /\ NumbersInv' /\ Elapsed'
  BY DEF ClockInv, NumbersInv, Elapsed, Printing
<1> QED
  BY <1>1, <1>2, <1>3

LEMMA GetrandomInv == ASSUME NEW count \in Requests PROVE Inv /\ Getrandom(count) => Inv'
<1> SUFFICES ASSUME Inv, Getrandom(count) PROVE Inv'
  OBVIOUS
<1> USE DEF Inv, Getrandom, clockVars, printVars
<1>1. TypeOK'
  BY DEF TypeOK, Printing
<1>2. count \in Nat /\ wanted \in Nat /\ Len(used) = wanted
  BY DEF PoolInv, TypeOK
<1>3. Len(used') + asked' = wanted' + drawn'
  BY <1>2
<1>4. PoolInv'
  BY <1>3 DEF PoolInv
<1>5. ClockInv' /\ NumbersInv' /\ Elapsed'
  BY DEF ClockInv, NumbersInv, Elapsed, Printing
<1> QED
  BY <1>1, <1>4, <1>5

LEMMA DrawByteInv == Inv /\ DrawByte => Inv'
<1> SUFFICES ASSUME Inv, DrawByte PROVE Inv'
  OBVIOUS
<1> USE DEF Inv, DrawByte, clockVars, printVars
<1>1. entropy_bytes + remaining_bytes = PoolSize
  BY DEF PoolInv, TypeOK
<1>2. /\ used' \in Seq(Nat) /\ Len(used') = Len(used) + 1
      /\ \A i \in DOMAIN used' : used'[i] = i - 1
  BY DEF TypeOK, PoolInv
<1>3. TypeOK'
  BY <1>1, <1>2 DEF TypeOK, Printing
<1>4. PoolInv'
  BY <1>1, <1>2 DEF PoolInv, TypeOK
<1>5. ClockInv' /\ NumbersInv' /\ Elapsed'
  BY DEF ClockInv, NumbersInv, Elapsed, Printing
<1> QED
  BY <1>3, <1>4, <1>5

LEMMA DrawReturnsInv == Inv /\ DrawReturns => Inv'
<1> SUFFICES ASSUME Inv, DrawReturns PROVE Inv'
  OBVIOUS
<1> USE DEF Inv, DrawReturns, poolVars, clockVars, printVars, EAPP_RETURN
<1>1. TypeOK'
  BY DEF TypeOK, Printing
<1>2. PoolInv'
  BY DEF PoolInv, TypeOK, EAPP_ERR_RET
<1>3. ClockInv' /\ NumbersInv' /\ Elapsed'
  BY DEF ClockInv, NumbersInv, Elapsed, Printing
<1> QED
  BY <1>1, <1>2, <1>3

LEMMA LtoaSignInv == Inv /\ LtoaSign => Inv'
<1> SUFFICES ASSUME Inv, LtoaSign PROVE Inv'
  OBVIOUS
<1> USE DEF Inv, LtoaSign, poolVars, clockVars
<1>1. Head(numbers) \in Long /\ Head(numbers) # LONG_MIN
  BY DEF TypeOK, NumbersInv, Printing
<1>2. num' \in Nat
  BY <1>1, Constants DEF Long
<1>3. str' \in Seq(0 .. 9)
  <2>1. <<0>> \in Seq(0 .. 9) /\ <<>> \in Seq(0 .. 9)
    BY ONLY SMT
  <2>2. str' = IF num' = 0 THEN <<0>> ELSE <<>>
    BY Zenon
  <2> QED
    BY ONLY <2>1, <2>2, Zenon
<1>4. TypeOK'
  BY <1>2, <1>3 DEF TypeOK, Printing
<1>5. PoolInv' /\ ClockInv' /\ NumbersInv' /\ Elapsed'
  BY DEF PoolInv, ClockInv, NumbersInv, Elapsed, Printing
<1> QED
  BY <1>4, <1>5

LEMMA LtoaDigitInv == Inv /\ LtoaDigit => Inv'
<1> SUFFICES ASSUME Inv, LtoaDigit PROVE Inv'
  OBVIOUS
<1> USE DEF Inv, LtoaDigit, poolVars, clockVars
<1>1. num % 10 \in 0 .. 9 /\ num \div 10 \in Nat
  BY DEF TypeOK
<1>2. TypeOK'
  BY <1>1 DEF TypeOK, Printing
<1>3. PoolInv' /\ ClockInv' /\ NumbersInv' /\ Elapsed'
  BY DEF PoolInv, ClockInv, NumbersInv, Elapsed, Printing
<1> QED
  BY <1>2, <1>3

LEMMA LtoaEndInv == Inv /\ LtoaEnd => Inv'
<1> SUFFICES ASSUME Inv, LtoaEnd PROVE Inv'
  OBVIOUS
<1> USE DEF Inv, LtoaEnd, poolVars, clockVars, EAPP_RETURN
<1>1. numbers \in Seq(Long) /\ Len(numbers) \in 1 .. 3
  BY DEF TypeOK, NumbersInv, Printing
<1>2. /\ numbers' \in Seq(Long) /\ Len(numbers') \in 0 .. 2
      /\ \A i \in DOMAIN numbers' : numbers'[i] = numbers[i + 1]
  BY <1>1
<1>3. TypeOK'
  BY <1>2 DEF TypeOK, Printing
<1>4. PoolInv' /\ ClockInv'
  BY DEF PoolInv, ClockInv
<1>5. NumbersInv'
  BY <1>1, <1>2 DEF NumbersInv, Printing
<1>6. Elapsed'
  <2> DEFINE n == Len(numbers')
  <2>0. n \in 0 .. 2
    BY <1>2
  <2> HIDE DEF n
  <2>1. n # 3
    BY <2>0
  <2> QED
    BY <2>1 DEF Elapsed, n
<1> QED
  BY <1>3, <1>4, <1>5, <1>6

LEMMA NextInv == Inv /\ [Next]_vars => Inv'
<1> SUFFICES ASSUME Inv, [Next]_vars PROVE Inv'
  OBVIOUS
<1>1. CASE UNCHANGED vars
  <2> USE <1>1 DEF vars, poolVars, clockVars, printVars
  <2>1. TypeOK'
    BY DEF Inv, TypeOK, Printing
  <2>2. PoolInv'
    BY DEF Inv, PoolInv
  <2>3. ClockInv'
    BY DEF Inv, ClockInv
  <2>4. NumbersInv' /\ Elapsed'
    BY DEF Inv, NumbersInv, Elapsed, Printing
  <2> QED
    BY <2>1, <2>2, <2>3, <2>4 DEF Inv
<1>2. CASE Next
  BY <1>2, ReadStartInv, ReadEndInv, MagicRandomInitInv, GetrandomInv, DrawByteInv,
     DrawReturnsInv, LtoaSignInv, LtoaDigitInv, LtoaEndInv DEF Next
<1> QED
  BY <1>1, <1>2

(* What the enclaves keep to whatever the size of the pool, the frequency  *)
(* of the clock and the requests of libsodium.                             *)
THEOREM Invariance == Spec => []Inv
BY InitInv, NextInv, PTL DEF Spec

-----------------------------------------------------------------------------
(* Every variable keeps its type: in particular only longs are printed,    *)
(* and none that ltoa could not negate.  (hacks.h, fpga-provision.c,       *)
(* fpga-auth.c)                                                            *)
THEOREM TypeCorrect == Spec => []TypeOK
<1>1. Inv => TypeOK
  BY DEF Inv
<1> QED
  BY <1>1, Invariance, PTL

(* No byte of entropy is given out twice, in a pool of any size and with   *)
(* any requests.  (hacks.h 186-199, 254-260)                               *)
THEOREM EntropyOnceHolds == Spec => []EntropyOnce
<1>1. Inv => EntropyOnce
  <2> SUFFICES ASSUME Inv, NEW i \in DOMAIN used, NEW j \in DOMAIN used
               PROVE  used[i] \in 0 .. PoolSize - 1 /\ (used[i] = used[j] => i = j)
    BY DEF EntropyOnce
  <2>1. i \in 1 .. entropy_bytes /\ j \in 1 .. entropy_bytes /\ entropy_bytes <= PoolSize
    BY DEF Inv, TypeOK, PoolInv
  <2> QED
    BY <2>1 DEF Inv, PoolInv, TypeOK
<1> QED
  BY <1>1, Invariance, PTL

(* An enclave that goes on, or returns well, got all it asked for.         *)
(* (hacks.h 142, 181, 254)                                                 *)
THEOREM NeverShortHolds == Spec => []NeverShort
<1>1. Inv => NeverShort
  BY DEF Inv, PoolInv, NeverShort
<1> QED
  BY <1>1, Invariance, PTL

(* The seconds and microseconds are the time that has passed, unless the   *)
(* product overflowed in between.  (hacks.h 207-221, fpga-provision.c      *)
(* 253-273, fpga-auth.c 88-105)                                            *)
THEOREM ElapsedHolds == Spec => []Elapsed
<1>1. Inv => Elapsed
  BY DEF Inv
<1> QED
  BY <1>1, Invariance, PTL


-----------------------------------------------------------------------------
(***************************************************************************)
(* What ltoa prints.  Induction on the natural numbers is had for sets:    *)
(* would a set miss a number, then so many below it that the predecessors  *)
(* of those it misses would not find room.                                 *)
(***************************************************************************)
LEMMA SetInduction ==
  ASSUME NEW S, 0 \in S, \A n \in Nat : n \in S => n + 1 \in S
  PROVE  Nat \subseteq S
<1> SUFFICES ASSUME NEW x \in Nat, x \notin S
             PROVE  FALSE
  OBVIOUS
<1> DEFINE D == {y \in 0 .. x : y \notin S}
           f == [y \in D |-> y - 1]
<1>1. ASSUME NEW y \in D PROVE y - 1 \in D \ {x}
  <2>1. y \in Nat /\ y # 0 /\ y <= x
    OBVIOUS
  <2>2. y - 1 \in 0 .. x /\ y - 1 # x /\ y - 1 \in Nat /\ (y - 1) + 1 = y
    BY <2>1
  <2>3. y - 1 \notin S
    BY <2>2
  <2> QED BY <2>2, <2>3
<1>2. IsFiniteSet(D) /\ x \in D
  <2>1. IsFiniteSet(0 .. x)
    BY FS_Interval
  <2>2. D \in SUBSET (0 .. x)
    OBVIOUS
  <2> QED BY <2>1, <2>2, FS_Subset
<1>3. IsFiniteSet(D \ {x}) /\ Cardinality(D \ {x}) < Cardinality(D)
  <2>1. Cardinality(D) \in Nat
    BY <1>2, FS_CardinalityType
  <2>2. IsFiniteSet(D \ {x}) /\ Cardinality(D \ {x}) = Cardinality(D) - 1
    BY <1>2, FS_RemoveElement
  <2> HIDE DEF D
  <2> QED BY <2>1, <2>2
<1>4. f \in [D -> D \ {x}]
  BY <1>1
<1>5. \A y, z \in D : f[y] = f[z] => y = z
  OBVIOUS
<1> DEFINE E == D \ {x}
<1>6. \A y, z \in D : f[y] = f[z] => y = z
  BY <1>5
<1> HIDE DEF D, E, f
<1>7. /\ IsFiniteSet(D) /\ IsFiniteSet(E) /\ f \in [D -> E]
      /\ Cardinality(E) < Cardinality(D)
  BY <1>2, <1>3, <1>4 DEF E
<1>8. \E y, z \in D : y # z /\ f[y] = f[z]
  BY ONLY <1>7, FS_PigeonHole
<1> QED
  BY <1>6, <1>8

(* The numbers read so far while a text is read digit by digit *)
ReadsAs(digits, value) ==
  /\ value \in [0 .. Len(digits) -> Nat]
  /\ value[0] = 0
  /\ \A i \in 1 .. Len(digits) : value[i] = value[i - 1] * 10 + digits[i]

LEMMA ValueReads ==
  ASSUME NEW digits \in Seq(0 .. 9), NEW g, ReadsAs(digits, g)
  PROVE  Value(digits) = g[Len(digits)]
<1> DEFINE n == Len(digits)
           Step(f, i) == IF i = 0 THEN 0 ELSE f[i - 1] * 10 + digits[i]
           v == CHOOSE f : f = [i \in 0 .. n |-> Step(f, i)]
<1>1. n \in Nat
  OBVIOUS
<1>2. Value(digits) = v[n]
  BY DEF Value
<1>3. g = [i \in 0 .. n |-> Step(g, i)]
  <2>1. g \in [0 .. n -> Nat] /\ \A i \in 0 .. n : g[i] = Step(g, i)
    BY <1>1 DEF ReadsAs
  <2> QED
    BY <2>1
<1>4. v = [i \in 0 .. n |-> Step(v, i)]
  BY <1>3
<1> HIDE DEF v
<1>5. \A i \in 0 .. n : v[i] = IF i = 0 THEN 0 ELSE v[i - 1] * 10 + digits[i]
  BY <1>4
<1>6. \A i \in 0 .. n : g[i] = IF i = 0 THEN 0 ELSE g[i - 1] * 10 + digits[i]
  BY <1>3
<1> HIDE DEF Step
<1> DEFINE S == {i \in Nat : i <= n => v[i] = g[i]}
<1>7. 0 \in S
  BY <1>1, <1>5, <1>6
<1>8. ASSUME NEW i \in Nat, i \in S
      PROVE  i + 1 \in S
  <2> SUFFICES ASSUME i + 1 <= n
               PROVE  v[i + 1] = g[i + 1]
    OBVIOUS
  <2>1. i + 1 \in 0 .. n /\ i + 1 # 0 /\ (i + 1) - 1 = i /\ v[i] = g[i]
    BY <1>1, <1>8
  <2>2. v[i + 1] = v[i] * 10 + digits[i + 1]
    BY <1>5, <2>1
  <2>3. g[i + 1] = g[i] * 10 + digits[i + 1]
    BY <1>6, <2>1
  <2> QED
    BY <2>1, <2>2, <2>3
<1> HIDE DEF n
<1>9. n \in S
  <2> HIDE DEF S
  <2>1. Nat \subseteq S
    BY <1>7, <1>8, SetInduction
  <2> QED
    BY <2>1, <1>1
<1> QED
  BY <1>1, <1>2, <1>9 DEF n

Magnitude(x) == IF x < 0 THEN -x ELSE x

(* The digits so far are those of the number, the last first: put in front *)
(* of them, what is left gives the number.                                 *)
DigitsOf(x, left, digits) ==
  \E q \in [0 .. Len(digits) -> Nat] :
    /\ q[0] = x /\ q[Len(digits)] = left
    /\ \A i \in 1 .. Len(digits) : q[i - 1] = q[i] * 10 + digits[i]

LtoaInv ==
  pc = "digits" =>
    /\ DigitsOf(Magnitude(Head(numbers)), num, str)
    /\ num = 0 => str # <<>> /\ (Len(str) > 1 => str[Len(str)] # 0)

LEMMA MoreDigits ==
  ASSUME NEW x, NEW n \in Nat, NEW digits \in Seq(0 .. 9), DigitsOf(x, n, digits)
  PROVE  DigitsOf(x, n \div 10, Append(digits, n % 10))
<1> DEFINE l == Len(digits)
           more == Append(digits, n % 10)
<1>1. PICK q \in [0 .. l -> Nat] :
        /\ q[0] = x /\ q[l] = n
        /\ \A i \in 1 .. l : q[i - 1] = q[i] * 10 + digits[i]
  BY DEF DigitsOf
<1>2. n \div 10 \in Nat /\ n % 10 \in 0 .. 9 /\ n = (n \div 10) * 10 + (n % 10)
  OBVIOUS
<1>3. /\ l \in Nat /\ Len(more) = l + 1 /\ more[l + 1] = n % 10
      /\ \A i \in 1 .. l : more[i] = digits[i]
  BY <1>2
<1> DEFINE p == [i \in 0 .. l + 1 |-> IF i = l + 1 THEN n \div 10 ELSE q[i]]
<1> HIDE DEF l, more
<1>4. /\ p \in [0 .. l + 1 -> Nat] /\ p[0] = x /\ p[l + 1] = n \div 10
      /\ \A i \in 0 .. l : p[i] = q[i]
  BY <1>1, <1>2, <1>3
<1> HIDE DEF p
<1>5. ASSUME NEW i \in 1 .. l + 1
      PROVE  p[i - 1] = p[i] * 10 + more[i]
  <2>1. CASE i = l + 1
    <3>1. i - 1 = l /\ l \in 0 .. l
      BY <2>1, <1>3
    <3>2. p[i - 1] = n /\ p[i] = n \div 10 /\ more[i] = n % 10
      BY <2>1, <3>1, <1>1, <1>3, <1>4
    <3> QED
      BY ONLY <3>2, <1>2
  <2>2. CASE i # l + 1
    <3>1. i \in 1 .. l /\ p[i - 1] = q[i - 1] /\ p[i] = q[i] /\ more[i] = digits[i]
      BY <2>2, <1>3, <1>4
    <3> QED
      BY <3>1, <1>1
  <2> QED
    BY <2>1, <2>2
<1>6. \E r \in [0 .. Len(more) -> Nat] :
        /\ r[0] = x /\ r[Len(more)] = n \div 10
        /\ \A i \in 1 .. Len(more) : r[i - 1] = r[i] * 10 + more[i]
  BY <1>3, <1>4, <1>5
<1> QED
  BY <1>6 DEF DigitsOf, more

LEMMA ReversedReads ==
  ASSUME NEW x, NEW digits \in Seq(0 .. 9), DigitsOf(x, 0, digits)
  PROVE  Reversed(digits) \in Seq(0 .. 9) /\ Value(Reversed(digits)) = x
<1> DEFINE l == Len(digits)
           rev == Reversed(digits)
<1>1. PICK q \in [0 .. l -> Nat] :
        /\ q[0] = x /\ q[l] = 0
        /\ \A i \in 1 .. l : q[i - 1] = q[i] * 10 + digits[i]
  BY DEF DigitsOf
<1>2. /\ l \in Nat /\ rev \in Seq(0 .. 9) /\ Len(rev) = l
      /\ \A i \in 1 .. l : rev[i] = digits[l + 1 - i]
  BY DEF Reversed
<1> DEFINE g == [i \in 0 .. l |-> q[l - i]]
<1> HIDE DEF l, rev
<1>3. g \in [0 .. l -> Nat] /\ g[0] = 0 /\ g[l] = x
  BY <1>1, <1>2
<1>4. ASSUME NEW i \in 1 .. l
      PROVE  g[i] = g[i - 1] * 10 + rev[i]
  <2>1. /\ l - i \in 0 .. l /\ l + 1 - i \in 1 .. l /\ (l + 1 - i) - 1 = l - i
        /\ l - (i - 1) = l + 1 - i /\ i - 1 \in 0 .. l
    BY <1>2
  <2>2. g[i] = q[l - i] /\ g[i - 1] = q[l + 1 - i]
    BY <2>1
  <2>3. q[l - i] = q[l + 1 - i] * 10 + digits[l + 1 - i]
    BY <1>1, <2>1
  <2> QED
    BY <1>2, <2>2, <2>3
<1> HIDE DEF g
<1>5. ReadsAs(rev, g)
  BY <1>2, <1>3, <1>4 DEF ReadsAs
<1> QED
  BY <1>2, <1>3, <1>5, ValueReads DEF rev

LEMMA LtoaSignDigits == Inv /\ LtoaSign => LtoaInv'
<1> SUFFICES ASSUME Inv, LtoaSign PROVE LtoaInv'
  OBVIOUS
<1> DEFINE x == Head(numbers)
<1>1. x \in Int /\ x # LONG_MIN
  BY Constants DEF Inv, TypeOK, NumbersInv, Printing, LtoaSign, Long
<1>2. /\ num' = Magnitude(x) /\ num' \in Nat /\ numbers' = numbers
      /\ str' = IF num' = 0 THEN <<0>> ELSE <<>>
  BY <1>1 DEF LtoaSign, Magnitude
<1> HIDE DEF x
<1>3. CASE num' = 0
  <2>1. str' = <<0>> /\ Len(str') = 1
    BY <1>2, <1>3
  <2> DEFINE q == [i \in 0 .. 1 |-> 0]
  <2>2. /\ q \in [0 .. Len(str') -> Nat] /\ q[0] = num' /\ q[Len(str')] = num'
        /\ \A i \in 1 .. Len(str') : q[i - 1] = q[i] * 10 + str'[i]
    BY <2>1, <1>3
  <2>3. DigitsOf(num', num', str')
    BY <2>2 DEF DigitsOf
  <2> QED
    BY <2>1, <2>3, <1>2 DEF LtoaInv, x
<1>4. CASE num' # 0
  <2>1. str' = <<>> /\ Len(str') = 0
    BY <1>2, <1>4
  <2> DEFINE q == [i \in 0 .. 0 |-> num']
  <2>2. /\ q \in [0 .. Len(str') -> Nat] /\ q[0] = num' /\ q[Len(str')] = num'
        /\ \A i \in 1 .. Len(str') : q[i - 1] = q[i] * 10 + str'[i]
    BY <2>1, <1>2
  <2>3. DigitsOf(num', num', str')
    BY <2>2 DEF DigitsOf
  <2> QED
    BY <2>3, <1>2, <1>4 DEF LtoaInv, x
<1> QED
  BY <1>3, <1>4

LEMMA LtoaDigitDigits == Inv /\ LtoaInv /\ LtoaDigit => LtoaInv'
<1> SUFFICES ASSUME Inv, LtoaInv, LtoaDigit PROVE LtoaInv'
  OBVIOUS
<1>1. /\ num \in Nat /\ num # 0 /\ str \in Seq(0 .. 9)
      /\ str' = Append(str, num % 10) /\ num' = num \div 10 /\ numbers' = numbers
      /\ DigitsOf(Magnitude(Head(numbers)), num, str)
  BY DEF Inv, TypeOK, LtoaInv, LtoaDigit
<1>2. DigitsOf(Magnitude(Head(numbers)), num', str')
  <2> DEFINE x == Magnitude(Head(numbers))
  <2> HIDE DEF x
  <2>1. DigitsOf(x, num, str)
    BY <1>1 DEF x
  <2>2. DigitsOf(x, num \div 10, Append(str, num % 10))
    BY <1>1, <2>1, MoreDigits
  <2> QED
    BY <1>1, <2>2 DEF x
<1>3. str' # <<>> /\ str'[Len(str')] = num % 10
  BY <1>1
<1>4. num' = 0 => num % 10 # 0
  BY <1>1
<1> QED
  BY <1>1, <1>2, <1>3, <1>4 DEF LtoaInv

LEMMA LtoaEndPrints == Inv /\ LtoaInv /\ LtoaEnd => PrintsNumber'
<1> SUFFICES ASSUME Inv, LtoaInv, LtoaEnd PROVE PrintsNumber'
  OBVIOUS
<1> DEFINE x == Head(numbers)
           l == Len(str)
           rev == Reversed(str)
           text == Reversed(IF x < 0 THEN Append(str, MINUS) ELSE str)
<1>1. x \in Int
  BY Constants DEF Inv, TypeOK, Printing, LtoaEnd, Long
<1>2. /\ str \in Seq(0 .. 9) /\ str # <<>> /\ (l > 1 => str[l] # 0)
      /\ DigitsOf(Magnitude(x), 0, str)
  BY DEF Inv, TypeOK, LtoaInv, LtoaEnd
<1>3. printed'.num = x /\ printed'.text = text
  BY DEF LtoaEnd
<1>4. rev \in Seq(0 .. 9) /\ Value(rev) = Magnitude(x)
  BY <1>2, ReversedReads
<1>5. Len(rev) = l /\ l \in Nat \ {0} /\ Head(rev) = str[l]
  BY <1>2 DEF Reversed
<1>6. /\ rev # <<>> /\ \A i \in DOMAIN rev : rev[i] \in 0 .. 9
      /\ (Len(rev) > 1 => Head(rev) # 0)
  BY <1>2, <1>4, <1>5
<1>7. CASE x < 0
  <2> DEFINE signed == Append(str, MINUS)
  <2>1. /\ signed \in Seq(-3 .. 9) /\ Len(signed) = l + 1 /\ signed[l + 1] = MINUS
        /\ \A i \in 1 .. l : signed[i] = str[i]
    BY <1>2 DEF MINUS
  <2>2. text = Reversed(signed)
    BY <1>7
  <2> HIDE DEF signed, text, x
  <2>3. /\ text \in Seq(-3 .. 9) /\ Len(text) = l + 1
        /\ \A i \in 1 .. l + 1 : text[i] = signed[l + 2 - i]
    <3>1. /\ text \in Seq(-3 .. 9) /\ Len(text) = Len(signed)
          /\ \A i \in 1 .. Len(signed) : text[i] = signed[Len(signed) + 1 - i]
      BY <2>1, <2>2, ReversedFacts
    <3>2. \A i \in 1 .. l + 1 : (l + 1) + 1 - i = l + 2 - i
      BY <1>5
    <3> QED
      BY <2>1, <3>1, <3>2, Zenon
  <2>4. text # <<>> /\ Head(text) = MINUS
    BY <2>1, <2>3, <1>5
  <2>5. Tail(text) = rev
    <3> DEFINE t == Tail(text)
    <3>1. t \in Seq(-3 .. 9) /\ Len(t) = l /\ \A i \in 1 .. l : t[i] = text[i + 1]
      BY <2>3, <1>5
    <3>2. \A i \in 1 .. l : rev[i] = str[l + 1 - i]
      BY <1>2 DEF Reversed
    <3> HIDE DEF t, rev
    <3>3. \A i \in 1 .. l : t[i] = rev[i]
      <4> TAKE i \in 1 .. l
      <4>1. /\ i + 1 \in 1 .. l + 1 /\ l + 2 - (i + 1) = l + 1 - i
            /\ l + 1 - i \in 1 .. l
        BY <1>5
      <4>2. t[i] = signed[l + 1 - i]
        BY <3>1, <2>3, <4>1
      <4> QED
        BY <4>1, <4>2, <2>1, <3>2
    <3>4. t = rev
      BY <3>1, <3>3, <1>4, <1>5
    <3> QED
      BY <3>4 DEF t
  <2>6. Tail(text) # text
    BY <2>3, <2>5, <1>5
  <2>7. x = -Value(rev)
    BY <1>1, <1>4, <1>7 DEF Magnitude
  <2> HIDE DEF rev
  <2> QED
    BY <1>3, <1>6, <2>4, <2>5, <2>6, <2>7 DEF PrintsNumber
<1>8. CASE ~(x < 0)
  <2>1. text = rev
    BY <1>8
  <2>2. Head(rev) # MINUS
    BY <1>4, <1>5 DEF MINUS
  <2>3. x = Value(rev)
    BY <1>1, <1>4, <1>8 DEF Magnitude
  <2> HIDE DEF rev, text, x
  <2> QED
    BY <1>3, <1>6, <2>1, <2>2, <2>3 DEF PrintsNumber
<1> QED
  BY <1>7, <1>8

LEMMA InitPrints == Init => PrintsNumber
<1> SUFFICES ASSUME Init PROVE PrintsNumber
  OBVIOUS
<1> DEFINE text == <<0>>
           g == [i \in 0 .. 1 |-> 0]
<1>1. printed.num = 0 /\ printed.text = text
  BY DEF Init
<1>2. /\ text \in Seq(0 .. 9) /\ Len(text) = 1 /\ text[1] = 0 /\ Head(text) = 0
      /\ text # <<>> /\ DOMAIN text = {1}
  OBVIOUS
<1>3. ReadsAs(text, g) /\ g[Len(text)] = 0
  BY DEF ReadsAs
<1> HIDE DEF text, g
<1>4. Value(text) = 0
  BY <1>2, <1>3, ValueReads
<1>5. /\ text # <<>> /\ Head(text) # MINUS /\ ~(Len(text) > 1)
      /\ \A i \in DOMAIN text : text[i] \in 0 .. 9
  BY ONLY <1>2, SMT DEF MINUS
<1> QED
  BY <1>1, <1>4, <1>5 DEF PrintsNumber

(* What ltoa prints reads as the number, for numbers of any length and of  *)
(* either sign.  (fpga-provision.c 166-201, fpga-auth.c 31-66)             *)
THEOREM PrintsNumberHolds == Spec => []PrintsNumber
<1>1. Init => LtoaInv /\ PrintsNumber
  BY InitPrints DEF Init, LtoaInv
<1>2. Inv /\ LtoaInv /\ PrintsNumber /\ [Next]_vars => (LtoaInv /\ PrintsNumber)'
  <2> SUFFICES ASSUME Inv, LtoaInv, PrintsNumber, [Next]_vars
               PROVE  LtoaInv' /\ PrintsNumber'
    OBVIOUS
  <2>1. CASE LtoaSign
    BY <2>1, LtoaSignDigits DEF LtoaSign, PrintsNumber
  <2>2. CASE LtoaDigit
    BY <2>2, LtoaDigitDigits DEF LtoaDigit, PrintsNumber
  <2>3. CASE LtoaEnd
    BY <2>3, LtoaEndPrints DEF LtoaEnd, LtoaInv, EAPP_RETURN
  <2>4. ASSUME pc' # "digits", printed' = printed
        PROVE  LtoaInv' /\ PrintsNumber'
    BY <2>4 DEF LtoaInv, PrintsNumber
  <2>5. CASE \/ ReadStart \/ ReadEnd \/ MagicRandomInit \/ DrawByte \/ DrawReturns
             \/ \E count \in Requests : Getrandom(count)
    BY <2>4, <2>5 DEF ReadStart, ReadEnd, MagicRandomInit, Getrandom, DrawByte,
       DrawReturns, EAPP_RETURN, printVars
  <2>6. CASE UNCHANGED vars
    BY <2>6 DEF vars, printVars, LtoaInv, PrintsNumber
  <2> QED
    BY <2>1, <2>2, <2>3, <2>5, <2>6 DEF Next
<1> QED
  BY <1>1, <1>2, Invariance, PTL DEF Spec

-----------------------------------------------------------------------------
(***************************************************************************)
(* The enclaves pass ltoa a buffer of 100 bytes and no length, and their   *)
(* two loops have no bound of their own.                                   *)
(***************************************************************************)

(* Powers of ten up to one that no long reaches: for a long of 64 bits n   *)
(* is 19.                                                                  *)
PowersOfTen(p, n) ==
  /\ p[0] = 1 /\ \A i \in 1 .. n : p[i] \in Nat /\ p[i] = 10 * p[i - 1]
  /\ p[n] > LONG_MAX

(* The digits that are still to come and those written fit one long.       *)
DigitsLeft(p, n) ==
  pc = "digits" => Len(str) <= n /\ num * p[Len(str)] <= LONG_MAX

(* At most n digits and a sign are ever in the buffer.                     *)
(* (fpga-provision.c 166-201, 280; fpga-auth.c 31-66, 107)                 *)
TextFits(n) ==
  /\ pc = "digits" => Len(str) <= n
  /\ Len(printed.text) <= n + 1

LEMMA Product ==
  ASSUME NEW a \in Nat, NEW b \in Nat
  PROVE  a * b \in Nat
OBVIOUS

(* A product is no less than its factors.                                  *)
LEMMA AtLeastOnce ==
  ASSUME NEW a \in Nat \ {0}, NEW b \in Nat
  PROVE  a * b \in Nat /\ b <= a * b
<1>1. a - 1 \in Nat
  OBVIOUS
<1>2. (a - 1) * b \in Nat
  BY <1>1
<1>3. a * b = (a - 1) * b + b
  OBVIOUS
<1> QED
  BY <1>2, <1>3

(* Taking a digit off and shifting it back loses the digit.                *)
LEMMA ShorterByOne ==
  ASSUME NEW x \in Nat, NEW b \in Nat
  PROVE  (x \div 10) * (10 * b) <= x * b
<1> DEFINE q == x \div 10
           r == x % 10
           shifted == (10 * q) * b
           lost == r * b
<1>1. q \in Nat /\ r \in Nat /\ x = 10 * q + r
  OBVIOUS
<1> HIDE DEF q, r
<1>2. x * b = (10 * q) * b + r * b
  BY <1>1
<1>3. q * (10 * b) = shifted /\ shifted \in Nat
  BY <1>1
<1>4. lost \in Nat
  BY <1>1
<1> HIDE DEF shifted, lost
<1>5. shifted <= shifted + lost
  BY <1>3, <1>4
<1> QED
  BY <1>2, <1>3, <1>5 DEF q, shifted, lost

LEMMA SignLeavesRoom ==
  ASSUME NEW n \in Nat \ {0}, NEW p, PowersOfTen(p, n), Inv, LtoaSign
  PROVE  DigitsLeft(p, n)'
<1>1. Head(numbers) \in Long /\ Head(numbers) # LONG_MIN
  BY DEF Inv, TypeOK, NumbersInv, Printing, LtoaSign
<1>2. num' = IF Head(numbers) < 0 THEN -Head(numbers) ELSE Head(numbers)
  BY <1>1 DEF LtoaSign
<1>3. num' \in Nat /\ num' <= LONG_MAX
  BY <1>1, <1>2, Constants DEF Long
<1>4. CASE num' = 0
  <2>1. str' = <<0>>
    BY <1>4 DEF LtoaSign
  <2>2. Len(str') = 1 /\ p[1] \in Nat /\ LONG_MAX \in Nat
    BY <2>1, Constants DEF PowersOfTen
  <2> QED
    BY <1>4, <2>2 DEF DigitsLeft
<1>5. CASE num' # 0
  <2>1. str' = <<>>
    BY <1>5 DEF LtoaSign
  <2>2. Len(str') = 0 /\ p[0] = 1
    BY <2>1 DEF PowersOfTen
  <2> QED
    BY <1>3, <2>2 DEF DigitsLeft
<1> QED
  BY <1>4, <1>5

LEMMA DigitLeavesRoom ==
  ASSUME NEW n \in Nat \ {0}, NEW p, PowersOfTen(p, n), Inv,
         DigitsLeft(p, n), LtoaDigit
  PROVE  DigitsLeft(p, n)'
<1> DEFINE l == Len(str)
<1>1. /\ num \in Nat \ {0} /\ str \in Seq(0 .. 9) /\ l \in Nat
      /\ str' = Append(str, num % 10) /\ num' = num \div 10
      /\ l <= n /\ num * p[l] <= LONG_MAX
  BY DEF Inv, TypeOK, LtoaDigit, DigitsLeft
<1>2. Len(str') = l + 1
  BY <1>1
<1>3. \A i \in 0 .. n : p[i] \in Nat
  BY DEF PowersOfTen
<1>4. LONG_MAX \in Nat /\ p[n] > LONG_MAX
  BY Constants DEF PowersOfTen
<1> HIDE DEF l
<1>5. p[l] \in Nat
  BY <1>1, <1>3
<1>6. l # n
  <2>1. num * p[l] \in Nat /\ p[l] <= num * p[l]
    BY <1>1, <1>5, AtLeastOnce
  <2>2. p[l] <= LONG_MAX
    BY <1>1, <1>4, <1>5, <2>1
  <2> QED
    BY <1>4, <1>5, <2>2
<1>7. l + 1 \in 1 .. n /\ (l + 1) - 1 = l
  BY <1>1, <1>6
<1>8. p[l + 1] = 10 * p[l]
  BY <1>7 DEF PowersOfTen
<1>9. num' * p[l + 1] <= num * p[l]
  BY <1>1, <1>5, <1>8, ShorterByOne
<1>10. num' * p[l + 1] \in Nat /\ num * p[l] \in Nat
  <2>1. num' \in Nat /\ p[l + 1] \in Nat /\ num \in Nat
    BY <1>1, <1>3, <1>7
  <2> QED
    BY ONLY <1>5, <2>1, Product, Zenon
<1>11. num' * p[l + 1] <= LONG_MAX
  <2> DEFINE before == num * p[l]
             after == num' * p[l + 1]
  <2>1. /\ before \in Nat /\ after \in Nat /\ LONG_MAX \in Nat
        /\ after <= before /\ before <= LONG_MAX
    BY ONLY <1>1, <1>4, <1>9, <1>10, Zenon
  <2> HIDE DEF before, after
  <2>2. after <= LONG_MAX
    BY ONLY <2>1, SMT
  <2> QED
    BY <2>2 DEF after
<1>12. l + 1 <= n
  BY <1>7
<1> QED
  BY <1>2, <1>11, <1>12 DEF DigitsLeft

LEMMA EndLeavesRoom ==
  ASSUME NEW n \in Nat \ {0}, Inv, Len(str) <= n, LtoaEnd
  PROVE  Len(printed'.text) <= n + 1
<1> DEFINE signed == Append(str, MINUS)
<1>1. str \in Seq(0 .. 9)
  BY DEF Inv, TypeOK
<1>2. str \in Seq(-3 .. 9) /\ signed \in Seq(-3 .. 9) /\ Len(signed) = Len(str) + 1
  BY <1>1 DEF MINUS
<1>3. \/ printed'.text = Reversed(str)
      \/ printed'.text = Reversed(signed)
  BY DEF LtoaEnd
<1> HIDE DEF signed
<1>4. Len(Reversed(str)) = Len(str) /\ Len(Reversed(signed)) = Len(signed)
  BY <1>2, ReversedFacts
<1>5. Len(str) \in Nat
  BY <1>1
<1> QED
  BY <1>2, <1>3, <1>4, <1>5

(* No text of ltoa is longer than the digits of a long and a sign: on the  *)
(* machine of the enclaves, 21 of the 100 bytes of the buffer with the NUL.*)
(* (fpga-provision.c 166-201, 280; fpga-auth.c 31-66, 107)                 *)
THEOREM TextFitsHolds ==
  ASSUME NEW n \in Nat \ {0}, NEW p, PowersOfTen(p, n)
  PROVE  Spec => []TextFits(n)
<1>1. Init => DigitsLeft(p, n) /\ TextFits(n)
  BY DEF Init, DigitsLeft, TextFits
<1>2. Inv /\ DigitsLeft(p, n) /\ TextFits(n) /\ [Next]_vars =>
        (DigitsLeft(p, n) /\ TextFits(n))'
  <2> SUFFICES ASSUME Inv, DigitsLeft(p, n), TextFits(n), [Next]_vars
               PROVE  DigitsLeft(p, n)' /\ TextFits(n)'
    OBVIOUS
  <2>1. ASSUME DigitsLeft(p, n)', UNCHANGED printed PROVE TextFits(n)'
    BY <2>1 DEF DigitsLeft, TextFits
  <2>2. CASE LtoaSign
    BY <2>1, <2>2, SignLeavesRoom DEF LtoaSign
  <2>3. CASE LtoaDigit
    BY <2>1, <2>3, DigitLeavesRoom DEF LtoaDigit
  <2>4. CASE LtoaEnd
    <3>1. pc = "digits" /\ pc' # "digits"
      BY <2>4 DEF LtoaEnd, EAPP_RETURN
    <3> QED
      BY <2>4, <3>1, EndLeavesRoom DEF DigitsLeft, TextFits
  <2>5. CASE \/ ReadStart \/ ReadEnd \/ MagicRandomInit \/ DrawByte \/ DrawReturns
             \/ \E count \in Requests : Getrandom(count)
    <3>1. pc' # "digits" /\ UNCHANGED printed
      BY <2>5 DEF ReadStart, ReadEnd, MagicRandomInit, Getrandom, DrawByte,
         DrawReturns, EAPP_RETURN, printVars
    <3> QED
      BY <2>1, <3>1 DEF DigitsLeft
  <2>6. CASE UNCHANGED vars
    BY <2>6 DEF vars, printVars, DigitsLeft, TextFits
  <2> QED
    BY <2>2, <2>3, <2>4, <2>5, <2>6 DEF Next
<1> QED
  BY <1>1, <1>2, Invariance, PTL DEF Spec

(* The enclave is in the loop of syscall or in that of ltoa.               *)
Looping == pc \in {"draw", "digits"}

(* How often the loop at pc has yet to run at most: the bytes still asked  *)
(* for, and the number of which digits are still to be taken.              *)
LoopLeft == IF pc = "draw" THEN asked - drawn ELSE num

(* A loop ends, or is closer to its end; it never runs below zero.         *)
(* (hacks.h 186-199, fpga-provision.c 180-183, fpga-auth.c 45-48)          *)
LoopsEnd ==
  [][Looping =>
       \/ pc' # pc
       \/ LoopLeft' \in 0 .. LoopLeft - 1]_vars

(* The loop of syscall and the loop of ltoa end, whatever is asked for and *)
(* whatever is printed.  (hacks.h 186-199, fpga-provision.c 180-183)       *)
THEOREM LoopsEndHolds == Spec => LoopsEnd
<1> USE DEF Looping
<1>1. Inv /\ [Next]_vars =>
        [Looping =>
           \/ pc' # pc
           \/ LoopLeft' \in 0 .. LoopLeft - 1]_vars
  <2> SUFFICES ASSUME Inv, Next, Looping, pc' = pc
               PROVE  LoopLeft' \in 0 .. LoopLeft - 1
    OBVIOUS
  <2>1. CASE LtoaDigit
    <3>1. /\ num \in Nat \ {0} /\ num' = num \div 10
          /\ LoopLeft = num /\ LoopLeft' = num'
      BY <2>1 DEF LtoaDigit, LoopLeft, Inv, TypeOK
    <3> QED
      BY <3>1
  <2>2. CASE DrawByte
    <3>1. /\ asked \in Nat /\ drawn \in 0 .. asked /\ drawn < asked
          /\ asked' = asked /\ drawn' = drawn + 1
          /\ LoopLeft = asked - drawn /\ LoopLeft' = asked' - drawn'
      BY <2>2 DEF DrawByte, LoopLeft, Inv, TypeOK
    <3> QED
      BY <3>1
  <2>3. ~(ReadStart \/ ReadEnd \/ MagicRandomInit \/ DrawReturns \/ LtoaSign
            \/ LtoaEnd \/ \E count \in Requests : Getrandom(count))
    BY DEF ReadStart, ReadEnd, MagicRandomInit, DrawReturns, LtoaSign,
       LtoaEnd, Getrandom, EAPP_RETURN
  <2> QED
    BY <2>1, <2>2, <2>3 DEF Next
<1> QED
  BY <1>1, Invariance, PTL DEF Spec, LoopsEnd
=============================================================================

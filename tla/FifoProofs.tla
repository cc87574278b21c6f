----------------------------- MODULE FifoProofs -----------------------------
(***************************************************************************)
(* The FIFO for every size and every wrap of its counters: it keeps its    *)
(* inductive invariant and implements BoundedQueue.  The arithmetic of     *)
(* the wrapping counters comes first; LenOf and BumpSlot sum it up.        *)
(***************************************************************************)
EXTENDS Fifo, TLAPS

(* Quotient and remainder, as the SMT solver knows them.                   *)
LEMMA DivMod == ASSUME NEW a \in Int, NEW n \in Nat \ {0}
  PROVE /\ a % n \in 0 .. n - 1
        /\ a \div n \in Int
        /\ a = n * (a \div n) + (a % n)
  OBVIOUS

(* A remainder is unique.                                                  *)
LEMMA ModUnique == ASSUME NEW q \in Int, NEW r \in Int, NEW n \in Nat \ {0}, 0 <= r, r < n
  PROVE (n * q + r) % n = r
<1> DEFINE a == n * q + r
<1>1. a \in Int OBVIOUS
<1>2. a = n * (a \div n) + (a % n) /\ a % n \in 0 .. n-1 /\ a \div n \in Int BY <1>1, DivMod
<1> DEFINE d == (a \div n) - q
<1>3. n * d = r - (a % n) /\ d \in Int BY <1>2
<1>4. d = 0
  <2>1. CASE d >= 1
    <3>1. n * d >= n BY <2>1, <1>3
    <3> QED BY <3>1, <1>3, <1>2
  <2>2. CASE d <= -1
    <3>1. n * d <= -n BY <2>2, <1>3
    <3> QED BY <3>1, <1>3, <1>2
  <2> QED BY <2>1, <2>2, <1>3
<1> QED BY <1>2, <1>3, <1>4

(* Adding multiples of n does not change a remainder.                      *)
LEMMA ModMultiple == ASSUME NEW a \in Int, NEW k \in Int, NEW n \in Nat \ {0}
  PROVE (a + n * k) % n = a % n
<1> DEFINE q == a \div n
           r == a % n
<1>1. q \in Int /\ r \in Int /\ 0 <= r /\ r < n /\ a = n * q + r BY DivMod
<1>2. q + k \in Int BY <1>1
<1>3. a + n * k = n * (q + k) + r BY <1>1
<1> HIDE DEF q, r
<1>4. (n * (q + k) + r) % n = r BY <1>1, <1>2, ModUnique
<1> QED BY <1>3, <1>4 DEF r

(* Two integers less than n apart have different remainders.               *)
LEMMA ModDistinct == ASSUME NEW a \in Int, NEW d \in Int, NEW n \in Nat \ {0},
                            0 < d, d < n
  PROVE (a + d) % n # a % n
<1> DEFINE q == a \div n
           p == (a + d) \div n
           r == a % n
<1>1. q \in Int /\ r \in Int /\ a = n * q + r BY DivMod
<1>2. p \in Int /\ a + d = n * p + ((a + d) % n) BY DivMod
<1> HIDE DEF q, p, r
<1> SUFFICES ASSUME (a + d) % n = r PROVE FALSE BY DEF r
<1>3. d = n * (p - q) BY <1>1, <1>2
<1>4. CASE p - q >= 1 
  <2>1. n * (p - q) >= n BY <1>1, <1>2, <1>4
  <2> QED BY <2>1, <1>3
<1>5. CASE p - q <= 0
  <2>1. n * (p - q) <= 0 BY <1>1, <1>2, <1>5
  <2> QED BY <2>1, <1>3
<1> QED BY <1>1, <1>2, <1>4, <1>5

(* The ring is not empty and smaller than the range of its counters.       *)
LEMMA Sizes == CounterMod \in Nat /\ Size \in Nat /\ 0 < Size /\ Size < CounterMod
<1>1. Size \in Nat /\ Size > 0 /\ Wraps \in Nat /\ Wraps >= 2 BY FifoAssumption
<1>2. Size * Wraps \in Nat /\ Size * Wraps >= 2 * Size BY <1>1
<1> QED BY <1>1, <1>2 DEF CounterMod

(* A slot does not depend on whether the counter has wrapped: the range    *)
(* of the counters is a multiple of the size.                              *)
LEMMA SlotOfCounter == ASSUME NEW x \in Int, NEW i \in Int
  PROVE Slot((x % CounterMod) + i) = Slot(x + i)
<1> DEFINE q == x \div CounterMod
           c == x % CounterMod
<1>1. q \in Int /\ c \in Int /\ x = CounterMod * q + c BY DivMod, Sizes
<1>2. Size \in Nat \ {0} /\ Wraps \in Int BY FifoAssumption
<1>3. Wraps * q \in Int /\ x = c + Size * (Wraps * q) BY <1>1, <1>2 DEF CounterMod
<1> DEFINE k == Wraps * q
           b == c + i
<1>4. k \in Int /\ b \in Int /\ x + i = b + Size * k BY <1>1, <1>2, <1>3
<1> HIDE DEF q, c, k, b
<1>5. (b + Size * k) % Size = b % Size BY <1>2, <1>4, ModMultiple
<1> QED BY <1>4, <1>5 DEF Slot, c, b

(* How len() follows the counters, wrapped or not.                         *)
LEMMA WrapSub == ASSUME NEW m \in Nat, m > 1, NEW a \in 0 .. m - 1, NEW b \in 0 .. m - 1
  PROVE (a - b) % m = IF a >= b THEN a - b ELSE (a - b) + m
<1>1. CASE a >= b
  <2>1. a - b = m * 0 + (a - b) BY <1>1
  <2>2. (m * 0 + (a - b)) % m = a - b BY <1>1, ModUnique
  <2> QED BY <1>1, <2>1, <2>2
<1>2. CASE a < b
  <2>1. a - b = m * (-1) + ((a - b) + m) BY <1>2
  <2>2. (m * (-1) + ((a - b) + m)) % m = (a - b) + m BY <1>2, ModUnique
  <2> QED BY <1>2, <2>1, <2>2
<1> QED BY <1>1, <1>2

(* How a counter is advanced, wrapped or not.                              *)
LEMMA WrapInc == ASSUME NEW m \in Nat, m > 1, NEW a \in 0 .. m - 1
  PROVE (a + 1) % m = IF a + 1 = m THEN 0 ELSE a + 1
<1>1. CASE a + 1 = m
  <2>1. a + 1 = m * 1 + 0 BY <1>1
  <2>2. (m * 1 + 0) % m = 0 BY ModUnique
  <2> QED BY <1>1, <2>1, <2>2
<1>2. CASE a + 1 < m
  <2>1. a + 1 = m * 0 + (a + 1) BY <1>2
  <2>2. (m * 0 + (a + 1)) % m = a + 1 BY <1>2, ModUnique
  <2> QED BY <1>2, <2>1, <2>2
<1> QED BY <1>1, <1>2

(* All that the proofs need of two counters a and b and the length L       *)
(* between them.                                                           *)
LEMMA LenOf == ASSUME NEW a \in Counter, NEW b \in Counter
  PROVE LET L == (a - b) % CounterMod
        IN  /\ L \in 0 .. CounterMod - 1
            /\ Slot(a) = Slot(b + L)
            /\ a = b <=> L = 0
            /\ L <= Size => (Size - L) % CounterMod = Size - L
            /\ L + 1 < CounterMod => (Bump(a) - b) % CounterMod = L + 1
            /\ L > 0 => (a - Bump(b)) % CounterMod = L - 1
            /\ Bump(a) \in Counter
<1> DEFINE m == CounterMod
           L == (a - b) % m
<1>m. m \in Nat /\ m > 1 BY Sizes
<1>a. a \in 0 .. m - 1 /\ b \in 0 .. m - 1 BY DEF Counter
<1> USE <1>m, <1>a
<1> HIDE DEF m
<1>1. L = IF a >= b THEN a - b ELSE (a - b) + m BY WrapSub
<1>2. Bump(a) = IF a + 1 = m THEN 0 ELSE a + 1 BY WrapInc DEF Bump, m
<1>3. Bump(b) = IF b + 1 = m THEN 0 ELSE b + 1 BY WrapInc DEF Bump, m
<1>4. L \in 0 .. m - 1 BY <1>1
<1>5. Bump(a) \in 0 .. m - 1 /\ Bump(b) \in 0 .. m - 1 BY <1>2, <1>3
<1>6. (Bump(a) - b) % m = IF Bump(a) >= b THEN Bump(a) - b ELSE (Bump(a) - b) + m
  BY <1>5, WrapSub
<1>7. (a - Bump(b)) % m = IF a >= Bump(b) THEN a - Bump(b) ELSE (a - Bump(b)) + m
  BY <1>5, WrapSub
<1>8. Slot(a) = Slot(b + L)
  <2>1. a = (b + L) % m
    <3>1. CASE a >= b
      <4>1. b + L = m * 0 + a BY <1>1, <3>1
      <4>2. (m * 0 + a) % m = a BY ModUnique
      <4> QED BY <4>1, <4>2
    <3>2. CASE a < b
      <4>1. b + L = m * 1 + a BY <1>1, <3>2
      <4>2. (m * 1 + a) % m = a BY ModUnique
      <4> QED BY <4>1, <4>2
    <3> QED BY <3>1, <3>2
  <2> DEFINE s == b + L
  <2>2. s \in Int /\ a = s % m BY <1>4, <2>1
  <2> HIDE DEF L, s
  <2>3. Slot((s % CounterMod) + 0) = Slot(s + 0) BY <2>2, SlotOfCounter
  <2>4. (s % CounterMod) + 0 = a /\ s + 0 = s BY <2>2 DEF m
  <2> QED BY <2>3, <2>4 DEF s
<1>9. L <= Size => (Size - L) % m = Size - L
  <2> HAVE L <= Size
  <2>1. Size \in 0 .. m - 1 BY Sizes DEF m
  <2>2. (Size - L) % m = IF Size >= L THEN Size - L ELSE (Size - L) + m BY <1>4, <2>1, WrapSub
  <2> QED BY <1>4, <2>1, <2>2
<1>10. a = b <=> L = 0 BY <1>1
<1>11. L + 1 < m => (Bump(a) - b) % m = L + 1 BY <1>1, <1>2, <1>6
<1>12. L > 0 => (a - Bump(b)) % m = L - 1 BY <1>1, <1>3, <1>7
<1> HIDE DEF L
<1> QED BY <1>4, <1>5, <1>8, <1>9, <1>10, <1>11, <1>12 DEF m, L, Counter

(***************************************************************************)
(* Type correctness and the inductive invariant.                           *)
(***************************************************************************)

(* An index is within _data.                                               *)
LEMMA SlotRange == ASSUME NEW c \in Int PROVE Slot(c) \in 0 .. Size - 1
  BY FifoAssumption, DivMod DEF Slot

(* Offsets less than a size apart denote different slots.                  *)
LEMMA SlotsDiffer == ASSUME NEW c \in Int, NEW i \in Nat, NEW j \in Nat, i < j, j - i < Size
  PROVE Slot(c + i) # Slot(c + j)
<1> DEFINE a == c + i
           d == j - i
<1>1. a \in Int /\ d \in Int /\ 0 < d /\ d < Size /\ c + j = a + d OBVIOUS
<1> HIDE DEF a, d
<1>2. (a + d) % Size # a % Size BY <1>1, FifoAssumption, ModDistinct
<1> QED BY <1>1, <1>2 DEF Slot, a

(* The facts about the counters of a state that every step below uses.     *)
LEMMA CounterFacts == ASSUME TypeOK
  PROVE /\ inCnt \in Int /\ outCnt \in Int
        /\ len \in Nat
        /\ Slot(inCnt) = Slot(outCnt + len)
        /\ is_empty <=> len = 0
        /\ len <= Size => (is_full <=> len = Size)
        /\ len < Size => (Bump(inCnt) - outCnt) % CounterMod = len + 1
        /\ len > 0 => (inCnt - Bump(outCnt)) % CounterMod = len - 1
        /\ (outCnt - outCnt) % CounterMod = 0
        /\ Bump(inCnt) \in Counter /\ Bump(outCnt) \in Counter
<1>0. inCnt \in Counter /\ outCnt \in Counter BY DEF TypeOK
<1>1. LET L == (inCnt - outCnt) % CounterMod
      IN  /\ L \in 0 .. CounterMod - 1
          /\ Slot(inCnt) = Slot(outCnt + L)
          /\ inCnt = outCnt <=> L = 0
          /\ L <= Size => (Size - L) % CounterMod = Size - L
          /\ L + 1 < CounterMod => (Bump(inCnt) - outCnt) % CounterMod = L + 1
          /\ L > 0 => (inCnt - Bump(outCnt)) % CounterMod = L - 1
          /\ Bump(inCnt) \in Counter
  BY <1>0, LenOf
<1>2. (outCnt - outCnt) % CounterMod = 0 BY <1>0, LenOf
<1>3. Bump(outCnt) \in Counter BY <1>0, LenOf
<1>4. len < Size => len + 1 < CounterMod BY <1>1, Sizes DEF len
<1>5. inCnt \in Int /\ outCnt \in Int BY <1>0, Sizes DEF Counter
<1>6. len <= Size => (is_full <=> len = Size)
  <2> HAVE len <= Size
  <2>1. unused = Size - len BY <1>1 DEF len, unused
  <2>2. len \in Nat BY <1>1, Sizes DEF len
  <2> QED BY <2>1, <2>2, Sizes DEF is_full
<1>7. len \in Nat BY <1>1, Sizes DEF len
<1> QED BY <1>1, <1>2, <1>3, <1>4, <1>5, <1>6, <1>7 DEF len, is_empty

(* Offsets from an advanced counter are offsets by one more from the old.  *)
LEMMA BumpSlot == ASSUME NEW c \in Counter, NEW i \in Int
  PROVE Slot(Bump(c) + i) = Slot(c + 1 + i)
<1> DEFINE x == c + 1
<1>1. x \in Int BY Sizes DEF Counter
<1> HIDE DEF x
<1>2. Slot((x % CounterMod) + i) = Slot(x + i) BY <1>1, SlotOfCounter
<1> QED BY <1>2 DEF x, Bump

(* The constructed FIFO satisfies the inductive invariant.                 *)
LEMMA InitInv == Init => IInv
<1> SUFFICES ASSUME Init PROVE IInv OBVIOUS
<1>1. TypeOK BY Sizes DEF Init, TypeOK, Counter
<1>2. len = 0 BY <1>1, CounterFacts DEF Init, is_empty
<1> QED BY <1>1, <1>2, Sizes DEF Init, IInv, Occupancy, Published, InFlight

(* Every step keeps the types.                                             *)
LEMMA TypeStep == ASSUME TypeOK, InFlight, [Next]_vars PROVE TypeOK'
<1>0. /\ Bump(inCnt) \in Counter /\ Bump(outCnt) \in Counter
      /\ Slot(inCnt) \in 0 .. Size - 1 /\ Slot(outCnt) \in 0 .. Size - 1
  BY CounterFacts, SlotRange
<1>1. ASSUME NEW v \in Values, InBegin(v) PROVE TypeOK'
  BY <1>0, <1>1 DEF InBegin, TypeOK
<1>2. CASE InEnd BY <1>0, <1>2 DEF InEnd, TypeOK
<1>3. CASE InPublish BY <1>0, <1>3 DEF InPublish, TypeOK
<1>4. CASE OutBegin BY <1>4 DEF OutBegin, TypeOK
<1>5. CASE OutEnd BY <1>0, <1>5 DEF OutEnd, TypeOK
<1>6. CASE OutRelease BY <1>0, <1>6 DEF OutRelease, TypeOK
<1>7. CASE reset_in BY <1>7 DEF reset_in, TypeOK
<1>8. CASE UNCHANGED vars BY <1>8 DEF vars, TypeOK
<1> QED BY <1>1, <1>2, <1>3, <1>4, <1>5, <1>6, <1>7, <1>8 DEF Next

(* A step that writes only the slot behind the last published element      *)
(* leaves every published element as it was.                               *)
LEMMA WriteBehind == ASSUME TypeOK, len < Size, NEW v,
                            data' = [data EXCEPT ![Slot(inCnt)] = v],
                            UNCHANGED <<inCnt, outCnt>>
  PROVE /\ len' = len
        /\ data'[Slot(inCnt)] = v
        /\ \A i \in 0 .. len - 1 : data'[Slot(outCnt + i)] = data[Slot(outCnt + i)]
<1>1. len' = len BY DEF len
<1>2. data \in [0 .. Size - 1 -> Values \cup {Torn}] BY DEF TypeOK
<1>3. data'[Slot(inCnt)] = v BY <1>2, CounterFacts, SlotRange
<1>4. ASSUME NEW i \in 0 .. len - 1 PROVE data'[Slot(outCnt + i)] = data[Slot(outCnt + i)]
  <2>1. i \in Nat /\ len \in Nat /\ i < len /\ len - i < Size BY CounterFacts, Sizes
  <2>2. Slot(outCnt + i) # Slot(outCnt + len) BY <2>1, CounterFacts, SlotsDiffer
  <2>3. Slot(outCnt + i) \in 0 .. Size - 1 BY <2>1, CounterFacts, SlotRange
  <2> QED BY <1>2, <2>2, <2>3, CounterFacts
<1> QED BY <1>1, <1>3, <1>4

(* Every step keeps the inductive invariant.                               *)
LEMMA InvStep == IInv /\ [Next]_vars => IInv'
<1> SUFFICES ASSUME IInv, [Next]_vars PROVE IInv' OBVIOUS
<1> USE DEF IInv
<1>0. TypeOK' BY TypeStep
<1>f. /\ len \in Nat /\ Size \in Nat /\ inCnt \in Int /\ outCnt \in Int
      /\ Slot(inCnt) = Slot(outCnt + len)
      /\ is_empty <=> len = 0
      /\ is_full <=> len = Size
  BY CounterFacts, Sizes DEF Occupancy
<1>z. Slot(outCnt) = Slot(outCnt + 0) BY <1>f
<1>1. ASSUME NEW v \in Values, InBegin(v) PROVE IInv'
  <2>1. len < Size BY <1>1, <1>f DEF InBegin, Occupancy
  <2>2. /\ len' = len
        /\ \A i \in 0 .. len - 1 : data'[Slot(outCnt + i)] = data[Slot(outCnt + i)]
    BY <1>1, <2>1, WriteBehind DEF InBegin
  <2>3. Occupancy' BY <1>1, <2>1, <2>2 DEF InBegin, Occupancy
  <2>4. Published' BY <1>1, <2>2 DEF InBegin, Published
  <2>5. InFlight'
    <3>1. consumer = "read" => data'[Slot(outCnt)] = data[Slot(outCnt)]
      <4> HAVE consumer = "read"
      <4>1. 0 \in 0 .. len - 1 BY <1>f DEF Occupancy
      <4> QED BY <4>1, <2>2, <1>z
    <3> QED BY <1>1, <3>1 DEF InBegin, InFlight
  <2> QED BY <1>0, <2>3, <2>4, <2>5
<1>2. CASE InEnd
  <2>1. len < Size BY <1>2 DEF InEnd, Occupancy
  <2>2. /\ len' = len
        /\ data'[Slot(inCnt)] = arg
        /\ \A i \in 0 .. len - 1 : data'[Slot(outCnt + i)] = data[Slot(outCnt + i)]
    BY <1>2, <2>1, WriteBehind DEF InEnd
  <2>3. Occupancy' BY <1>2, <2>1, <2>2 DEF InEnd, Occupancy
  <2>4. Published' BY <1>2, <2>2 DEF InEnd, Published
  <2>5. InFlight'
    <3>1. consumer = "read" => data'[Slot(outCnt)] = data[Slot(outCnt)]
      <4> HAVE consumer = "read"
      <4>1. 0 \in 0 .. len - 1 BY <1>f DEF Occupancy
      <4> QED BY <4>1, <2>2, <1>z
    <3> QED BY <1>2, <2>2, <3>1 DEF InEnd, InFlight
  <2> QED BY <1>0, <2>3, <2>4, <2>5
<1>3. CASE InPublish
  <2>1. len < Size BY <1>3 DEF InPublish, Occupancy
  <2>2. len' = len + 1 BY <1>3, <2>1, CounterFacts DEF InPublish, len
  <2>3. Occupancy' BY <1>3, <2>1, <2>2, <1>f DEF InPublish, Occupancy
  <2>4. data[Slot(outCnt + len)] \in Values BY <1>3, <1>f DEF InPublish, InFlight
  <2>5. Published' 
    <3> SUFFICES ASSUME NEW i \in 0 .. len PROVE data[Slot(outCnt + i)] \in Values
      BY <1>3, <1>f, <2>2 DEF InPublish, Published
    <3>1. CASE i = len BY <3>1, <2>4
    <3>2. CASE i \in 0 .. len - 1 BY <3>2 DEF Published
    <3> QED BY <3>1, <3>2, <1>f
  <2>6. InFlight' BY <1>3 DEF InPublish, InFlight
  <2> QED BY <1>0, <2>3, <2>5, <2>6
<1>4. CASE OutBegin
  <2>1. len' = len BY <1>4 DEF OutBegin, len
  <2> QED BY <1>0, <1>4, <1>f, <2>1 DEF OutBegin, Occupancy, Published, InFlight
<1>5. CASE OutEnd
  <2>1. len' = len BY <1>5 DEF OutEnd, len
  <2> QED BY <1>0, <1>5, <1>f, <2>1 DEF OutEnd, Occupancy, Published, InFlight
<1>6. CASE OutRelease
  <2>1. len > 0 BY <1>6, <1>f DEF OutRelease, Occupancy
  <2>2. len' = len - 1 BY <1>6, <2>1, CounterFacts DEF OutRelease, len
  <2>3. Occupancy' BY <1>6, <2>1, <2>2, <1>f DEF OutRelease, Occupancy
  <2>4. Published'
    <3> SUFFICES ASSUME NEW i \in 0 .. len - 2
                 PROVE data[Slot(Bump(outCnt) + i)] \in Values
      BY <1>6, <1>f, <2>2 DEF OutRelease, Published
    <3>1. Slot(Bump(outCnt) + i) = Slot(outCnt + 1 + i) BY BumpSlot DEF TypeOK
    <3>2. 1 + i \in 0 .. len - 1 /\ outCnt + 1 + i = outCnt + (1 + i) BY <1>f
    <3> QED BY <3>1, <3>2 DEF Published
  <2>5. InFlight' BY <1>6 DEF OutRelease, InFlight
  <2> QED BY <1>0, <2>3, <2>4, <2>5
<1>7. CASE reset_in
  <2>1. len' = 0 BY <1>7, CounterFacts DEF reset_in, len
  <2> QED BY <1>0, <1>7, <1>f, <2>1, Sizes DEF reset_in, Occupancy, Published, InFlight
<1>8. CASE UNCHANGED vars
  <2>1. len' = len BY <1>8 DEF vars, len
  <2> QED BY <1>0, <1>8, <2>1 DEF vars, Occupancy, Published, InFlight
<1> QED BY <1>1, <1>2, <1>3, <1>4, <1>5, <1>6, <1>7, <1>8 DEF Next

(* The FIFO's type invariant (fifo.hpp, counters and slots).               *)
THEOREM TypeCorrect == Spec => []TypeOK
<1>1. IInv => TypeOK BY DEF IInv
<1> QED BY InitInv, InvStep, <1>1, PTL DEF Spec

(* The FIFO's inductive invariant: lengths, complete elements and the      *)
(* calls in progress, for any size and any wrap of the counters.           *)
THEOREM Invariance == Spec => []IInv
  BY InitInv, InvStep, PTL DEF Spec

(* out(val) never copies a slot the producer is inside, for any size and   *)
(* any wrap of the counters.                                               *)
THEOREM NoTornReads == Spec => []NoTornRead
<1>1. IInv => NoTornRead
  <2> SUFFICES ASSUME IInv, consumer = "reading" PROVE data[Slot(outCnt)] # Torn
    BY DEF NoTornRead
  <2>1. len \in Nat /\ outCnt \in Int BY CounterFacts DEF IInv
  <2>2. 0 \in 0 .. len - 1 /\ outCnt + 0 = outCnt BY <2>1 DEF IInv, Occupancy
  <2> QED BY <2>2, FifoAssumption DEF IInv, Published
<1> QED BY <1>1, Invariance, PTL

(***************************************************************************)
(* Refinement of BoundedQueue.                                             *)
(***************************************************************************)

(* The refinement mapping yields a sequence of values.                     *)
LEMMA ContentsType == ASSUME IInv
  PROVE /\ Contents \in Seq(Values)
        /\ Len(Contents) = len - Popped
        /\ len - Popped \in Nat
        /\ Popped \in {0, 1}
<1>1. len \in Nat /\ outCnt \in Int BY CounterFacts DEF IInv
<1>2. Popped \in {0, 1} /\ len - Popped \in Nat BY <1>1 DEF IInv, Occupancy, Popped
<1>3. ASSUME NEW i \in 1 .. len - Popped
      PROVE data[Slot(outCnt + Popped + i - 1)] \in Values
  <2>1. Popped + i - 1 \in 0 .. len - 1 BY <1>1, <1>2
  <2>2. outCnt + Popped + i - 1 = outCnt + (Popped + i - 1) BY <1>1, <1>2
  <2> QED BY <2>1, <2>2 DEF IInv, Published
<1> QED BY <1>2, <1>3 DEF Contents

(* With nothing published but what has been taken, it is empty.            *)
LEMMA ContentsEmpty == ASSUME IInv, len = Popped PROVE Contents = << >>
<1>1. Len(Contents) = 0 /\ Contents \in Seq(Values)
  <2>1. Popped \in {0, 1} BY ContentsType
  <2> QED BY <2>1, ContentsType
<1> QED BY <1>1

(* The constructed FIFO is an empty queue.                                 *)
LEMMA InitRefines == Init => Queue!Init
<1> SUFFICES ASSUME Init PROVE Contents = << >> BY DEF Queue!Init
<1>1. IInv BY InitInv
<1>2. len = 0 BY <1>1, CounterFacts DEF IInv, Init, is_empty
<1>3. Popped = 0 BY DEF Init, Popped
<1> QED BY <1>1, <1>2, <1>3, ContentsEmpty

(* Every step of the FIFO is a step of the queue or leaves it as it is:    *)
(* InPublish puts, OutEnd takes, reset_in clears.                          *)
LEMMA StepRefines == IInv /\ [Next]_vars => [Queue!Next]_Queue!vars
<1> SUFFICES ASSUME IInv, [Next]_vars PROVE Queue!Next \/ UNCHANGED Queue!vars
  OBVIOUS
<1>i. IInv' BY InvStep
<1>c. /\ len \in Nat /\ Size \in Nat /\ inCnt \in Int /\ outCnt \in Int
      /\ Popped \in {0, 1} /\ len - Popped \in Nat
      /\ Slot(inCnt) = Slot(outCnt + len)
  BY CounterFacts, Sizes, ContentsType DEF IInv
<1>s. ASSUME /\ len' = len
             /\ \A i \in 0 .. len - 1 : data'[Slot(outCnt + i)] = data[Slot(outCnt + i)]
             /\ UNCHANGED <<outCnt, consumer, val>>
      PROVE UNCHANGED Queue!vars
  <2>1. Popped' = Popped BY <1>s DEF Popped
  <2>2. ASSUME NEW i \in 1 .. len - Popped
        PROVE data'[Slot(outCnt + Popped + i - 1)] = data[Slot(outCnt + Popped + i - 1)]
    <3>1. Popped + i - 1 \in 0 .. len - 1 BY <1>c
    <3>2. outCnt + Popped + i - 1 = outCnt + (Popped + i - 1) BY <1>c
    <3> QED BY <1>s, <3>1, <3>2
  <2>3. Contents' = Contents BY <1>s, <2>1, <2>2 DEF Contents
  <2> QED BY <1>s, <2>3 DEF Queue!vars
<1>1. ASSUME NEW v \in Values, InBegin(v) PROVE UNCHANGED Queue!vars
  <2>1. len < Size BY <1>1, <1>c, CounterFacts DEF InBegin, IInv, Occupancy
  <2> QED BY <1>1, <1>s, <2>1, WriteBehind DEF InBegin, IInv
<1>2. CASE InEnd
  <2>1. len < Size BY <1>2 DEF InEnd, IInv, Occupancy
  <2> QED BY <1>2, <1>s, <2>1, WriteBehind DEF InEnd, IInv
<1>3. CASE InPublish
  <2>1. len < Size BY <1>3 DEF InPublish, IInv, Occupancy
  <2>2. len' = len + 1 BY <1>3, <2>1, CounterFacts DEF InPublish, len, IInv
  <2>3. Popped' = Popped BY <1>3 DEF InPublish, Popped
  <2>4. arg \in Values /\ data[Slot(outCnt + len)] = arg
    BY <1>3, <1>c DEF InPublish, IInv, InFlight
  <2>5. Contents' = Append(Contents, arg)
    <3> DEFINE e(i) == data[Slot(outCnt + Popped + i - 1)]
               n == len - Popped
    <3>1. n \in Nat /\ len' - Popped' = n + 1 BY <1>c, <2>2, <2>3
    <3>2. Contents' = [i \in 1 .. n + 1 |-> e(i)]
      BY <1>3, <2>3, <3>1 DEF InPublish, Contents
    <3>3. Contents = [i \in 1 .. n |-> e(i)] BY DEF Contents
    <3>4. e(n + 1) = arg
      <4>1. outCnt + Popped + (n + 1) - 1 = outCnt + len BY <1>c
      <4> QED BY <4>1, <2>4
    <3> HIDE DEF e, n
    <3> QED BY <3>1, <3>2, <3>3, <3>4
  <2>6. Len(Contents) < Size BY <2>1, <1>c, ContentsType
  <2> QED BY <1>3, <2>4, <2>5, <2>6 DEF InPublish, Queue!Next, Queue!Put
<1>4. CASE OutBegin
  <2>1. len' = len /\ Popped' = Popped BY <1>4 DEF OutBegin, len, Popped
  <2> QED BY <1>4, <2>1 DEF OutBegin, Contents, Queue!vars
<1>5. CASE OutEnd
  <2>1. len' = len /\ len > 0 /\ Popped = 0 /\ Popped' = 1
    BY <1>5, <1>c DEF OutEnd, len, Popped, IInv, Occupancy
  <2> DEFINE e(i) == data[Slot(outCnt + i - 1)]
  <2>2. Contents = [i \in 1 .. len |-> e(i)]
    <3>1. outCnt + 0 = outCnt /\ len - 0 = len BY <1>c
    <3> QED BY <2>1, <3>1 DEF Contents
  <2>3. Contents' = [i \in 1 .. len - 1 |-> e(i + 1)]
    <3>1. Contents' = [i \in 1 .. len - 1 |-> data[Slot(outCnt + 1 + i - 1)]]
      BY <1>5, <2>1 DEF OutEnd, Contents
    <3>2. \A i \in 1 .. len - 1 : outCnt + 1 + i - 1 = outCnt + (i + 1) - 1 BY <1>c
    <3> QED BY <3>1, <3>2
  <2>4. val' = e(1)
    <3>1. outCnt + 1 - 1 = outCnt BY <1>c
    <3> QED BY <1>5, <3>1 DEF OutEnd
  <2> HIDE DEF e
  <2>5. Contents # << >> /\ Contents' = Tail(Contents) /\ val' = Head(Contents)
    BY <1>c, <2>1, <2>2, <2>3, <2>4
  <2> QED BY <2>5 DEF Queue!Next, Queue!Take
<1>6. CASE OutRelease
  <2>1. len > 0 BY <1>6, <1>c DEF OutRelease, IInv, Occupancy
  <2>2. len' = len - 1 BY <1>6, <2>1, CounterFacts DEF OutRelease, len, IInv
  <2>3. Popped = 1 /\ Popped' = 0 BY <1>6 DEF OutRelease, Popped
  <2>4. ASSUME NEW i \in 1 .. len - 1
        PROVE data[Slot(Bump(outCnt) + 0 + i - 1)] = data[Slot(outCnt + 1 + i - 1)]
    <3>1. Slot(Bump(outCnt) + (i - 1)) = Slot(outCnt + 1 + (i - 1))
      BY BumpSlot DEF IInv, TypeOK
    <3>2. Bump(outCnt) \in Int BY CounterFacts, Sizes DEF IInv, Counter
    <3>3. Bump(outCnt) + 0 + i - 1 = Bump(outCnt) + (i - 1) BY <3>2
    <3>4. outCnt + 1 + i - 1 = outCnt + 1 + (i - 1) BY <1>c
    <3> QED BY <3>1, <3>3, <3>4
  <2>5. Contents' = Contents
    <3>1. Contents' = [i \in 1 .. (len - 1) - 0 |-> data[Slot(Bump(outCnt) + 0 + i - 1)]]
      BY <1>6, <2>2, <2>3 DEF OutRelease, Contents
    <3>2. Contents = [i \in 1 .. len - 1 |-> data[Slot(outCnt + 1 + i - 1)]]
      BY <2>3 DEF Contents
    <3>3. (len - 1) - 0 = len - 1 BY <1>c
    <3> QED BY <2>4, <3>1, <3>2, <3>3
  <2> QED BY <1>6, <2>5 DEF OutRelease, Queue!vars
<1>7. CASE reset_in
  <2>1. len' = 0 BY <1>7, CounterFacts DEF reset_in, len, IInv
  <2>2. Popped' = 0 BY <1>7 DEF reset_in, Popped
  <2>3. IInv' /\ len' = Popped' BY <1>i, <2>1, <2>2
  <2>4. Contents' = << >>
    <3>1. Contents' = [i \in 1 .. 0 |-> data'[Slot(outCnt' + Popped' + i - 1)]]
      BY <2>1, <2>2 DEF Contents
    <3> QED BY <3>1
  <2> QED BY <1>7, <2>4 DEF reset_in, Queue!Next, Queue!Clear
<1>8. CASE UNCHANGED vars
  <2>1. len' = len /\ Popped' = Popped BY <1>8 DEF vars, len, Popped
  <2> QED BY <1>8, <2>1 DEF vars, Contents, Queue!vars
<1> QED BY <1>1, <1>2, <1>3, <1>4, <1>5, <1>6, <1>7, <1>8
        DEF Next, Queue!vars

(* The ring buffer implements the bounded FIFO queue.                      *)
THEOREM Refinement == Spec => ImplementsQueue
  BY InitRefines, StepRefines, Invariance, PTL DEF Spec, ImplementsQueue, Queue!Spec
=============================================================================

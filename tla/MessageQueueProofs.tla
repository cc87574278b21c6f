------------------------- MODULE MessageQueueProofs -------------------------
(***************************************************************************)
(* The application queue for any number of writers, any sizes of their     *)
(* records and of the ring: the room a writer finds, the order in which    *)
(* records are handled, and what a change of images does to them.          *)
(***************************************************************************)
EXTENDS MessageQueue, FiniteSetTheorems, TLAPS

-----------------------------------------------------------------------------
(* The records, where they come from, and who holds one.                   *)
RecordsOK ==
    /\ fifo \in Seq(Record)
    /\ slot \in Record \cup {None}
    /\ wpc \in [Writers -> {"idle", "locked", "copied", "signal", "ended"}]
    /\ \A w \in Writers : wpc[w] = "copied" => slot \in Record
    /\ seq \in [Writers -> 0 .. Numbers - 1]
    /\ m4 \in {"running", "stopping", "halted"}
    /\ m0 \in {"wait", "drain", "handle", "shutdown", "start"}
    /\ cur \in Record \cup {None}
    /\ switched \in BOOLEAN

(* The M4 is stopped by a shutdown() that waits for it, and has no threads *)
(* afterwards.                                                             *)
HaltInv ==
    /\ m4 = "stopping" => m0 = "shutdown"
    /\ m4 = "halted" => \A w \in Writers : wpc[w] = "ended"

(* The record whose handler runs is still the first of the queue, unless   *)
(* the handler has called shutdown().                                      *)
HandlerInv ==
    /\ m0 = "handle" /\ ~switched => fifo # << >> /\ cur = Head(fifo)
    /\ m0 = "handle" => cur # None
    /\ m0 \in {"wait", "drain"} => cur = None
    /\ m0 # "handle" => (switched <=> cur # None)

(* The mutex is with the writer that is inside push(), the slot holds that *)
(* writer's next record, and there is room for it.                         *)
PushInv ==
    \A w \in Writers :
        /\ wpc[w] \in {"locked", "copied"} <=> mutex = w
        /\ wpc[w] = "copied" => slot = [from |-> w, n |-> seq[w]] /\ RecordBytes[w] <= unused

(* There is never more in the ring than it holds.                          *)
RingInv == IsFiniteSet(Taken) /\ unused \in Nat

(* The variables nothing of the order depends on.                          *)
ControlOK ==
    /\ mutex \in Writers \cup {None}
    /\ line \in BOOLEAN /\ enabled \in BOOLEAN
    /\ isr \in {"none", "checked"} /\ window \in 0 .. WindowPushes
    /\ evt \in BOOLEAN
    /\ expected \in [Writers -> 0 .. Numbers - 1]

(* The records of a writer that are behind the first s of a queue are      *)
(* numbered one after another, from e on, and z is next.                   *)
Apart(q, i, j, w) == \A k \in DOMAIN q : i < k /\ k < j => q[k].from # w

Numbered(q, s, w, e, z) ==
    /\ \A j \in DOMAIN q : s < j /\ q[j].from = w =>
           /\ Apart(q, s, j, w) => q[j].n = e
           /\ Apart(q, j, Len(q) + 1, w) => z = Bump(q[j].n)
           /\ \A i \in DOMAIN q :
                  s < i /\ i < j /\ q[i].from = w /\ Apart(q, i, j, w) => q[j].n = Bump(q[i].n)
    /\ Apart(q, s, Len(q) + 1, w) => z = e

(* The record whose handler runs has been counted.                         *)
Counted == IF m0 = "handle" /\ ~switched THEN 1 ELSE 0

OrderInv ==
    m4 = "running" =>
        /\ \A i \in DOMAIN fifo : fifo[i].from \in Writers
        /\ \A w \in Writers : Numbered(fifo, Counted, w, expected[w], seq[w])

(* The interrupt is enabled only while an image runs that is not being     *)
(* started or shut down.  Its handler, once it has looked at the queue,    *)
(* has flagged the event loop or found the queue empty; and before it is   *)
(* enabled, what has been pushed has rung or is about to.                  *)
BellInv ==
    /\ m4 # "running" \/ m0 \in {"shutdown", "start"} => ~enabled
    /\ m0 = "start" => m4 = "running"
    /\ m0 = "start" /\ fifo # << >> => line \/ \E w \in Writers : wpc[w] = "signal"
    /\ isr = "none" => window = 0
    /\ isr = "checked" => enabled /\ (evt \/ Len(fifo) = window)

IInv ==
    /\ RecordsOK /\ HaltInv /\ OldImageGone /\ HandlerInv
    /\ PushInv /\ RingInv /\ ControlOK /\ OrderInv /\ BellInv

-----------------------------------------------------------------------------
(* Head and tail of a queue of records, and of one that has grown.         *)
LEMMA Appended ==
    ASSUME NEW S, NEW q \in Seq(S), NEW e \in S
    PROVE  /\ Append(q, e) \in Seq(S) /\ Append(q, e) # << >>
           /\ Len(Append(q, e)) = Len(q) + 1 /\ Len(q) \in Nat
           /\ q # << >> => Head(Append(q, e)) = Head(q)
<1> DEFINE r == Append(q, e)
<1>1. r \in Seq(S) /\ Len(r) = Len(q) + 1 /\ Len(q) \in Nat OBVIOUS
<1>2. ASSUME q # << >> PROVE r[1] = q[1] BY <1>2
<1> HIDE DEF r
<1>3. r # << >> BY <1>1
<1>4. ASSUME q # << >> PROVE Head(r) = Head(q) BY <1>1, <1>2, <1>3, <1>4
<1>5. /\ r \in Seq(S) /\ r # << >>
      /\ Len(r) = Len(q) + 1 /\ Len(q) \in Nat
      /\ q # << >> => Head(r) = Head(q)
  BY <1>1, <1>3, <1>4
<1> QED BY <1>5 DEF r

(* The rest of a queue.                                                    *)
LEMMA Popped ==
    ASSUME NEW S, NEW q \in Seq(S), q # << >>
    PROVE  Tail(q) \in Seq(S) /\ Head(q) \in S
  OBVIOUS

(* The ShutdownMessage is a record, and a number that is bumped a number.  *)
LEMMA Records ==
    /\ [from |-> Exit, n |-> 0] \in Record
    /\ \A w \in Writers, n \in 0 .. Numbers - 1 : [from |-> w, n |-> n] \in Record
    /\ \A n \in 0 .. Numbers - 1 : Bump(n) \in 0 .. Numbers - 1
  BY QueueAssumption DEF Record, Sources, Bump

(* An image starts with each of its threads outside of push().             *)
LEMMA Started ==
    ASSUME run_image
    PROVE  /\ wpc' \in [Writers -> {"idle", "locked", "copied", "signal", "ended"}]
           /\ \A w \in Writers : wpc'[w] \in {"idle", "ended"}
<1>1. PICK threads \in Images :
          wpc' = [w \in Writers |-> IF w \in threads THEN "idle" ELSE "ended"]
  BY DEF run_image
<1> QED BY <1>1

(* A record takes its bytes in the ring.                                   *)
LEMMA TakenByOne ==
    ASSUME fifo \in Seq(Record), NEW e \in Record, IsFiniteSet(Taken), fifo' = Append(fifo, e)
    PROVE  IsFiniteSet(Taken') /\ Cardinality(Taken') <= Cardinality(Taken) + Bytes(e)
<1> DEFINE N == Len(fifo)
           B == 1 .. Bytes(e)
           X == {N + 1} \X B
<1>1. Bytes(e) \in Nat BY QueueAssumption DEF Bytes, Record, Sources
<1>2. IsFiniteSet(B) /\ Cardinality(B) = Bytes(e) BY <1>1, FS_Interval
<1>3. IsFiniteSet(X) /\ Cardinality(X) <= Bytes(e)
  <2>1. IsFiniteSet({N + 1}) /\ Cardinality({N + 1}) = 1 BY FS_Singleton
  <2> HIDE DEF N, B
  <2>2. IsFiniteSet(X) /\ Cardinality(X) = 1 * Cardinality(B) BY <1>2, <2>1, FS_Product
  <2> HIDE DEF X
  <2> QED BY <1>1, <1>2, <2>2
<1>4. Taken' = Taken \cup X
  <2>1. /\ N \in Nat /\ DOMAIN fifo' = 1 .. N + 1 /\ fifo'[N + 1] = e
        /\ \A i \in 1 .. N : fifo'[i] = fifo[i]
    OBVIOUS
  <2>2. DOMAIN fifo = 1 .. N OBVIOUS
  <2> HIDE DEF N
  <2> DEFINE T(i) == {i} \X (1 .. Bytes(fifo'[i]))
  <2>3. \A x : x \in Taken' <=> \E i \in 1 .. N + 1 : x \in T(i) BY <2>1 DEF Taken, Bytes
  <2>4. \A x : x \in Taken <=> \E i \in 1 .. N : x \in {i} \X (1 .. Bytes(fifo[i])) BY <2>2 DEF Taken
  <2>5. \A i \in 1 .. N : {i} \X (1 .. Bytes(fifo[i])) = T(i) BY <2>1
  <2>6. T(N + 1) = X BY <2>1
  <2> HIDE DEF T, X
  <2>7. \A i : i \in 1 .. N + 1 <=> i \in 1 .. N \/ i = N + 1 BY <2>1
  <2>8. \A x : x \in Taken' <=> x \in Taken \/ x \in X BY <2>3, <2>4, <2>5, <2>6, <2>7
  <2> QED BY <2>8
<1> HIDE DEF X
<1>5. Cardinality(Taken \cup X) = Cardinality(Taken) + Cardinality(X) - Cardinality(Taken \cap X)
      /\ IsFiniteSet(Taken \cup X)
  BY <1>3, FS_Union
<1>6. IsFiniteSet(Taken \cap X)
  <2>1. Taken \cap X \in SUBSET X OBVIOUS
  <2> QED BY <1>3, <2>1, FS_Subset
<1>7. /\ Cardinality(Taken) \in Nat /\ Cardinality(X) \in Nat
      /\ Cardinality(Taken \cap X) \in Nat
  BY <1>3, <1>6, FS_CardinalityType
<1> QED BY <1>1, <1>3, <1>4, <1>5, <1>7

(* Without the first record no more is taken.                              *)
LEMMA TakenByRest ==
    ASSUME fifo \in Seq(Record), fifo # << >>, IsFiniteSet(Taken), fifo' = Tail(fifo)
    PROVE  IsFiniteSet(Taken') /\ Cardinality(Taken') <= Cardinality(Taken)
<1> DEFINE N == Len(fifo)
           g == [x \in Taken' |-> <<x[1] + 1, x[2]>>]
<1>1. /\ N \in Nat /\ N # 0 /\ DOMAIN fifo = 1 .. N /\ DOMAIN fifo' = 1 .. N - 1
      /\ \A i \in 1 .. N - 1 : fifo'[i] = fifo[i + 1]
  OBVIOUS
<1> HIDE DEF N
<1>2. ASSUME NEW x \in Taken'
      PROVE  /\ g[x] \in Taken
             /\ x = <<x[1], x[2]>> /\ x[1] \in Nat
  <2>1. PICK i \in 1 .. N - 1 : x \in {i} \X (1 .. Bytes(fifo'[i])) BY <1>1, <1>2 DEF Taken, Bytes
  <2>2. x = <<i, x[2]>> /\ x[2] \in 1 .. Bytes(fifo'[i]) /\ x[1] = i
    <3> DEFINE S == 1 .. Bytes(fifo'[i])
    <3> HIDE DEF S
    <3>1. x \in {i} \X S BY <2>1 DEF S
    <3>2. x = <<i, x[2]>> /\ x[2] \in S /\ x[1] = i BY <3>1
    <3> QED BY <3>2 DEF S
  <2>3. i + 1 \in 1 .. N /\ x[2] \in 1 .. Bytes(fifo[i + 1]) BY <1>1, <2>2
  <2>4. <<i + 1, x[2]>> \in {i + 1} \X (1 .. Bytes(fifo[i + 1])) BY <2>3
  <2>5. <<i + 1, x[2]>> \in Taken BY <1>1, <2>3, <2>4 DEF Taken
  <2>6. g[x] = <<i + 1, x[2]>> BY <1>2, <2>2
  <2>7. x[1] \in Nat BY <2>2
  <2> HIDE DEF g
  <2> QED BY <2>2, <2>5, <2>6, <2>7
<1>3. ASSUME NEW x \in Taken', NEW y \in Taken', g[x] = g[y] PROVE x = y
  <2>1. x = <<x[1], x[2]>> /\ y = <<y[1], y[2]>> /\ x[1] \in Nat /\ y[1] \in Nat BY <1>2
  <2>2. x[1] + 1 = y[1] + 1 /\ x[2] = y[2] BY <1>3
  <2> QED BY <2>1, <2>2
<1>4. g \in Injection(Taken', Taken) BY <1>2, <1>3 DEF Injection, IsInjective
<1> QED BY <1>4, FS_Injection

(* A queue without records takes nothing.                                  *)
LEMMA TakenByNone ==
    ASSUME fifo = << >>
    PROVE  IsFiniteSet(Taken) /\ Cardinality(Taken) = 0
<1>1. Taken = {} BY DEF Taken
<1> QED BY <1>1, FS_EmptySet

(* What every step does to the records in the ring.                        *)
LEMMA RingStep ==
    ASSUME RecordsOK, PushInv, RingInv, [Next]_vars
    PROVE  /\ RingInv'
           /\ unused' >= unused \/ (\E w \in Writers : Publish(w)) \/ Halt
<1> USE DEF m4vars, isrvars, m0vars
<1>1. Cardinality(Taken) \in Nat BY FS_CardinalityType DEF RingInv
<1>2. CASE fifo' = fifo
  <2>1. Taken' = Taken BY <1>2 DEF Taken, Bytes
  <2> QED BY <1>1, <2>1, QueueAssumption DEF RingInv, unused
<1>3. ASSUME NEW w \in Writers, Publish(w) PROVE RingInv'
  <2>1. slot = [from |-> w, n |-> seq[w]] /\ RecordBytes[w] <= unused /\ fifo' = Append(fifo, slot)
    BY <1>3 DEF Publish, PushInv
  <2>2. slot \in Record /\ Bytes(slot) = RecordBytes[w]
    BY <1>3, <2>1, QueueAssumption DEF Publish, RecordsOK, Bytes
  <2>3. IsFiniteSet(Taken') /\ Cardinality(Taken') <= Cardinality(Taken) + Bytes(slot)
    BY <2>1, <2>2, TakenByOne DEF RecordsOK, RingInv
  <2>4. Cardinality(Taken') \in Nat BY <2>3, FS_CardinalityType
  <2> QED BY <1>1, <2>1, <2>2, <2>3, <2>4, QueueAssumption DEF RingInv, unused
<1>4. ASSUME ShutdownBytes <= unused, fifo' = Append(fifo, [from |-> Exit, n |-> 0]) PROVE RingInv'
  <2> DEFINE e == [from |-> Exit, n |-> 0]
  <2>1. e \in Record /\ Bytes(e) = ShutdownBytes BY Records DEF Bytes
  <2>2. fifo' = Append(fifo, e) BY <1>4
  <2> HIDE DEF e
  <2>3. IsFiniteSet(Taken') /\ Cardinality(Taken') <= Cardinality(Taken) + Bytes(e)
    BY <2>1, <2>2, TakenByOne DEF RecordsOK, RingInv
  <2>4. Cardinality(Taken') \in Nat BY <2>3, FS_CardinalityType
  <2> QED BY <1>1, <1>4, <2>1, <2>3, <2>4, QueueAssumption DEF RingInv, unused
<1>5. CASE Halt BY <1>2, <1>4, <1>5 DEF Halt
<1>6. ASSUME fifo' = << >> PROVE RingInv' /\ unused' >= unused
  <2>1. IsFiniteSet(Taken') /\ Cardinality(Taken') = 0
    <3>1. Taken' = {} BY <1>6 DEF Taken
    <3> QED BY <3>1, FS_EmptySet
  <2> QED BY <1>1, <2>1, QueueAssumption DEF RingInv, unused
<1>7. ASSUME fifo # << >>, fifo' = Tail(fifo) PROVE RingInv' /\ unused' >= unused
  <2>1. IsFiniteSet(Taken') /\ Cardinality(Taken') <= Cardinality(Taken)
    BY <1>7, TakenByRest DEF RecordsOK, RingInv
  <2>2. Cardinality(Taken') \in Nat BY <2>1, FS_CardinalityType
  <2> QED BY <1>1, <2>1, <2>2, QueueAssumption DEF RingInv, unused
<1>8. CASE Skip BY <1>6, <1>7, <1>8 DEF Skip
<1>9. CASE reset BY <1>6, <1>9 DEF reset
<1> QED BY <1>2, <1>3, <1>5, <1>8, <1>9 DEF Next, Push, Lock, Full, Copy, signal, Join, IsrCheck,
     IsrClear, Wait, Peek, shutdown, run_image, enable, vars

(* Every step keeps records records.                                       *)
LEMMA RecordsStep ==
    ASSUME RecordsOK, HaltInv, [Next]_vars
    PROVE  RecordsOK'
<1> USE DEF m4vars, isrvars, m0vars
<1>1. ASSUME NEW w \in Writers, Lock(w) PROVE RecordsOK' BY <1>1 DEF Lock, RecordsOK
<1>2. ASSUME NEW w \in Writers, Full(w) PROVE RecordsOK' BY <1>2 DEF Full, RecordsOK
<1>3. ASSUME NEW w \in Writers, Copy(w) PROVE RecordsOK'
  <2>1. seq[w] \in 0 .. Numbers - 1 BY DEF RecordsOK
  <2>2. slot' \in Record BY <1>3, <2>1, Records DEF Copy
  <2> QED BY <1>3, <2>2 DEF Copy, RecordsOK
<1>4. ASSUME NEW w \in Writers, Publish(w) PROVE RecordsOK'
  <2>1. slot \in Record /\ fifo' = Append(fifo, slot) /\ seq' = [seq EXCEPT ![w] = Bump(@)]
    BY <1>4 DEF Publish, RecordsOK
  <2>2. fifo' \in Seq(Record) BY <2>1, Appended DEF RecordsOK
  <2>3. seq' \in [Writers -> 0 .. Numbers - 1] BY <2>1, Records DEF RecordsOK
  <2> QED BY <1>4, <2>2, <2>3 DEF Publish, RecordsOK
<1>5. ASSUME NEW w \in Writers, signal(w) PROVE RecordsOK' BY <1>5 DEF signal, RecordsOK
<1>6. ASSUME NEW w \in Writers, Join(w) PROVE RecordsOK' BY <1>6 DEF Join, RecordsOK
<1>7. CASE Halt
  <2>1. fifo' \in Seq(Record)
    <3>1. fifo' = fifo \/ fifo' = Append(fifo, [from |-> Exit, n |-> 0]) BY <1>7 DEF Halt
    <3> QED BY <3>1, Appended, Records DEF RecordsOK
  <2> QED BY <1>7, <2>1 DEF Halt, RecordsOK
<1>8. CASE IsrCheck BY <1>8 DEF IsrCheck, RecordsOK
<1>9. CASE IsrClear BY <1>9 DEF IsrClear, RecordsOK
<1>10. CASE Wait BY <1>10 DEF Wait, RecordsOK
<1>11. CASE Peek
  <2>1. cur' \in Record \cup {None} /\ m0' \in {"wait", "handle"}
    BY <1>11, Popped DEF Peek, HandleRecord, RecordsOK
  <2> QED BY <1>11, <2>1 DEF Peek, RecordsOK
<1>12. CASE Skip
  <2>1. fifo' \in Seq(Record) BY <1>12, Popped DEF Skip, RecordsOK
  <2>2. switched' \in BOOLEAN BY <1>12 DEF Skip
  <2> QED BY <1>12, <2>1, <2>2 DEF Skip, RecordsOK
<1>13. CASE shutdown
  <2>1. switched' \in BOOLEAN BY <1>13 DEF shutdown
  <2> QED BY <1>13, <2>1 DEF shutdown, RecordsOK
<1>14. CASE reset BY <1>14 DEF reset, Back, RecordsOK
<1>15. CASE run_image
  <2>1. /\ seq' = [w \in Writers |-> 0]
        /\ m4' = "running" /\ m0' = "start" /\ UNCHANGED <<fifo, slot, cur, switched>>
    BY <1>15 DEF run_image
  <2>2. seq' \in [Writers -> 0 .. Numbers - 1] BY <2>1, QueueAssumption
  <2>3. wpc' \in [Writers -> {"idle", "locked", "copied", "signal", "ended"}]
        /\ \A w \in Writers : wpc'[w] # "copied"
    BY <1>15, Started
  <2> QED BY <2>1, <2>2, <2>3 DEF RecordsOK
<1>16. CASE enable BY <1>16 DEF enable, Back, RecordsOK
<1>17. CASE UNCHANGED vars BY <1>17 DEF vars, RecordsOK
<1> QED BY <1>1, <1>2, <1>3, <1>4, <1>5, <1>6, <1>7, <1>8, <1>9, <1>10, <1>11, <1>12, <1>13,
           <1>14, <1>15, <1>16, <1>17 DEF Next, Push

(* Every step keeps the M4's threads in step with shutdown().              *)
LEMMA HaltStep ==
    ASSUME RecordsOK, HaltInv, [Next]_vars
    PROVE  HaltInv'
<1> USE DEF m4vars, isrvars, m0vars
<1>1. ASSUME NEW w \in Writers, Lock(w) PROVE HaltInv' BY <1>1 DEF Lock, RecordsOK, HaltInv
<1>2. ASSUME NEW w \in Writers, Full(w) PROVE HaltInv' BY <1>2 DEF Full, RecordsOK, HaltInv
<1>3. ASSUME NEW w \in Writers, Copy(w) PROVE HaltInv' BY <1>3 DEF Copy, RecordsOK, HaltInv
<1>4. ASSUME NEW w \in Writers, Publish(w) PROVE HaltInv'
  BY <1>4 DEF Publish, RecordsOK, HaltInv
<1>5. ASSUME NEW w \in Writers, signal(w) PROVE HaltInv' BY <1>5 DEF signal, RecordsOK, HaltInv
<1>6. ASSUME NEW w \in Writers, Join(w) PROVE HaltInv' BY <1>6 DEF Join, RecordsOK, HaltInv
<1>7. CASE Halt BY <1>7 DEF Halt, HaltInv
<1>8. CASE IsrCheck BY <1>8 DEF IsrCheck, RecordsOK, HaltInv
<1>9. CASE IsrClear BY <1>9 DEF IsrClear, RecordsOK, HaltInv
<1>10. CASE Wait BY <1>10 DEF Wait, RecordsOK, HaltInv
<1>11. CASE Peek BY <1>11 DEF Peek, HandleRecord, HaltInv
<1>12. CASE Skip BY <1>12 DEF Skip, RecordsOK, HaltInv
<1>13. CASE shutdown BY <1>13 DEF shutdown, RecordsOK, HaltInv
<1>14. CASE reset BY <1>14 DEF reset, Back, RecordsOK, HaltInv
<1>15. CASE run_image BY <1>15 DEF run_image, RecordsOK, HaltInv
<1>16. CASE enable BY <1>16 DEF enable, Back, RecordsOK, HaltInv
<1>17. CASE UNCHANGED vars BY <1>17 DEF vars, RecordsOK, HaltInv
<1> QED BY <1>1, <1>2, <1>3, <1>4, <1>5, <1>6, <1>7, <1>8, <1>9, <1>10, <1>11, <1>12, <1>13,
           <1>14, <1>15, <1>16, <1>17 DEF Next, Push

(* Every step keeps the queue empty while no image runs: reset() follows   *)
(* the end of the M4's threads, and nothing can be pushed any more.        *)
LEMMA GoneStep ==
    ASSUME RecordsOK, HaltInv, OldImageGone, [Next]_vars
    PROVE  OldImageGone'
<1> USE DEF m4vars, isrvars, m0vars
<1>1. ASSUME NEW w \in Writers, Lock(w) PROVE OldImageGone'
  BY <1>1 DEF Lock, RecordsOK, HaltInv, OldImageGone
<1>2. ASSUME NEW w \in Writers, Full(w) PROVE OldImageGone'
  BY <1>2 DEF Full, RecordsOK, HaltInv, OldImageGone
<1>3. ASSUME NEW w \in Writers, Copy(w) PROVE OldImageGone'
  BY <1>3 DEF Copy, RecordsOK, HaltInv, OldImageGone
<1>4. ASSUME NEW w \in Writers, Publish(w) PROVE OldImageGone'
  BY <1>4 DEF Publish, RecordsOK, HaltInv, OldImageGone
<1>5. ASSUME NEW w \in Writers, signal(w) PROVE OldImageGone'
  BY <1>5 DEF signal, RecordsOK, HaltInv, OldImageGone
<1>6. ASSUME NEW w \in Writers, Join(w) PROVE OldImageGone'
  BY <1>6 DEF Join, RecordsOK, HaltInv, OldImageGone
<1>7. CASE Halt BY <1>7 DEF Halt, RecordsOK, HaltInv, OldImageGone
<1>8. CASE IsrCheck BY <1>8 DEF IsrCheck, RecordsOK, HaltInv, OldImageGone
<1>9. CASE IsrClear BY <1>9 DEF IsrClear, RecordsOK, HaltInv, OldImageGone
<1>10. CASE Wait BY <1>10 DEF Wait, RecordsOK, HaltInv, OldImageGone
<1>11. CASE Peek BY <1>11 DEF Peek, HandleRecord, OldImageGone
<1>12. CASE Skip BY <1>12 DEF Skip, RecordsOK, HaltInv, OldImageGone
<1>13. CASE shutdown BY <1>13 DEF shutdown, RecordsOK, HaltInv, OldImageGone
<1>14. CASE reset BY <1>14 DEF reset, Back, RecordsOK, HaltInv, OldImageGone
<1>15. CASE run_image BY <1>15 DEF run_image, RecordsOK, HaltInv, OldImageGone
<1>16. CASE enable BY <1>16 DEF enable, Back, RecordsOK, HaltInv, OldImageGone
<1>17. CASE UNCHANGED vars BY <1>17 DEF vars, RecordsOK, HaltInv, OldImageGone
<1> QED BY <1>1, <1>2, <1>3, <1>4, <1>5, <1>6, <1>7, <1>8, <1>9, <1>10, <1>11, <1>12, <1>13,
           <1>14, <1>15, <1>16, <1>17 DEF Next, Push

(* Every step keeps the record in the handler at the head of the queue,    *)
(* until the queue is reset under it.                                      *)
LEMMA HandlerStep ==
    ASSUME RecordsOK, OldImageGone, HandlerInv, [Next]_vars
    PROVE  HandlerInv'
<1> USE DEF m4vars, isrvars, m0vars
<1>1. ASSUME NEW w \in Writers, Lock(w) PROVE HandlerInv'
  BY <1>1 DEF Lock, RecordsOK, HandlerInv
<1>2. ASSUME NEW w \in Writers, Full(w) PROVE HandlerInv'
  BY <1>2 DEF Full, RecordsOK, HandlerInv
<1>3. ASSUME NEW w \in Writers, Copy(w) PROVE HandlerInv'
  BY <1>3 DEF Copy, RecordsOK, HandlerInv
<1>4. ASSUME NEW w \in Writers, Publish(w) PROVE HandlerInv'
  <2>1. fifo' = Append(fifo, slot) /\ slot \in Record /\ UNCHANGED <<m0, cur, switched>>
    BY <1>4 DEF Publish, RecordsOK
  <2>2. fifo' # << >> /\ (fifo # << >> => Head(fifo') = Head(fifo)) BY <2>1, Appended DEF RecordsOK
  <2> QED BY <2>1, <2>2 DEF HandlerInv
<1>5. ASSUME NEW w \in Writers, signal(w) PROVE HandlerInv'
  BY <1>5 DEF signal, RecordsOK, HandlerInv
<1>6. ASSUME NEW w \in Writers, Join(w) PROVE HandlerInv'
  BY <1>6 DEF Join, RecordsOK, HandlerInv
<1>7. CASE Halt
  <2>1. fifo' = fifo \/ fifo' = Append(fifo, [from |-> Exit, n |-> 0]) BY <1>7 DEF Halt
  <2>2. fifo # << >> => fifo' # << >> /\ Head(fifo') = Head(fifo)
    BY <2>1, Appended, Records DEF RecordsOK
  <2> QED BY <1>7, <2>2 DEF Halt, HandlerInv
<1>8. CASE IsrCheck BY <1>8 DEF IsrCheck, RecordsOK, HandlerInv
<1>9. CASE IsrClear BY <1>9 DEF IsrClear, RecordsOK, HandlerInv
<1>10. CASE Wait BY <1>10 DEF Wait, RecordsOK, HandlerInv
<1>11. CASE Peek
  <2>1. \/ m0' = "wait" /\ cur' = cur /\ m0 = "drain"
        \/ m0' = "handle" /\ fifo # << >> /\ cur' = Head(fifo)
    BY <1>11 DEF Peek, HandleRecord
  <2>2. m0 = "drain" /\ ~switched /\ switched' = switched /\ fifo' = fifo
    BY <1>11 DEF Peek, HandlerInv
  <2>3. fifo # << >> => Head(fifo) # None BY Popped, QueueAssumption DEF RecordsOK
  <2> QED BY <2>1, <2>2, <2>3 DEF HandlerInv
<1>12. CASE Skip BY <1>12 DEF Skip, RecordsOK, HandlerInv
<1>13. CASE shutdown
  <2>1. m0' = "shutdown" /\ switched' = (cur # None) /\ cur' = cur BY <1>13 DEF shutdown
  <2>2. cur' # None <=> switched' BY <2>1
  <2> QED BY <2>1, <2>2 DEF HandlerInv
<1>14. CASE reset BY <1>14 DEF reset, Back, RecordsOK, HandlerInv
<1>15. CASE run_image
  <2>1. m0' = "start" /\ m0 \in {"wait", "handle"} /\ m4 = "halted" /\ UNCHANGED <<cur, switched>>
    BY <1>15 DEF run_image
  <2>2. fifo = << >> BY <2>1 DEF OldImageGone
  <2>3. cur # None => switched BY <2>1, <2>2 DEF HandlerInv
  <2> QED BY <2>1, <2>3 DEF HandlerInv
<1>16. CASE enable BY <1>16 DEF enable, Back, RecordsOK, HandlerInv
<1>17. CASE UNCHANGED vars BY <1>17 DEF vars, RecordsOK, HandlerInv
<1> QED BY <1>1, <1>2, <1>3, <1>4, <1>5, <1>6, <1>7, <1>8, <1>9, <1>10, <1>11, <1>12, <1>13,
           <1>14, <1>15, <1>16, <1>17 DEF Next, Push

(* Every step keeps the mutex with the writer that copies, and its room.   *)
LEMMA PushStep ==
    ASSUME RecordsOK, HaltInv, RingInv, PushInv, [Next]_vars
    PROVE  PushInv'
<1> USE DEF m4vars, isrvars, m0vars
<1>0. unused \in Nat /\ unused' \in Nat /\ (unused' >= unused \/ (\E w \in Writers : Publish(w)) \/ Halt)
  BY RingStep DEF RingInv
<1>1. ASSUME UNCHANGED m4vars, unused' >= unused PROVE PushInv'
  <2>1. \A w \in Writers : RecordBytes[w] \in Nat BY QueueAssumption
  <2> QED BY <1>0, <1>1, <2>1 DEF PushInv
<1>2. ASSUME UNCHANGED fifo PROVE unused' = unused BY <1>2 DEF unused, Taken, Bytes
<1>3. ASSUME NEW w \in Writers, Lock(w) PROVE PushInv'
  <2>1. /\ mutex = None /\ mutex' = w /\ wpc' = [wpc EXCEPT ![w] = "locked"]
        /\ UNCHANGED <<fifo, slot, seq>>
    BY <1>3 DEF Lock
  <2>2. None \notin Writers BY QueueAssumption
  <2> QED BY <1>2, <2>1, <2>2 DEF RecordsOK, PushInv
<1>4. ASSUME NEW w \in Writers, Full(w) PROVE PushInv'
  <2>1. /\ wpc[w] = "locked" /\ mutex' = None /\ wpc' = [wpc EXCEPT ![w] = "idle"]
        /\ UNCHANGED <<fifo, slot, seq>>
    BY <1>4 DEF Full
  <2>2. None \notin Writers BY QueueAssumption
  <2> QED BY <1>2, <2>1, <2>2 DEF RecordsOK, PushInv
<1>5. ASSUME NEW w \in Writers, Copy(w) PROVE PushInv'
  <2>1. /\ wpc[w] = "locked" /\ mutex' = mutex /\ wpc' = [wpc EXCEPT ![w] = "copied"]
        /\ slot' = [from |-> w, n |-> seq[w]] /\ RecordBytes[w] <= unused /\ UNCHANGED <<fifo, seq>>
    BY <1>5 DEF Copy
  <2> QED BY <1>2, <2>1 DEF RecordsOK, PushInv
<1>6. ASSUME NEW w \in Writers, Publish(w) PROVE PushInv'
  <2>1. /\ wpc[w] = "copied" /\ mutex' = None /\ wpc' = [wpc EXCEPT ![w] = "signal"]
    BY <1>6 DEF Publish
  <2>2. None \notin Writers BY QueueAssumption
  <2>3. \A v \in Writers : wpc'[v] \notin {"locked", "copied"} BY <2>1 DEF RecordsOK, PushInv
  <2> QED BY <2>1, <2>2, <2>3 DEF PushInv
<1>7. ASSUME NEW w \in Writers, signal(w) \/ Join(w) PROVE PushInv'
  <2>1. /\ wpc[w] \in {"idle", "signal"} /\ mutex' = mutex
        /\ \E to \in {"idle", "ended"} : wpc' = [wpc EXCEPT ![w] = to]
        /\ UNCHANGED <<fifo, slot, seq>>
    BY <1>7 DEF signal, Join
  <2> QED BY <1>2, <2>1 DEF RecordsOK, PushInv
<1>8. CASE Halt
  <2>1. \A w \in Writers : wpc[w] = "ended" /\ wpc'[w] = "ended" BY <1>8 DEF Halt
  <2> QED BY <1>8, <2>1 DEF Halt, PushInv
<1>9. CASE run_image
  <2>1. mutex' = mutex /\ m4 = "halted" BY <1>9 DEF run_image
  <2>2. \A w \in Writers : wpc[w] = "ended" BY <2>1 DEF HaltInv
  <2>3. \A w \in Writers : wpc'[w] \in {"idle", "ended"} BY <1>9, Started
  <2> QED BY <2>1, <2>2, <2>3 DEF PushInv
<1>10. CASE IsrCheck \/ IsrClear \/ Wait \/ Peek \/ shutdown \/ enable \/ UNCHANGED vars
  <2>1. UNCHANGED m4vars /\ fifo' = fifo
    BY <1>10 DEF IsrCheck, IsrClear, Wait, Peek, shutdown, enable, vars
  <2> QED BY <1>0, <1>1, <1>2, <2>1
<1>11. CASE Skip \/ reset
  <2>1. UNCHANGED m4vars /\ ~Halt /\ \A w \in Writers : ~Publish(w)
    <3>1. UNCHANGED m4vars /\ m4' = m4 BY <1>11 DEF Skip, reset
    <3>2. ASSUME NEW w \in Writers, Publish(w) PROVE FALSE
      BY <3>1, <3>2 DEF Publish, RecordsOK
    <3>3. ~Halt BY <3>1 DEF Halt
    <3> QED BY <3>1, <3>2, <3>3
  <2> QED BY <1>0, <1>1, <2>1
<1> QED BY <1>3, <1>4, <1>5, <1>6, <1>7, <1>8, <1>9, <1>10, <1>11 DEF Next, Push

(* Every step keeps the types of what is left.                             *)
LEMMA ControlStep ==
    ASSUME RecordsOK, ControlOK, [Next]_vars
    PROVE  ControlOK'
<1> USE DEF m4vars, isrvars, m0vars
<1>1. ASSUME NEW w \in Writers, Lock(w) \/ Full(w) \/ Copy(w) \/ signal(w) \/ Join(w)
      PROVE  ControlOK'
  <2>1. mutex' \in Writers \cup {None} /\ line' \in BOOLEAN
    BY <1>1 DEF Lock, Full, Copy, signal, Join, ControlOK
  <2>2. UNCHANGED <<enabled, isrvars, evt, expected>> BY <1>1 DEF Lock, Full, Copy, signal, Join
  <2> QED BY <2>1, <2>2 DEF ControlOK
<1>2. ASSUME NEW w \in Writers, Publish(w) PROVE ControlOK'
  <2>1. window' \in 0 .. WindowPushes
    <3>1. isr = "checked" => window < WindowPushes /\ window' = window + 1 BY <1>2 DEF Publish
    <3>2. isr # "checked" => window' = window BY <1>2 DEF Publish
    <3> QED BY <3>1, <3>2, QueueAssumption DEF ControlOK
  <2>2. mutex' = None /\ UNCHANGED <<line, enabled, isr, evt, expected>> BY <1>2 DEF Publish
  <2> QED BY <2>1, <2>2 DEF ControlOK
<1>3. CASE Halt
  <2>1. line' \in BOOLEAN BY <1>3 DEF Halt, ControlOK
  <2> QED BY <1>3, <2>1 DEF Halt, ControlOK
<1>4. CASE IsrCheck \/ IsrClear
  <2>1. line' \in BOOLEAN /\ isr' \in {"none", "checked"} BY <1>4 DEF IsrCheck, IsrClear, ControlOK
  <2>3. evt' \in BOOLEAN BY <1>4 DEF IsrCheck, IsrClear, ControlOK
  <2>4. window' \in 0 .. WindowPushes BY <1>4, QueueAssumption DEF IsrCheck, IsrClear, ControlOK
  <2>2. UNCHANGED <<mutex, enabled, expected>> BY <1>4 DEF IsrCheck, IsrClear
  <2> QED BY <2>1, <2>2, <2>3, <2>4 DEF ControlOK
<1>5. CASE Wait BY <1>5 DEF Wait, ControlOK
<1>6. CASE Peek
  <2>1. expected' \in [Writers -> 0 .. Numbers - 1]
    <3>1. CASE expected' = expected BY <3>1 DEF ControlOK
    <3>2. CASE fifo # << >> /\ HandleRecord(Head(fifo))
      <4>1. Head(fifo) \in Record BY <3>2, Popped DEF RecordsOK
      <4>2. Bump(Head(fifo).n) \in 0 .. Numbers - 1 BY <4>1, Records DEF Record
      <4> QED BY <3>2, <4>2 DEF HandleRecord, ControlOK
    <3> QED BY <1>6, <3>1, <3>2 DEF Peek
  <2> QED BY <1>6, <2>1 DEF Peek, ControlOK
<1>7. CASE Skip
  <2>1. expected' \in [Writers -> 0 .. Numbers - 1] BY <1>7, Records DEF Skip, ControlOK
  <2> QED BY <1>7, <2>1 DEF Skip, ControlOK
<1>8. CASE shutdown \/ reset \/ enable
  <2>1. enabled' \in BOOLEAN BY <1>8 DEF shutdown, reset, enable, ControlOK
  <2> QED BY <1>8, <2>1 DEF shutdown, reset, enable, ControlOK
<1>9. CASE run_image
  <2>1. expected' \in [Writers -> 0 .. Numbers - 1] BY <1>9, QueueAssumption DEF run_image
  <2> QED BY <1>9, <2>1 DEF run_image, ControlOK
<1>10. CASE UNCHANGED vars BY <1>10 DEF vars, ControlOK
<1> QED BY <1>1, <1>2, <1>3, <1>4, <1>5, <1>6, <1>7, <1>8, <1>9, <1>10 DEF Next, Push

-----------------------------------------------------------------------------
(* A writer's next record continues its numbers, ...                       *)
LEMMA NumberedOwn ==
    ASSUME NEW q \in Seq(Record), NEW s \in 0 .. Len(q), NEW w, NEW e, NEW z,
           Numbered(q, s, w, e, z), NEW r \in Record, r.from = w, r.n = z
    PROVE  Numbered(Append(q, r), s, w, e, Bump(z))
<1> DEFINE N == Len(q)
           p == Append(q, r)
<1>1. /\ N \in Nat /\ DOMAIN q = 1 .. N /\ DOMAIN p = 1 .. N + 1 /\ Len(p) = N + 1
      /\ p[N + 1] = r /\ \A i \in 1 .. N : p[i] = q[i]
  OBVIOUS
<1> HIDE DEF N, p
<1>2. ASSUME NEW i \in 0 .. N, NEW j \in 0 .. N + 1 PROVE Apart(p, i, j, w) <=> Apart(q, i, j, w)
  BY <1>1, <1>2 DEF Apart
<1>3. ASSUME NEW i \in 0 .. N PROVE ~Apart(p, i, N + 2, w) BY <1>1, <1>3 DEF Apart
<1>4. s \in 0 .. N BY DEF N
<1>5. ASSUME NEW j \in DOMAIN p, s < j, p[j].from = w
      PROVE  /\ Apart(p, s, j, w) => p[j].n = e
             /\ Apart(p, j, N + 2, w) => Bump(z) = Bump(p[j].n)
             /\ \A i \in DOMAIN p :
                   s < i /\ i < j /\ p[i].from = w /\ Apart(p, i, j, w) => p[j].n = Bump(p[i].n)
  <2>1. CASE j = N + 1
    <3>1. p[j].n = z BY <1>1, <2>1
    <3>2. Apart(q, s, N + 1, w) => z = e BY DEF Numbered, N
    <3>3. \A i \in 1 .. N : s < i /\ q[i].from = w /\ Apart(q, i, N + 1, w) => z = Bump(q[i].n)
      BY <1>1 DEF Numbered, N
    <3>4. \A i \in DOMAIN p : i < j => i \in 1 .. N BY <1>1, <2>1
    <3>5. \A i \in 1 .. N : i \in 0 .. N OBVIOUS
    <3>6. N + 1 \in 0 .. N + 1 BY <1>1
    <3> QED BY <1>1, <1>2, <1>4, <2>1, <3>1, <3>2, <3>3, <3>4, <3>5, <3>6
  <2>2. CASE j \in 1 .. N
    <3>1. ~Apart(p, j, N + 2, w) BY <1>3, <2>2
    <3>2. q[j].from = w /\ p[j] = q[j] BY <1>1, <1>5, <2>2
    <3>3. \A i \in DOMAIN p : i < j => i \in 1 .. N /\ i \in 0 .. N BY <1>1, <2>2
    <3>4. j \in 0 .. N + 1 BY <1>1, <2>2
    <3>5. Apart(q, s, j, w) => q[j].n = e BY <1>1, <1>5, <2>2, <3>2 DEF Numbered
    <3>6. \A i \in 1 .. N : s < i /\ i < j /\ q[i].from = w /\ Apart(q, i, j, w) => q[j].n = Bump(q[i].n)
      BY <1>1, <1>5, <2>2, <3>2 DEF Numbered
    <3> QED BY <1>1, <1>2, <1>4, <3>1, <3>2, <3>3, <3>4, <3>5, <3>6
  <2> QED BY <1>1, <1>5, <2>1, <2>2
<1>6. Numbered(p, s, w, e, Bump(z)) BY <1>1, <1>3, <1>4, <1>5 DEF Numbered
<1> QED BY <1>6 DEF p

(* ... and another record leaves them alone.                               *)
LEMMA NumberedOther ==
    ASSUME NEW q \in Seq(Record), NEW s \in 0 .. Len(q), NEW w, NEW e, NEW z,
           Numbered(q, s, w, e, z), NEW r \in Record, r.from # w
    PROVE  Numbered(Append(q, r), s, w, e, z)
<1> DEFINE N == Len(q)
           p == Append(q, r)
<1>1. /\ N \in Nat /\ DOMAIN q = 1 .. N /\ DOMAIN p = 1 .. N + 1 /\ Len(p) = N + 1
      /\ p[N + 1] = r /\ \A i \in 1 .. N : p[i] = q[i]
  OBVIOUS
<1> HIDE DEF N, p
<1>2. ASSUME NEW i \in 0 .. N, NEW j \in 0 .. N + 1 PROVE Apart(p, i, j, w) <=> Apart(q, i, j, w)
  BY <1>1, <1>2 DEF Apart
<1>3. ASSUME NEW i \in 0 .. N PROVE Apart(p, i, N + 2, w) <=> Apart(q, i, N + 1, w)
  BY <1>1, <1>3 DEF Apart
<1>4. s \in 0 .. N BY DEF N
<1>5. ASSUME NEW j \in DOMAIN p, s < j, p[j].from = w
      PROVE  /\ Apart(p, s, j, w) => p[j].n = e
             /\ Apart(p, j, N + 2, w) => z = Bump(p[j].n)
             /\ \A i \in DOMAIN p :
                   s < i /\ i < j /\ p[i].from = w /\ Apart(p, i, j, w) => p[j].n = Bump(p[i].n)
  <2>1. j \in 1 .. N BY <1>1, <1>5
  <2>2. q[j].from = w /\ p[j] = q[j] BY <1>1, <1>5, <2>1
  <2>3. \A i \in DOMAIN p : i < j => i \in 1 .. N /\ i \in 0 .. N BY <1>1, <2>1
  <2>4. j \in 0 .. N + 1 /\ j \in 0 .. N BY <1>1, <2>1
  <2>5. Apart(q, s, j, w) => q[j].n = e BY <1>1, <1>5, <2>1, <2>2 DEF Numbered
  <2>6. \A i \in 1 .. N : s < i /\ i < j /\ q[i].from = w /\ Apart(q, i, j, w) => q[j].n = Bump(q[i].n)
    BY <1>1, <1>5, <2>1, <2>2 DEF Numbered
  <2>7. Apart(q, j, N + 1, w) => z = Bump(q[j].n) BY <1>1, <1>5, <2>1, <2>2 DEF Numbered, N
  <2> QED BY <1>1, <1>2, <1>3, <1>4, <2>2, <2>3, <2>4, <2>5, <2>6, <2>7
<1>6. Apart(p, s, N + 2, w) => z = e BY <1>3, <1>4 DEF Numbered, N
<1>7. Numbered(p, s, w, e, z) BY <1>1, <1>5, <1>6 DEF Numbered
<1> QED BY <1>7 DEF p

(* The first record is the one expected, and the next one is expected when *)
(* it is taken.                                                            *)
LEMMA NumberedFirst ==
    ASSUME NEW q \in Seq(Record), q # << >>, NEW w, NEW e, NEW z, Numbered(q, 0, w, e, z)
    PROVE  /\ q[1].from = w => q[1].n = e /\ Numbered(q, 1, w, Bump(q[1].n), z)
           /\ q[1].from # w => Numbered(q, 1, w, e, z)
<1> DEFINE N == Len(q)
<1>1. N \in Nat \ {0} /\ DOMAIN q = 1 .. N OBVIOUS
<1> HIDE DEF N
<1>2. ASSUME q[1].from = w PROVE q[1].n = e /\ Numbered(q, 1, w, Bump(q[1].n), z)
  <2>1. Apart(q, 0, 1, w) BY <1>1 DEF Apart
  <2>2. 1 \in DOMAIN q /\ 0 < 1 BY <1>1
  <2>3. q[1].n = e /\ (Apart(q, 1, N + 1, w) => z = Bump(q[1].n))
    BY <1>2, <2>1, <2>2 DEF Numbered, N
  <2>4. ASSUME NEW j \in DOMAIN q, 1 < j, q[j].from = w
        PROVE  /\ Apart(q, 1, j, w) => q[j].n = Bump(q[1].n)
               /\ Apart(q, j, N + 1, w) => z = Bump(q[j].n)
               /\ \A i \in DOMAIN q :
                      1 < i /\ i < j /\ q[i].from = w /\ Apart(q, i, j, w) => q[j].n = Bump(q[i].n)
    <3>1. 0 < j /\ \A i \in DOMAIN q : 1 < i => 0 < i BY <1>1, <2>4
    <3> QED BY <1>2, <2>2, <2>4, <3>1 DEF Numbered, N
  <2> QED BY <2>3, <2>4 DEF Numbered, N
<1>3. ASSUME q[1].from # w PROVE Numbered(q, 1, w, e, z)
  <2>1. ASSUME NEW j PROVE Apart(q, 1, j, w) => Apart(q, 0, j, w)
    BY <1>1, <1>3 DEF Apart
  <2>2. ASSUME NEW j \in DOMAIN q, 1 < j PROVE 0 < j BY <1>1, <2>2
  <2> QED BY <2>1, <2>2 DEF Numbered, N
<1> QED BY <1>2, <1>3

(* Without the first record the others are as they were.                   *)
LEMMA NumberedRest ==
    ASSUME NEW q \in Seq(Record), q # << >>, NEW w, NEW e, NEW z, Numbered(q, 1, w, e, z)
    PROVE  Numbered(Tail(q), 0, w, e, z)
<1> DEFINE N == Len(q)
           p == Tail(q)
<1>1. /\ N \in Nat \ {0} /\ DOMAIN q = 1 .. N /\ DOMAIN p = 1 .. N - 1 /\ Len(p) = N - 1
      /\ \A i \in 1 .. N - 1 : p[i] = q[i + 1]
  OBVIOUS
<1> HIDE DEF N, p
<1>2. ASSUME NEW i \in 0 .. N - 1, NEW j \in 0 .. N, Apart(p, i, j, w)
      PROVE  Apart(q, i + 1, j + 1, w)
  <2> SUFFICES ASSUME NEW k \in 1 .. N, i + 1 < k, k < j + 1 PROVE q[k].from # w
    BY <1>1 DEF Apart
  <2>1. k - 1 \in 1 .. N - 1 /\ i < k - 1 /\ k - 1 < j /\ q[k] = p[k - 1] BY <1>1
  <2> QED BY <1>1, <1>2, <2>1 DEF Apart
<1>3. ASSUME NEW j \in 1 .. N - 1, p[j].from = w
      PROVE  /\ Apart(p, 0, j, w) => p[j].n = e
             /\ Apart(p, j, N, w) => z = Bump(p[j].n)
             /\ \A i \in 1 .. N - 1 :
                   i < j /\ p[i].from = w /\ Apart(p, i, j, w) => p[j].n = Bump(p[i].n)
  <2>1. j + 1 \in DOMAIN q /\ 1 < j + 1 /\ q[j + 1] = p[j] BY <1>1
  <2>2. Apart(p, 0, j, w) => Apart(q, 1, j + 1, w)
    <3>1. 0 \in 0 .. N - 1 /\ j \in 0 .. N /\ 0 + 1 = 1 BY <1>1
    <3> QED BY <1>2, <3>1
  <2>3. Apart(p, j, N, w) => Apart(q, j + 1, N + 1, w) BY <1>1, <1>2
  <2>4. ASSUME NEW i \in 1 .. N - 1, i < j, p[i].from = w, Apart(p, i, j, w)
        PROVE  p[j].n = Bump(p[i].n)
    <3>1. Apart(q, i + 1, j + 1, w) BY <1>1, <1>2, <2>4
    <3>2. i + 1 \in DOMAIN q /\ 1 < i + 1 /\ i + 1 < j + 1 /\ q[i + 1] = p[i] BY <1>1, <2>4
    <3> QED BY <1>3, <2>1, <2>4, <3>1, <3>2 DEF Numbered
  <2> QED BY <1>3, <2>1, <2>2, <2>3, <2>4 DEF Numbered, N
<1>4. Apart(p, 0, N, w) => z = e
  <2>1. Apart(p, 0, N, w) => Apart(q, 1, N + 1, w)
    <3>1. 0 \in 0 .. N - 1 /\ N \in 0 .. N /\ 0 + 1 = 1 BY <1>1
    <3> QED BY <1>2, <3>1
  <2> QED BY <2>1 DEF Numbered, N
<1>5. Len(p) + 1 = N /\ \A j \in DOMAIN p : j \in 1 .. N - 1 BY <1>1
<1>6. Numbered(p, 0, w, e, z) BY <1>3, <1>4, <1>5 DEF Numbered
<1> QED BY <1>6 DEF p

(* Every step keeps the numbers of the records in order.                   *)
LEMMA OrderStep ==
    ASSUME IInv, [Next]_vars
    PROVE  OrderInv'
<1> USE DEF m4vars, isrvars, m0vars, IInv
<1>0. /\ fifo \in Seq(Record) /\ seq \in [Writers -> 0 .. Numbers - 1]
      /\ expected \in [Writers -> 0 .. Numbers - 1]
      /\ Counted \in 0 .. Len(fifo)
  BY DEF RecordsOK, ControlOK, HandlerInv, Counted
<1>1. ASSUME UNCHANGED <<fifo, seq, expected>>, m4' = "running" => m4 = "running" /\ Counted' = Counted
      PROVE  OrderInv'
  BY <1>1 DEF OrderInv
<1>2. CASE (\E w \in Writers : Lock(w) \/ Full(w) \/ Copy(w) \/ signal(w) \/ Join(w))
           \/ IsrCheck \/ IsrClear \/ UNCHANGED vars
  BY <1>2, <1>1 DEF Lock, Full, Copy, signal, Join, IsrCheck, IsrClear, vars, Counted
<1>3. CASE Halt \/ shutdown \/ reset BY <1>3 DEF Halt, shutdown, reset, OrderInv
<1>4. CASE Wait BY <1>4, <1>1 DEF Wait, Counted
<1>5. CASE enable
  <2>1. m0 = "start" /\ m0' = (IF cur = None THEN "wait" ELSE "handle") /\ switched' = switched
    BY <1>5 DEF enable, Back
  <2>2. Counted = 0 /\ Counted' = 0 BY <2>1 DEF Counted, HandlerInv
  <2> QED BY <1>1, <1>5, <2>2 DEF enable
<1>6. CASE run_image
  <2>1. fifo' = << >> /\ m0' = "start" BY <1>6 DEF run_image, OldImageGone
  <2>2. Counted' = 0 BY <2>1 DEF Counted
  <2>3. \A w \in Writers : expected'[w] = 0 /\ seq'[w] = 0 BY <1>6 DEF run_image
  <2>4. Numbered(<< >>, 0, "w", 0, 0) /\ \A w \in Writers : Numbered(<< >>, 0, w, 0, 0) BY DEF Numbered
  <2> QED BY <2>1, <2>2, <2>3, <2>4 DEF OrderInv
<1> SUFFICES ASSUME m4' = "running" PROVE OrderInv' BY DEF OrderInv
<1>7. ASSUME NEW w \in Writers, Publish(w) PROVE OrderInv'
  <2>1. /\ fifo' = Append(fifo, slot) /\ slot = [from |-> w, n |-> seq[w]] /\ slot \in Record
        /\ seq' = [seq EXCEPT ![w] = Bump(@)] /\ m4 = "running"
        /\ UNCHANGED <<expected, m0, switched>>
    BY <1>7 DEF Publish, PushInv, RecordsOK
  <2>2. Counted' = Counted BY <2>1 DEF Counted
  <2>3. \A i \in DOMAIN fifo' : fifo'[i].from \in Writers BY <1>0, <2>1 DEF OrderInv
  <2>4. ASSUME NEW v \in Writers PROVE Numbered(fifo', Counted, v, expected[v], seq'[v])
    <3>1. Numbered(fifo, Counted, v, expected[v], seq[v]) BY <2>1 DEF OrderInv
    <3>2. CASE v = w
      <4>1. seq'[v] = Bump(seq[v]) /\ slot.from = v /\ slot.n = seq[v] BY <1>0, <2>1, <3>2
      <4> QED BY <1>0, <2>1, <3>1, <4>1, NumberedOwn
    <3>3. CASE v # w
      <4>1. seq'[v] = seq[v] /\ slot.from # v BY <1>0, <2>1, <3>3
      <4> QED BY <1>0, <2>1, <3>1, <4>1, NumberedOther
    <3> QED BY <3>2, <3>3
  <2> QED BY <2>1, <2>2, <2>3, <2>4 DEF OrderInv
<1>8. CASE Peek
  <2>1. m4 = "running" /\ m0 = "drain" /\ ~switched /\ switched' = switched
        /\ UNCHANGED <<fifo, seq>>
    BY <1>8 DEF Peek, HandlerInv
  <2>2. CASE fifo = << >>
    <3>1. m0' = "wait" /\ expected' = expected BY <1>8, <2>2 DEF Peek
    <3> QED BY <1>1, <2>1, <3>1 DEF Counted
  <2>3. CASE fifo # << >>
    <3>1. m0' = "handle" /\ HandleRecord(Head(fifo)) BY <1>8, <2>3 DEF Peek, HandleRecord
    <3>2. Counted = 0 /\ Counted' = 1 BY <2>1, <3>1 DEF Counted
    <3>3. 1 \in DOMAIN fifo /\ Head(fifo) = fifo[1] BY <1>0, <2>3
    <3>4. fifo[1].from \in Writers BY <2>1, <3>3 DEF OrderInv
    <3>5. fifo[1].from # Exit BY <3>4, QueueAssumption
    <3>6. expected' = [expected EXCEPT ![fifo[1].from] = Bump(fifo[1].n)]
      BY <3>1, <3>3, <3>5 DEF HandleRecord
    <3>7. ASSUME NEW v \in Writers PROVE Numbered(fifo, 1, v, expected'[v], seq[v])
      <4>1. Numbered(fifo, 0, v, expected[v], seq[v]) BY <2>1, <3>2 DEF OrderInv
      <4>2. expected'[v] = IF fifo[1].from = v THEN Bump(fifo[1].n) ELSE expected[v] BY <1>0, <3>6
      <4> QED BY <1>0, <2>3, <4>1, <4>2, NumberedFirst
    <3> QED BY <2>1, <3>2, <3>7 DEF OrderInv
  <2> QED BY <2>2, <2>3
<1>9. CASE Skip
  <2>1. /\ m4 = "running" /\ m0 = "handle" /\ m0' = "drain" /\ seq' = seq
        /\ fifo' = (IF fifo = << >> THEN << >> ELSE Tail(fifo))
    BY <1>9 DEF Skip
  <2>2. Counted' = 0 BY <2>1 DEF Counted
  <2>3. CASE fifo = << >>
    <3>1. switched /\ expected' = expected BY <1>9, <2>1, <2>3 DEF Skip, HandlerInv
    <3>2. Counted = 0 BY <3>1 DEF Counted
    <3> QED BY <1>1, <2>1, <2>2, <2>3, <3>1, <3>2
  <2>4. CASE fifo # << >>
    <3>1. fifo' = Tail(fifo) BY <2>1, <2>4
    <3>2. 1 \in DOMAIN fifo /\ Head(fifo) = fifo[1] BY <1>0, <2>4
    <3>3. \A i \in DOMAIN fifo' : fifo'[i].from \in Writers
      <4>1. \A i \in DOMAIN Tail(fifo) : i + 1 \in DOMAIN fifo /\ Tail(fifo)[i] = fifo[i + 1]
        BY <1>0, <2>4
      <4> QED BY <2>1, <3>1, <4>1 DEF OrderInv
    <3>4. ASSUME NEW v \in Writers PROVE Numbered(fifo, 1, v, expected'[v], seq[v])
      <4>1. Numbered(fifo, Counted, v, expected[v], seq[v]) BY <2>1 DEF OrderInv
      <4>2. CASE ~switched
        <5>1. Counted = 1 /\ expected' = expected BY <1>9, <2>1, <4>2 DEF Skip, Counted
        <5> QED BY <4>1, <5>1
      <4>3. CASE switched
        <5>1. Counted = 0 BY <4>3 DEF Counted
        <5>2. expected' = [expected EXCEPT ![fifo[1].from] = Bump(@)]
          BY <1>9, <2>4, <3>2, <4>3 DEF Skip
        <5>3. expected'[v] = IF fifo[1].from = v THEN Bump(expected[v]) ELSE expected[v]
          BY <1>0, <5>2
        <5> QED BY <1>0, <2>4, <4>1, <5>1, <5>3, NumberedFirst
      <4> QED BY <4>2, <4>3
    <3>5. \A v \in Writers : Numbered(fifo', 0, v, expected'[v], seq[v])
      BY <1>0, <2>4, <3>1, <3>4, NumberedRest
    <3> QED BY <2>1, <2>2, <3>3, <3>5 DEF OrderInv
  <2> QED BY <2>3, <2>4
<1> QED BY <1>2, <1>3, <1>4, <1>5, <1>6, <1>7, <1>8, <1>9 DEF Next, Push

-----------------------------------------------------------------------------
(* Every step keeps the handler's look at the queue true: nothing but the  *)
(* M4 moves between its two statements.                                    *)
LEMMA BellStep ==
    ASSUME IInv, [Next]_vars
    PROVE  BellInv'
<1> USE DEF m4vars, isrvars, m0vars
<1>0. RecordsOK /\ ControlOK /\ HaltInv /\ OldImageGone /\ BellInv BY DEF IInv
<1>1. ASSUME NEW w \in Writers, Lock(w) \/ Full(w) \/ Copy(w) \/ Join(w) PROVE BellInv'
  <2>1. UNCHANGED <<fifo, m4, line, enabled, isrvars, m0vars>>
    BY <1>1 DEF Lock, Full, Copy, Join
  <2>2. \A v \in Writers : wpc[v] = "signal" => wpc'[v] = "signal"
    BY <1>0, <1>1 DEF Lock, Full, Copy, Join, RecordsOK
  <2> QED BY <1>0, <2>1, <2>2 DEF BellInv
<1>2. ASSUME NEW w \in Writers, Publish(w) PROVE BellInv'
  <2>1. /\ fifo' = Append(fifo, slot) /\ slot \in Record /\ wpc' = [wpc EXCEPT ![w] = "signal"]
        /\ UNCHANGED <<m4, line, enabled, isr, m0vars>>
    BY <1>0, <1>2 DEF Publish, RecordsOK
  <2>2. wpc'[w] = "signal" BY <1>0, <2>1 DEF RecordsOK
  <2>3. Len(fifo') = Len(fifo) + 1 BY <1>0, <2>1, Appended DEF RecordsOK
  <2>4. window' = IF isr = "checked" THEN window + 1 ELSE window BY <1>2 DEF Publish
  <2> QED BY <1>0, <2>1, <2>2, <2>3, <2>4 DEF BellInv, ControlOK
<1>3. ASSUME NEW w \in Writers, signal(w) PROVE BellInv' BY <1>0, <1>3 DEF signal, BellInv
<1>4. CASE Halt
  <2>1. m4 = "stopping" /\ m0 = "shutdown" /\ ~enabled BY <1>0, <1>4 DEF Halt, HaltInv, BellInv
  <2>2. isr = "none" BY <1>0, <2>1 DEF BellInv, ControlOK
  <2> QED BY <1>0, <1>4, <2>1, <2>2 DEF Halt, BellInv
<1>5. CASE IsrCheck
  <2>1. /\ enabled /\ isr = "none" /\ isr' = "checked" /\ evt' = (evt \/ fifo # << >>)
        /\ UNCHANGED <<fifo, wpc, m4, line, enabled, window, m0>>
    BY <1>5 DEF IsrCheck
  <2>2. fifo = << >> => Len(fifo') = 0 BY <2>1
  <2> QED BY <1>0, <2>1, <2>2 DEF BellInv, ControlOK
<1>6. CASE IsrClear
  <2>1. isr = "checked" /\ enabled BY <1>0, <1>6 DEF IsrClear, BellInv
  <2> QED BY <1>0, <1>6, <2>1 DEF IsrClear, BellInv
<1>7. CASE Wait BY <1>0, <1>7 DEF Wait, BellInv
<1>8. CASE Peek
  <2>1. m0' \in {"wait", "handle"} /\ isr = "none" BY <1>8 DEF Peek, HandleRecord
  <2>2. UNCHANGED <<m4vars, m4, enabled, isrvars>> /\ m0 = "drain" BY <1>8 DEF Peek
  <2> QED BY <1>0, <2>1, <2>2 DEF BellInv
<1>9. CASE Skip BY <1>0, <1>9 DEF Skip, BellInv
<1>10. CASE shutdown BY <1>0, <1>10 DEF shutdown, BellInv
<1>11. CASE reset
  <2>1. m0' \in {"wait", "handle"} BY <1>11 DEF reset, Back
  <2> QED BY <1>0, <1>11, <2>1 DEF reset, BellInv
<1>12. CASE run_image
  <2>1. m4 = "halted" /\ m0 \in {"wait", "handle"} /\ m0' = "start" /\ m4' = "running"
        /\ isr = "none" /\ UNCHANGED <<fifo, enabled, isrvars>>
    BY <1>12 DEF run_image
  <2>2. fifo' = << >> /\ ~enabled BY <1>0, <2>1 DEF OldImageGone, BellInv
  <2> QED BY <1>0, <2>1, <2>2 DEF BellInv
<1>13. CASE enable
  <2>1. m0 = "start" /\ m0' \in {"wait", "handle"} /\ m4 = "running" /\ isr = "none"
        /\ UNCHANGED <<m4, isrvars>>
    BY <1>0, <1>13 DEF enable, Back, BellInv
  <2> QED BY <1>0, <2>1 DEF BellInv
<1>14. CASE UNCHANGED vars BY <1>0, <1>14 DEF vars, BellInv
<1> QED BY <1>1, <1>2, <1>3, <1>4, <1>5, <1>6, <1>7, <1>8, <1>9, <1>10, <1>11, <1>12, <1>13,
           <1>14 DEF Next, Push

-----------------------------------------------------------------------------
(* Nothing is in the queue when the M0 starts.                             *)
LEMMA InitInv == Init => IInv
<1> SUFFICES ASSUME Init PROVE IInv OBVIOUS
<1>1. fifo \in Seq(Record) BY DEF Init
<1>2. /\ wpc \in [Writers -> {"idle", "locked", "copied", "signal", "ended"}]
      /\ \A w \in Writers : wpc[w] = "ended"
  BY DEF Init
<1>3. seq \in [Writers -> 0 .. Numbers - 1] BY QueueAssumption DEF Init
<1>4. RecordsOK BY <1>1, <1>2, <1>3 DEF Init, RecordsOK
<1>5. IsFiniteSet(Taken) /\ Cardinality(Taken) = 0 BY TakenByNone DEF Init
<1>6. RingInv BY <1>5, QueueAssumption DEF RingInv, unused
<1>7. PushInv
  <2>1. mutex \notin Writers BY QueueAssumption DEF Init
  <2> QED BY <1>2, <2>1 DEF PushInv
<1>8. ControlOK
  <2>1. expected \in [Writers -> 0 .. Numbers - 1] BY QueueAssumption DEF Init
  <2>2. 0 \in 0 .. WindowPushes BY QueueAssumption
  <2> QED BY <2>1, <2>2 DEF Init, ControlOK
<1>9. OrderInv BY DEF Init, OrderInv
<1>10. HaltInv /\ OldImageGone /\ HandlerInv BY <1>2 DEF Init, HaltInv, OldImageGone, HandlerInv
<1>11. BellInv BY DEF Init, BellInv
<1> QED BY <1>4, <1>6, <1>7, <1>8, <1>9, <1>10, <1>11 DEF IInv

(* The inductive invariant.                                                *)
LEMMA Invariance == Spec => []IInv
<1>1. IInv /\ [Next]_vars => IInv'
  <2> SUFFICES ASSUME IInv, [Next]_vars PROVE IInv' OBVIOUS
  <2>1. RecordsOK /\ HaltInv /\ OldImageGone /\ HandlerInv /\ PushInv /\ RingInv /\ ControlOK
    BY DEF IInv
  <2>2. RecordsOK' BY <2>1, RecordsStep
  <2>3. HaltInv' BY <2>1, HaltStep
  <2>4. OldImageGone' BY <2>1, GoneStep
  <2>5. HandlerInv' BY <2>1, HandlerStep
  <2>6. RingInv' BY <2>1, RingStep
  <2>7. PushInv' BY <2>1, PushStep
  <2>8. ControlOK' BY <2>1, ControlStep
  <2>9. OrderInv' BY OrderStep
  <2>10. BellInv' BY BellStep
  <2> QED BY <2>2, <2>3, <2>4, <2>5, <2>6, <2>7, <2>8, <2>9, <2>10 DEF IInv
<1> QED BY <1>1, InitInv, PTL DEF Spec

(* Every variable keeps its type, and the records never take more bytes    *)
(* than the ring has: the mutex keeps the room a writer has found for it.  *)
THEOREM TypeCorrect == Spec => []TypeOK
<1>1. IInv => TypeOK
  <2> SUFFICES ASSUME IInv PROVE TypeOK OBVIOUS
  <2>1. unused \in 0 .. QueueBytes
    <3>1. Cardinality(Taken) \in Nat /\ unused \in Nat BY FS_CardinalityType DEF IInv, RingInv
    <3> QED BY <3>1, QueueAssumption DEF unused
  <2>2. RecordsOK /\ ControlOK BY DEF IInv
  <2> QED BY <2>1, <2>2 DEF RecordsOK, ControlOK, TypeOK
<1> QED BY <1>1, Invariance, PTL

(* Each writer's messages are handled in the order it pushed them, none    *)
(* twice, none left out but those a switch of images drops, and none of an *)
(* image before, for any number of writers and any numbering.              *)
THEOREM HandlesInOrder == Spec => HandledInOrder
<1> DEFINE A == m0 = "drain" /\ m0' = "handle" =>
                  /\ cur'.from \in Writers
                  /\ cur'.n = expected[cur'.from]
<1>1. IInv /\ [Next]_vars => A
  <2> SUFFICES ASSUME IInv, [Next]_vars, m0 = "drain", m0' = "handle"
               PROVE  cur'.from \in Writers /\ cur'.n = expected[cur'.from]
    OBVIOUS
  <2>1. Peek
    BY DEF Next, Push, Lock, Full, Copy, Publish, signal, Join, Halt, IsrCheck, IsrClear, Wait, Skip,
       shutdown, reset, run_image, enable, Back, vars, m4vars, isrvars, m0vars
  <2>2. fifo # << >> /\ cur' = Head(fifo) BY <2>1 DEF Peek, HandleRecord
  <2>3. m4 = "running" BY <2>2 DEF IInv, RecordsOK, HaltInv, OldImageGone
  <2>4. Counted = 0 /\ fifo \in Seq(Record) BY DEF IInv, RecordsOK, Counted
  <2>5. 1 \in DOMAIN fifo /\ cur' = fifo[1] BY <2>2, <2>4
  <2>6. fifo[1].from \in Writers BY <2>3, <2>5 DEF IInv, OrderInv
  <2>7. Numbered(fifo, 0, fifo[1].from, expected[fifo[1].from], seq[fifo[1].from])
    BY <2>3, <2>4, <2>6 DEF IInv, OrderInv
  <2> QED BY <2>2, <2>4, <2>5, <2>6, <2>7, NumberedFirst
<1> QED BY <1>1, Invariance, PTL DEF Spec, HandledInOrder

(* Nothing an image has pushed is left in the queue when the next one      *)
(* starts, its ShutdownMessage included.                                   *)
THEOREM OldImageLeavesNothing == Spec => []OldImageGone
<1>1. IInv => OldImageGone BY DEF IInv
<1> QED BY <1>1, Invariance, PTL

(* A record is dropped unread only by a handler that has itself replaced   *)
(* the image, whatever is pushed while handlers run.                       *)
THEOREM LostBySwitchOnly == Spec => LossOnlyBySwitch
<1> DEFINE A == fifo # << >> /\ Len(fifo') < Len(fifo) =>
                  \/ m0 = "shutdown"
                  \/ fifo' = Tail(fifo) /\ m0 = "handle" /\ (cur = Head(fifo) \/ switched)
<1>1. IInv /\ [Next]_vars => A
  <2> SUFFICES ASSUME IInv, [Next]_vars, fifo # << >>, Len(fifo') < Len(fifo)
               PROVE  \/ m0 = "shutdown"
                      \/ fifo' = Tail(fifo) /\ m0 = "handle" /\ (cur = Head(fifo) \/ switched)
    OBVIOUS
  <2>1. fifo \in Seq(Record) /\ HandlerInv BY DEF IInv, RecordsOK
  <2>2. ~(Len(fifo) < Len(fifo)) BY <2>1
  <2>3. fifo' # fifo BY <2>2
  <2>4. ASSUME NEW e \in Record PROVE fifo' # Append(fifo, e) BY <2>1, Appended
  <2>5. CASE \E w \in Writers : Publish(w)
    <3>1. PICK w \in Writers : Publish(w) BY <2>5
    <3>2. fifo' = Append(fifo, slot) /\ slot \in Record BY <3>1 DEF Publish, IInv, RecordsOK
    <3> QED BY <2>4, <3>2
  <2>6. CASE Halt BY <2>3, <2>4, <2>6, Records DEF Halt
  <2>7. CASE Skip BY <2>1, <2>7 DEF Skip, HandlerInv
  <2>8. CASE reset BY <2>8 DEF reset
  <2> QED BY <2>3, <2>5, <2>6, <2>7, <2>8 DEF Next, Push, Lock, Full, Copy, signal, Join, IsrCheck,
       IsrClear, Wait, Peek, shutdown, run_image, enable, vars
<1> QED BY <1>1, Invariance, PTL DEF Spec, LossOnlyBySwitch

(* The event loop is left asleep on records only by its interrupt handler, *)
(* and just on those published while the handler ran: for any number of    *)
(* writers, any sizes, and however many records the M4 fits in there.      *)
THEOREM StrandsByWipeOnly == Spec => StrandedByWipe
<1> DEFINE A == ~Stranded /\ Stranded' => isr = "checked" /\ Len(fifo) = window
<1>1. IInv /\ [Next]_vars => A
  <2> USE DEF m4vars, isrvars, m0vars
  <2> SUFFICES ASSUME IInv, [Next]_vars, ~Stranded, Stranded'
               PROVE  isr = "checked" /\ Len(fifo) = window
    OBVIOUS
  <2>1. RecordsOK /\ ControlOK /\ HaltInv /\ BellInv BY DEF IInv
  <2>2. /\ fifo' # << >> /\ m0' = "wait" /\ ~evt' /\ ~line' /\ isr' = "none"
        /\ \A w \in Writers : wpc'[w] # "signal"
    BY DEF Stranded
  <2>3. ASSUME NEW w \in Writers, Lock(w) \/ Full(w) \/ Copy(w) \/ Join(w) PROVE FALSE
    <3>1. UNCHANGED <<fifo, line, isr, evt, m0>> BY <2>3 DEF Lock, Full, Copy, Join
    <3>2. \A v \in Writers : wpc[v] = "signal" => wpc'[v] = "signal"
      BY <2>1, <2>3 DEF Lock, Full, Copy, Join, RecordsOK
    <3> QED BY <2>2, <3>1, <3>2 DEF Stranded
  <2>4. ASSUME NEW w \in Writers, Publish(w) \/ signal(w) PROVE FALSE
    <3>1. wpc'[w] = "signal" \/ line' BY <2>1, <2>4 DEF Publish, signal, RecordsOK
    <3> QED BY <2>2, <3>1
  <2>5. CASE Halt BY <2>1, <2>2, <2>5 DEF Halt, HaltInv
  <2>6. CASE IsrCheck BY <2>2, <2>6 DEF IsrCheck
  <2>7. CASE IsrClear BY <2>1, <2>2, <2>7 DEF IsrClear, BellInv
  <2>8. CASE Wait \/ Skip \/ shutdown \/ run_image
    BY <2>2, <2>8 DEF Wait, Skip, shutdown, run_image
  <2>9. CASE Peek BY <2>2, <2>9 DEF Peek, HandleRecord
  <2>10. CASE reset BY <2>2, <2>10 DEF reset
  <2>11. CASE enable
    <3>1. m0 = "start" /\ fifo # << >> /\ UNCHANGED <<wpc, line>> BY <2>2, <2>11 DEF enable
    <3> QED BY <2>1, <2>2, <3>1 DEF BellInv
  <2>12. CASE UNCHANGED vars BY <2>2, <2>12 DEF vars, Stranded
  <2> QED BY <2>3, <2>4, <2>5, <2>6, <2>7, <2>8, <2>9, <2>10, <2>11, <2>12 DEF Next, Push
<1> QED BY <1>1, Invariance, PTL DEF Spec, StrandedByWipe
=============================================================================

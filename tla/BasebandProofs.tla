--------------------------- MODULE BasebandProofs ---------------------------
(***************************************************************************)
(* What the baseband core does at its two ends: the thread and the DMA     *)
(* stay apart, for any number of transfers; and the packet builder takes   *)
(* out of the bits what was sent, for any patterns and any frames.         *)
(***************************************************************************)
EXTENDS BasebandDma, PacketBuilder, FiniteSetTheorems, SequenceTheorems, TLAPS

-----------------------------------------------------------------------------
(* Positions in the circular list, and how far the DMA is ahead of them.   *)
LEMMA Circle ==
    ASSUME cur \in 0 .. N - 1, NEW i \in 0 .. N - 1
    PROVE  /\ Succ(i) \in 0 .. N - 1 /\ Pred(i) \in 0 .. N - 1
           /\ Pred(Succ(i)) = i
           /\ Ahead(i) \in 0 .. N - 1
           /\ Ahead(i) = 0 => i = cur
           /\ Ahead(Pred(cur)) = 1
  BY DmaAssumption DEF Succ, Pred, Ahead

(* A completion puts the DMA one further ahead, until it comes round.      *)
LEMMA AheadStep ==
    ASSUME cur \in 0 .. N - 1, cur' = Succ(cur), NEW i \in 0 .. N - 1, Ahead(i) < N - 1
    PROVE  Ahead(i)' = Ahead(i) + 1
  BY DmaAssumption DEF Succ, Ahead

(* The thread and the DMA start in the inductive invariant.                *)
LEMMA InitInv == Init => IInv
<1> SUFFICES ASSUME Init PROVE IInv OBVIOUS
<1>0. 0 \in 0 .. N /\ 0 \in 0 .. N - 1 /\ N \in 0 .. N BY DmaAssumption
<1>1. TypeOK BY <1>0 DEF Init, TypeOK
<1>2. LateInv /\ LifeInv BY DEF Init, LateInv, LifeInv
<1> QED BY <1>1, <1>2 DEF IInv

(* Every step keeps the types.                                             *)
LEMMA TypeStep == ASSUME TypeOK, [Next]_vars PROVE TypeOK'
<1> USE DmaAssumption DEF TypeOK, dmavars, threadvars
<1>0. /\ Succ(cur) \in 0 .. N - 1
      /\ result < N => Pred(Pred(result)) \in 0 .. N - 1
  <2>1. result < N => result \in 0 .. N - 1 OBVIOUS
  <2> QED BY <2>1, Circle
<1>1. CASE Complete BY <1>0, <1>1 DEF Complete
<1>2. CASE Fail BY <1>2 DEF Fail
<1>3. CASE IsrWake BY <1>0, <1>3 DEF IsrWake, wake
<1>4. CASE IsrClear BY <1>4 DEF IsrClear
<1>5. CASE Enable BY <1>5 DEF Enable, ThreadAt
<1>6. CASE Loop BY <1>6 DEF Loop, ThreadAt
<1>7. CASE Get BY <1>0, <1>7 DEF Get, ThreadAt
<1>8. CASE Execute BY <1>8 DEF Execute, ThreadAt
<1>9. CASE Leave BY <1>9 DEF Leave, ThreadAt
<1>10. CASE Create
  <2>1. /\ proc' = "constructing" /\ thread' = "init" /\ late' = 0
        /\ terminate' = FALSE /\ failed' = FALSE
        /\ UNCHANGED <<dma, cur, irq, isr, result, buffer>>
    BY <1>10 DEF Create, MainAt
  <2>2. late' \in 0 .. N BY <2>1
  <2>3. terminate' \in BOOLEAN /\ failed' \in BOOLEAN BY <2>1
  <2> QED BY <2>1, <2>2, <2>3
<1>11. CASE Members BY <1>11 DEF Members, MainAt
<1>12. CASE Terminate BY <1>12 DEF Terminate, MainAt
<1>13. CASE Join BY <1>13 DEF Join, MainAt
<1>14. CASE UNCHANGED vars BY <1>14 DEF vars
<1> QED BY <1>1, <1>2, <1>3, <1>4, <1>5, <1>6, <1>7, <1>8, <1>9, <1>10, <1>11, <1>12,
           <1>13, <1>14 DEF Next, Isr, Thread, Main

(* Every step keeps the DMA ahead by what has been completed since the     *)
(* thread was told: a completion adds one on both sides, and being told    *)
(* starts with the transfer before the one in progress.                    *)
LEMMA LateStep == ASSUME TypeOK, LateInv, [Next]_vars PROVE LateInv'
<1> USE DmaAssumption DEF TypeOK, LateInv, dmavars, threadvars
<1>0. ASSUME UNCHANGED <<cur, late, result, buffer>>,
             thread' \in {"woken", "execute"} => thread' = thread
      PROVE  LateInv'
  BY <1>0 DEF Ahead
<1>1. CASE Complete
  <2>1. /\ cur' = Succ(cur) /\ UNCHANGED <<thread, result, buffer>>
        /\ late' = IF late < N THEN late + 1 ELSE late
    BY <1>1 DEF Complete
  <2>2. ASSUME NEW i \in 0 .. N - 1, late' <= N - 2, Ahead(i) = late + 1
        PROVE  Ahead(i)' = late' + 1
    <3>1. late \in 0 .. N /\ late' = late + 1 BY <2>1, <2>2
    <3>2. Ahead(i) < N - 1 BY <2>2, <3>1
    <3> QED BY <2>1, <2>2, <3>1, <3>2, AheadStep
  <2>3. late' <= N - 2 => late <= N - 2 BY <2>1
  <2>4. result < N => Pred(Pred(result)) \in 0 .. N - 1
    <3>1. result < N => result \in 0 .. N - 1 OBVIOUS
    <3> QED BY <3>1, Circle
  <2>5. ASSUME thread' = "woken", result' < N, late' <= N - 2
        PROVE  Ahead(Pred(Pred(result)))' = late' + 1
    <3>1. Ahead(Pred(Pred(result))) = late + 1 BY <2>1, <2>3, <2>5
    <3>2. \A i \in 0 .. N - 1 : Ahead(i) = late + 1 => Ahead(i)' = late' + 1 BY <2>2, <2>5
    <3>3. Pred(Pred(result')) = Pred(Pred(result)) BY <2>1
    <3> QED BY <2>1, <2>4, <2>5, <3>1, <3>2, <3>3 DEF Ahead
  <2>6. ASSUME thread' = "execute", late' <= N - 2
        PROVE  Ahead(buffer)' = late' + 1
    <3>1. Ahead(buffer) = late + 1 BY <2>1, <2>3, <2>6
    <3>2. \A i \in 0 .. N - 1 : Ahead(i) = late + 1 => Ahead(i)' = late' + 1 BY <2>2, <2>6
    <3> QED BY <2>1, <3>1, <3>2 DEF Ahead
  <2> QED BY <2>5, <2>6
<1>2. CASE Fail BY <1>0, <1>2 DEF Fail
<1>3. CASE IsrWake
  <2>1. CASE thread = "wait"
    <3>1. late' = 0 /\ thread' = "woken" /\ UNCHANGED cur
      BY <1>3, <2>1 DEF IsrWake, wake
    <3>2. result' < N => result' = Succ(cur)
      BY <1>3, <2>1 DEF IsrWake, wake
    <3>3. Pred(Pred(Succ(cur))) = Pred(cur) /\ Ahead(Pred(cur)) = 1
      BY Circle
    <3>4. Ahead(Pred(cur))' = 1 BY <3>1, <3>3 DEF Ahead, Pred
    <3>5. result' < N => Ahead(Pred(Pred(result)))' = 1
      BY <3>1, <3>2, <3>3 DEF Ahead
    <3> QED BY <3>1, <3>5
  <2>2. CASE thread # "wait" BY <1>0, <1>3, <2>2 DEF IsrWake, wake
  <2> QED BY <2>1, <2>2
<1>4. CASE IsrClear BY <1>0, <1>4 DEF IsrClear
<1>5. CASE Enable BY <1>5 DEF Enable, ThreadAt
<1>6. CASE Loop BY <1>6 DEF Loop, ThreadAt
<1>7. CASE Get BY <1>7 DEF Get, ThreadAt, Ahead
<1>8. CASE Execute BY <1>8 DEF Execute, ThreadAt
<1>9. CASE Leave BY <1>9 DEF Leave, ThreadAt
<1>10. CASE Create BY <1>10 DEF Create, MainAt
<1>11. CASE Members BY <1>0, <1>11 DEF Members, MainAt
<1>12. CASE Terminate BY <1>0, <1>12 DEF Terminate, MainAt
<1>13. CASE Join BY <1>0, <1>13 DEF Join, MainAt
<1>14. CASE UNCHANGED vars BY <1>0, <1>14 DEF vars
<1> QED BY <1>1, <1>2, <1>3, <1>4, <1>5, <1>6, <1>7, <1>8, <1>9, <1>10, <1>11, <1>12,
           <1>13, <1>14 DEF Next, Isr, Thread, Main

(* Every step keeps thread and processor together: the thread ends only    *)
(* when it is told to, by a processor that then waits for it.              *)
LEMMA LifeStep == ASSUME TypeOK, LifeInv, [Next]_vars PROVE LifeInv'
<1> USE DEF TypeOK, LifeInv, dmavars, threadvars
<1>1. CASE Complete BY <1>1 DEF Complete
<1>2. CASE Fail BY <1>2 DEF Fail
<1>3. CASE IsrWake BY <1>3 DEF IsrWake, wake
<1>4. CASE IsrClear BY <1>4 DEF IsrClear
<1>5. CASE Enable BY <1>5 DEF Enable, ThreadAt
<1>6. CASE Loop BY <1>6 DEF Loop, ThreadAt
<1>7. CASE Get BY <1>7 DEF Get, ThreadAt
<1>8. CASE Execute BY <1>8 DEF Execute, ThreadAt
<1>9. CASE Leave BY <1>9 DEF Leave, ThreadAt
<1>10. CASE Create BY <1>10 DEF Create, MainAt
<1>11. CASE Members BY <1>11 DEF Members, MainAt
<1>12. CASE Terminate BY <1>12 DEF Terminate, MainAt
<1>13. CASE Join BY <1>13 DEF Join, MainAt
<1>14. CASE UNCHANGED vars BY <1>14 DEF vars
<1> QED BY <1>1, <1>2, <1>3, <1>4, <1>5, <1>6, <1>7, <1>8, <1>9, <1>10, <1>11, <1>12,
           <1>13, <1>14 DEF Next, Isr, Thread, Main

(* The inductive invariant of the thread and the DMA, for any number of    *)
(* transfers.                                                              *)
THEOREM Invariance == Spec => []IInv
<1>1. IInv /\ [Next]_vars => IInv' BY TypeStep, LateStep, LifeStep DEF IInv
<1> QED BY InitInv, <1>1, PTL DEF Spec

(* The thread never works on the transfer the DMA is in, unless it takes   *)
(* longer than the completion of N - 1 more.                               *)
THEOREM ThreadAndDmaApart == Spec => []NotWhileWritten
<1>1. IInv => NotWhileWritten
  <2> SUFFICES ASSUME IInv, thread = "execute", late <= N - 2 PROVE buffer # cur
    BY DEF NotWhileWritten
  <2>1. Ahead(buffer) = late + 1 /\ late \in Nat BY DmaAssumption DEF IInv, TypeOK, LateInv
  <2>2. Ahead(cur) = 0 BY DmaAssumption DEF IInv, TypeOK, Ahead
  <2> QED BY <2>1, <2>2
<1> QED BY <1>1, Invariance, PTL

(* The thread never executes a processor that has been freed.              *)
THEOREM ProcessorOutlivesThread == Spec => []OnLiveProcessor
<1>1. IInv => OnLiveProcessor BY DEF IInv, TypeOK, LifeInv, OnLiveProcessor
<1> QED BY <1>1, Invariance, PTL

-----------------------------------------------------------------------------
(* Lengths of the flag and of the preamble, and what a transmitter sends   *)
(* from the end of a frame to the data of the next.                        *)
F == Ones + 3
L == Training + F
stream == flag \o lead

(* The last k bits received are those of s up to its n-th.                 *)
Recent(q, s, n, k) == \A i \in 0 .. L - 1 : i < k => q[L - i] = s[n - i]

PacketOK ==
    /\ last \in {0, 1} /\ level \in {0, 1}
    /\ history \in Seq({0, 1}) /\ Len(history) = L
    /\ state \in {"Preamble", "Payload"}
    /\ packet \in Seq({0, 1}) /\ handed \in Seq({0, 1}) \cup {None}
    /\ state = "Preamble" => packet = << >>
    /\ tx \in {"idle", "lead", "data", "flag"}
    /\ tx = "lead" => at \in 0 .. L + 1 /\ data = << >> /\ run = 0
    /\ tx = "data" => at = 0
    /\ tx = "flag" => at \in 1 .. F - 1
    /\ data \in Seq({0, 1}) /\ Len(data) <= MaxData /\ run \in 0 .. Ones
    /\ clean \in BOOLEAN /\ heard \in BOOLEAN /\ follows \in BOOLEAN

(* The decoder knows the line's level from a frame's first symbol on.      *)
LineInv == clean /\ (tx = "lead" => at > 0 \/ follows) => last = level

(* Before the data the builder has the bits of the lead, except perhaps    *)
(* the first; if another frame has ended well, that one's flag before      *)
(* them, and it waits.                                                     *)
LeadInv ==
    tx = "lead" /\ clean =>
        IF follows THEN state = "Preamble" /\ Recent(history, stream, F + at, F + at)
                   ELSE Recent(history, stream, F + at, at - 1)

(* Then it has the data, and has seen as many ones as were sent.           *)
DataInv ==
    tx = "data" /\ clean =>
        /\ \A i \in 0 .. run - 1 : history[L - i] = 1
        /\ history[L - run] = 0
        /\ heard => state = "Payload" /\ packet = data

(* The flag is added to them.                                              *)
FlagInv ==
    tx = "flag" /\ clean =>
        /\ Recent(history, flag, at, at)
        /\ heard => /\ state = "Payload" /\ Len(packet) = Len(data) + at
                    /\ \A i \in 1 .. Len(data) : packet[i] = data[i]

(* At its end it waits, unless these were the last bits of a preamble.     *)
IdleInv ==
    tx = "idle" /\ clean =>
        /\ Recent(history, flag, F, F)
        /\ state = "Preamble" \/ Matches(history, preamble, Distance)
        /\ heard => Delivered

FollowInv == follows /\ clean /\ tx # "lead" => heard

FrameInv == LineInv /\ LeadInv /\ DataInv /\ FlagInv /\ IdleInv /\ FollowInv
PacketInv == PacketOK /\ FrameInv

-----------------------------------------------------------------------------
(* Two sequences of bits one after the other.                              *)
LEMMA Concat ==
    ASSUME NEW s \in Seq({0, 1}), NEW t \in Seq({0, 1})
    PROVE  /\ s \o t \in Seq({0, 1}) /\ Len(s \o t) = Len(s) + Len(t)
           /\ Len(s) \in Nat /\ Len(t) \in Nat
           /\ \A i \in 1 .. Len(s) : (s \o t)[i] = s[i]
           /\ \A i \in 1 .. Len(t) : (s \o t)[Len(s) + i] = t[i]
<1>1. Len(s) \in Nat /\ Len(t) \in Nat OBVIOUS
<1>2. \A i \in 1 .. Len(s) + Len(t) :
         (s \o t)[i] = IF i <= Len(s) THEN s[i] ELSE t[i - Len(s)]
  BY ConcatProperties
<1>3. ASSUME NEW i \in 1 .. Len(t) PROVE (s \o t)[Len(s) + i] = t[i]
  <2>1. /\ Len(s) + i \in 1 .. Len(s) + Len(t) /\ ~(Len(s) + i <= Len(s))
        /\ (Len(s) + i) - Len(s) = i
    BY <1>1
  <2> QED BY <1>2, <2>1
<1>4. \A i \in 1 .. Len(s) : i \in 1 .. Len(s) + Len(t) /\ i <= Len(s) BY <1>1
<1> QED BY <1>1, <1>2, <1>3, <1>4, ConcatProperties

LEMMA Widths == F \in Nat /\ F >= 6 /\ F = Ones + 3 /\ L \in Nat /\ L = Training + F
  BY PacketAssumption DEF F, L

(* The patterns, bit by bit.                                               *)
LEMMA FlagBits ==
    /\ flag \in Seq({0, 1}) /\ Len(flag) = F
    /\ \A i \in 1 .. F : flag[i] = IF i = 1 \/ i = F THEN 0 ELSE 1
<1> USE PacketAssumption
<1> DEFINE ones == Repeat(1, Ones + 1)
<1>1. ones \in Seq({0, 1}) /\ Len(ones) = Ones + 1 /\ \A i \in 1 .. Ones + 1 : ones[i] = 1
  BY DEF Repeat
<1> HIDE DEF ones
<1>2. flag = <<0>> \o ones \o <<0>> BY DEF flag, ones
<1> QED BY <1>1, <1>2 DEF F

LEMMA UnstuffingBits ==
    /\ unstuffing \in Seq({0, 1}) /\ Len(unstuffing) = Ones + 1
    /\ \A i \in 1 .. Ones + 1 : unstuffing[i] = IF i = Ones + 1 THEN 0 ELSE 1
<1> USE PacketAssumption
<1> DEFINE ones == Repeat(1, Ones)
<1>1. ones \in Seq({0, 1}) /\ Len(ones) = Ones /\ \A i \in 1 .. Ones : ones[i] = 1
  BY DEF Repeat
<1> HIDE DEF ones
<1>2. unstuffing = ones \o <<0>> BY DEF unstuffing, ones
<1> QED BY <1>1, <1>2

LEMMA PreambleBits ==
    /\ preamble \in Seq({0, 1}) /\ Len(preamble) = L
    /\ \A i \in 1 .. Training : preamble[i] = (i + 1) % 2
    /\ \A i \in 1 .. F : preamble[Training + i] = flag[i]
<1>1. Training \in Nat BY PacketAssumption
<1>2. training \in Seq({0, 1}) /\ Len(training) = Training
      /\ \A i \in 1 .. Training : training[i] = (i + 1) % 2
  <2>1. \A i \in 1 .. Training : (i + 1) % 2 \in {0, 1} BY <1>1
  <2> QED BY <1>1, <2>1 DEF training
<1>3. /\ preamble \in Seq({0, 1}) /\ Len(preamble) = Training + F
      /\ \A i \in 1 .. Training : preamble[i] = training[i]
      /\ \A i \in 1 .. F : preamble[Training + i] = flag[i]
  <2>1. /\ training \o flag \in Seq({0, 1})
        /\ Len(training \o flag) = Len(training) + Len(flag)
        /\ \A i \in 1 .. Len(training) : (training \o flag)[i] = training[i]
        /\ \A i \in 1 .. Len(flag) : (training \o flag)[Len(training) + i] = flag[i]
    BY ONLY <1>2, FlagBits, Concat
  <2> QED BY <1>2, <2>1, FlagBits DEF preamble
<1> QED BY <1>2, <1>3 DEF L

LEMMA LeadBits ==
    /\ lead \in Seq({0, 1}) /\ Len(lead) = L + 2 /\ lead[1] = 0 /\ lead[2] = 1
    /\ \A i \in 1 .. L : lead[2 + i] = preamble[i]
<1> DEFINE s == <<0, 1>>
<1>1. s \in Seq({0, 1}) /\ Len(s) = 2 /\ s[1] = 0 /\ s[2] = 1 OBVIOUS
<1> HIDE DEF s
<1>2. lead = s \o preamble BY DEF lead, s
<1>3. 1 \in 1 .. Len(s) /\ 2 \in 1 .. Len(s) BY <1>1
<1>4. /\ s \o preamble \in Seq({0, 1}) /\ Len(s \o preamble) = Len(s) + Len(preamble)
      /\ \A i \in 1 .. Len(s) : (s \o preamble)[i] = s[i]
      /\ \A i \in 1 .. Len(preamble) : (s \o preamble)[Len(s) + i] = preamble[i]
  BY ONLY <1>1, PreambleBits, Concat
<1>5. lead[1] = 0 /\ lead[2] = 1 BY <1>1, <1>2, <1>3, <1>4
<1>6. /\ lead \in Seq({0, 1}) /\ Len(lead) = 2 + L
      /\ \A i \in 1 .. L : lead[2 + i] = preamble[i]
  BY <1>1, <1>2, <1>4, PreambleBits
<1> QED BY <1>5, <1>6, Widths

(* What is sent from the flag of a frame to the one before the data of     *)
(* the next: in between, every other bit is 0.                             *)
LEMMA StreamBits ==
    /\ \A i \in 1 .. L + 2 : stream[F + i] = lead[i]
    /\ \A i \in 1 .. F : stream[i] = flag[i]
    /\ \A i \in 1 .. L : stream[F + 2 + i] = preamble[i]
    /\ \A o \in 1 .. Training + 3 : o % 2 = 1 => stream[F + o] = 0
<1>1. \A i \in 1 .. L + 2 : stream[F + i] = lead[i] BY LeadBits, FlagBits, Concat DEF stream
<1>2. \A i \in 1 .. F : stream[i] = flag[i] BY LeadBits, FlagBits, Concat DEF stream
<1>3. ASSUME NEW i \in 1 .. L PROVE stream[F + 2 + i] = preamble[i]
  <2>1. 2 + i \in 1 .. L + 2 /\ F + (2 + i) = F + 2 + i BY Widths
  <2>2. stream[F + (2 + i)] = lead[2 + i] BY <1>1, <2>1
  <2>3. lead[2 + i] = preamble[i] BY LeadBits
  <2> QED BY <2>1, <2>2, <2>3
<1>4. Training \in Nat /\ Training % 2 = 0 /\ Training > 0 BY PacketAssumption
<1>5. ASSUME NEW o \in 1 .. Training + 3, o % 2 = 1 PROVE stream[F + o] = 0
  <2>1. CASE o = 1
    <3>1. 1 \in 1 .. L + 2 BY Widths
    <3> QED BY <1>1, <2>1, <3>1, LeadBits
  <2>2. CASE o \in 3 .. Training + 2
    <3>1. o - 2 \in 1 .. Training BY <1>4, <2>2
    <3>2. ((o - 2) + 1) % 2 = 0 BY <1>4, <1>5
    <3>3. preamble[o - 2] = 0 BY <3>1, <3>2, PreambleBits
    <3>4. o - 2 \in 1 .. L /\ F + 2 + (o - 2) = F + o BY <1>4, <3>1, Widths
    <3>5. stream[F + 2 + (o - 2)] = preamble[o - 2] BY <1>3, <3>4
    <3> QED BY <3>3, <3>4, <3>5
  <2>3. CASE o = Training + 3
    <3>1. 1 \in 1 .. F BY Widths
    <3>2. preamble[Training + 1] = 0 BY <3>1, PreambleBits, FlagBits
    <3>3. Training + 1 \in 1 .. L /\ F + 2 + (Training + 1) = F + o BY <1>4, <2>3, Widths
    <3>4. stream[F + 2 + (Training + 1)] = preamble[Training + 1] BY <1>3, <3>3
    <3> QED BY <3>2, <3>3, <3>4
  <2>4. o # 2 /\ o \in Int BY <1>4, <1>5
  <2> QED BY <1>4, <2>1, <2>2, <2>3, <2>4
<1> QED BY <1>1, <1>2, <1>3, <1>5

(* An exact match; and two wrong bits are too many for any.                *)
LEMMA MatchAll ==
    ASSUME NEW q \in Seq({0, 1}), NEW p \in Seq({0, 1}), Len(p) <= Len(q), NEW d \in Nat
    PROVE  /\ Matches(q, p, 0) <=> \A i \in 1 .. Len(p) : q[Len(q) - Len(p) + i] = p[i]
           /\ Matches(q, p, 0) => Matches(q, p, d)
<1> DEFINE S == {i \in DOMAIN p : q[Len(q) - Len(p) + i] # p[i]}
<1>1. DOMAIN p = 1 .. Len(p) /\ Len(p) \in Nat OBVIOUS
<1>2. IsFiniteSet(S) /\ Cardinality(S) \in Nat /\ (Cardinality(S) = 0 <=> S = {})
  <2>1. IsFiniteSet(1 .. Len(p)) BY ONLY <1>1, FS_Interval
  <2>2. S \subseteq 1 .. Len(p)
    <3>1. S \subseteq DOMAIN p BY Zenon
    <3> QED BY ONLY <1>1, <3>1
  <2>3. IsFiniteSet(S) BY <2>1, <2>2, FS_Subset
  <2> QED BY <2>3, FS_CardinalityType, FS_EmptySet
<1>3. S = {} <=> \A i \in 1 .. Len(p) : q[Len(q) - Len(p) + i] = p[i] BY <1>1
<1>4. Matches(q, p, 0) <=> Cardinality(S) <= 0 BY DEF Matches
<1>5. Matches(q, p, d) <=> Cardinality(S) <= d BY DEF Matches
<1> HIDE DEF S
<1>6. Cardinality(S) <= 0 <=> Cardinality(S) = 0 BY <1>2
<1>7. Cardinality(S) = 0 => Cardinality(S) <= d OBVIOUS
<1> QED BY ONLY <1>2, <1>3, <1>4, <1>5, <1>6, <1>7

LEMMA TwoWrong ==
    ASSUME NEW q \in Seq({0, 1}), NEW p \in Seq({0, 1}), Len(p) <= Len(q),
           NEW i \in 1 .. Len(p), NEW j \in 1 .. Len(p), i # j,
           q[Len(q) - Len(p) + i] # p[i], q[Len(q) - Len(p) + j] # p[j]
    PROVE  ~Matches(q, p, Distance)
<1> DEFINE S == {k \in DOMAIN p : q[Len(q) - Len(p) + k] # p[k]}
<1>1. DOMAIN p = 1 .. Len(p) /\ Len(p) \in Nat OBVIOUS
<1>2. {i, j} \subseteq S
  <2>1. i \in DOMAIN p /\ j \in DOMAIN p BY <1>1
  <2>2. i \in S BY ONLY <2>1, q[Len(q) - Len(p) + i] # p[i]
  <2>3. j \in S BY ONLY <2>1, q[Len(q) - Len(p) + j] # p[j]
  <2> QED BY ONLY <2>2, <2>3
<1>3. IsFiniteSet(S)
  <2>1. IsFiniteSet(1 .. Len(p)) BY ONLY <1>1, FS_Interval
  <2>2. S \subseteq 1 .. Len(p)
    <3>1. S \subseteq DOMAIN p BY Zenon
    <3> QED BY ONLY <1>1, <3>1
  <2> QED BY <2>1, <2>2, FS_Subset
<1>4. Matches(q, p, Distance) <=> Cardinality(S) <= Distance BY DEF Matches
<1> HIDE DEF S
<1>5. Cardinality({i, j}) = 2
  <2>1. IsFiniteSet({i}) /\ Cardinality({i}) = 1 BY FS_Singleton
  <2>2. {i, j} = {i} \cup {j} /\ j \notin {i} OBVIOUS
  <2>3. Cardinality({i} \cup {j}) = Cardinality({i}) + 1 BY <2>1, <2>2, FS_AddElement
  <2>4. Cardinality({i, j}) = Cardinality({i}) + 1 BY ONLY <2>2, <2>3, Zenon
  <2>5. Cardinality({i}) = 1 BY <2>1
  <2> QED BY ONLY <2>4, <2>5
<1>6. Cardinality(S) \in Nat /\ Cardinality({i, j}) <= Cardinality(S)
  BY <1>2, <1>3, FS_Subset, FS_CardinalityType
<1> QED BY <1>4, <1>5, <1>6, PacketAssumption

(* A bit more: the others move on.                                         *)
LEMMA Shifted ==
    ASSUME NEW q \in Seq({0, 1}), Len(q) = L, NEW bit \in {0, 1}, NEW r, r = Append(Tail(q), bit)
    PROVE  /\ r \in Seq({0, 1}) /\ Len(r) = L /\ r[L] = bit
           /\ \A i \in 1 .. L - 1 : r[L - i] = q[L - (i - 1)]
<1>1. L \in Nat /\ L >= 6 BY Widths, PacketAssumption
<1>2. q # << >> BY <1>1
<1>3. Tail(q) \in Seq({0, 1}) /\ Len(Tail(q)) = L - 1 /\ \A i \in 1 .. L - 1 : Tail(q)[i] = q[i + 1]
  BY <1>1, <1>2
<1> DEFINE t == Tail(q)
<1> HIDE DEF t
<1>4. t \in Seq({0, 1}) /\ Len(t) = L - 1 /\ \A i \in 1 .. L - 1 : t[i] = q[i + 1] BY <1>3 DEF t
<1>5. r = Append(t, bit) BY DEF t
<1>6. /\ r \in Seq({0, 1}) /\ Len(r) = L /\ r[L] = bit
      /\ \A i \in 1 .. L - 1 : r[i] = t[i]
  BY <1>1, <1>4, <1>5
<1>7. ASSUME NEW i \in 1 .. L - 1 PROVE r[L - i] = q[L - (i - 1)]
  <2>1. L - i \in 1 .. L - 1 /\ L - i + 1 = L - (i - 1) BY <1>1
  <2> QED BY <1>4, <1>6, <2>1
<1> QED BY <1>6, <1>7

LEMMA RecentStep ==
    ASSUME PacketOK, NEW bit \in {0, 1}, history' = Append(Tail(history), bit),
           NEW s, NEW n \in Nat, NEW k \in Int, k <= n, Recent(history, s, n, k),
           k >= 0 => bit = s[n + 1]
    PROVE  Recent(history', s, n + 1, k + 1)
<1>1. L \in Nat BY Widths
<1>2. /\ history'[L] = bit
      /\ \A i \in 1 .. L - 1 : history'[L - i] = history[L - (i - 1)]
  <2>1. history \in Seq({0, 1}) /\ Len(history) = L BY DEF PacketOK
  <2> QED BY ONLY bit \in {0, 1}, history' = Append(Tail(history), bit), <2>1, Shifted
<1> SUFFICES ASSUME NEW i \in 0 .. L - 1, i < k + 1 PROVE history'[L - i] = s[(n + 1) - i]
  BY DEF Recent
<1>3. CASE i = 0
  <2>1. k >= 0 /\ L - i = L /\ (n + 1) - i = n + 1 BY <1>1, <1>3
  <2>2. history'[L - i] = history'[L] /\ s[(n + 1) - i] = s[n + 1] BY ONLY <2>1
  <2>3. bit = s[n + 1] BY <2>1
  <2> QED BY ONLY <1>2, <2>2, <2>3
<1>4. CASE i > 0
  <2>1. i \in 1 .. L - 1 /\ i - 1 \in 0 .. L - 1 /\ i - 1 < k /\ n - (i - 1) = (n + 1) - i
    BY <1>1, <1>4
  <2>2. history[L - (i - 1)] = s[n - (i - 1)] BY <2>1 DEF Recent
  <2>3. s[n - (i - 1)] = s[(n + 1) - i] BY ONLY <2>1
  <2>4. history'[L - i] = history[L - (i - 1)] BY ONLY <1>2, <2>1
  <2> QED BY ONLY <2>2, <2>3, <2>4
<1>5. i = 0 \/ i > 0 BY <1>1
<1> QED BY ONLY <1>3, <1>4, <1>5

(* The builder and a bit.                                                  *)
LEMMA Executes ==
    ASSUME PacketOK, NEW bit \in {0, 1}, execute(bit)
    PROVE  /\ history' \in Seq({0, 1}) /\ Len(history') = L
           /\ state' \in {"Preamble", "Payload"}
           /\ packet' \in Seq({0, 1}) /\ handed' \in Seq({0, 1}) \cup {None}
           /\ state' = "Preamble" => packet' = << >>
           /\ state = "Preamble" /\ ~Matches(history', preamble, Distance) => state' = "Preamble"
           /\ state = "Preamble" /\ Matches(history', preamble, Distance) =>
                 state' = "Payload" /\ packet' = << >>
           /\ state = "Payload" /\ Matches(history', flag, 0) =>
                 /\ state' = "Preamble" /\ packet' = << >>
                 /\ Matches(history', unstuffing, 0) => handed' = packet
           /\ state = "Payload" /\ ~Matches(history', flag, 0) /\ Len(packet) + 1 < Capacity =>
                 /\ state' = "Payload"
                 /\ packet' = IF Matches(history', unstuffing, 0) THEN packet
                                                                ELSE Append(packet, bit)
<1>1. Capacity \in Nat /\ Len(packet) \in Nat BY PacketAssumption DEF PacketOK
<1>2. history' \in Seq({0, 1}) /\ Len(history') = L BY Shifted DEF PacketOK, execute
<1>3. CASE state = "Preamble"
  <2>1. /\ state' = IF Matches(history', preamble, Distance) THEN "Payload" ELSE state
        /\ packet' = packet /\ handed' = handed
    BY <1>3 DEF execute
  <2>2. packet = << >> BY <1>3 DEF PacketOK
  <2> QED BY <1>2, <1>3, <2>1, <2>2 DEF PacketOK
<1>4. CASE state = "Payload"
  <2> DEFINE taken == IF Matches(history', unstuffing, 0) THEN packet ELSE Added(bit)
  <2>1. IF Matches(history', flag, 0)
        THEN handed' = taken /\ reset_state
        ELSE /\ handed' = handed
             /\ IF Len(taken) >= Capacity THEN reset_state
                                          ELSE packet' = taken /\ UNCHANGED state
    BY <1>4 DEF execute, Payload
  <2>2. packet \in Seq({0, 1}) /\ handed \in Seq({0, 1}) \cup {None} BY DEF PacketOK
  <2>3. Append(packet, bit) \in Seq({0, 1}) /\ Len(Append(packet, bit)) = Len(packet) + 1
    BY <2>2
  <2>4. Added(bit) = IF Len(packet) < Capacity THEN Append(packet, bit) ELSE packet BY DEF Added
  <2>5. taken \in Seq({0, 1}) BY <2>2, <2>3, <2>4
  <2>6. ASSUME Len(packet) + 1 < Capacity
        PROVE  /\ Len(taken) < Capacity
               /\ taken = IF Matches(history', unstuffing, 0) THEN packet ELSE Append(packet, bit)
    BY <1>1, <2>3, <2>4, <2>6
  <2>7. Matches(history', unstuffing, 0) => taken = packet OBVIOUS
  <2>8. Len(taken) \in Nat BY <2>5
  <2> HIDE DEF taken
  <2>9. CASE Matches(history', flag, 0)
    <3>1. handed' = taken /\ packet' = << >> /\ state' = "Preamble" BY <2>1, <2>9 DEF reset_state
    <3>2. << >> \in Seq({0, 1}) OBVIOUS
    <3> QED BY <1>2, <1>4, <2>5, <2>7, <2>9, <3>1, <3>2
  <2>10. CASE ~Matches(history', flag, 0)
    <3>1. /\ handed' = handed
          /\ \/ Len(taken) >= Capacity /\ packet' = << >> /\ state' = "Preamble"
             \/ ~(Len(taken) >= Capacity) /\ packet' = taken /\ state' = "Payload"
      BY <1>4, <2>1, <2>10 DEF reset_state
    <3>2. << >> \in Seq({0, 1}) OBVIOUS
    <3>3. Len(packet) + 1 < Capacity => packet' = taken /\ state' = "Payload"
      BY <1>1, <2>6, <2>8, <3>1
    <3> QED BY <1>2, <1>4, <2>2, <2>5, <2>6, <2>10, <3>1, <3>2, <3>3
  <2> QED BY <2>9, <2>10
<1> QED BY <1>3, <1>4 DEF PacketOK

(* A bit on the line: the builder gets it if it was not mistaken and the   *)
(* decoder knew the level.                                                 *)
LEMMA Sends ==
    ASSUME PacketOK, NEW bit \in {0, 1}, Send(bit)
    PROVE  /\ last' \in {0, 1} /\ level' \in {0, 1} /\ clean' \in BOOLEAN
           /\ \E b \in {0, 1} : execute(b)
           /\ clean' => clean /\ last' = level' /\ (last = level => execute(bit))
<1>1. last \in {0, 1} /\ level \in {0, 1} /\ clean \in BOOLEAN BY DEF PacketOK
<1>2. level' = (IF bit = 0 THEN 1 - level ELSE level) BY DEF Send
<1>3. level' \in {0, 1} BY <1>1, <1>2
<1>4. CASE consume_symbol(level') /\ clean' = clean
  <2>1. last' = level' /\ execute(IF level' = last THEN 1 ELSE 0) BY <1>4 DEF consume_symbol
  <2>2. last = level => (IF level' = last THEN 1 ELSE 0) = bit BY <1>1, <1>2
  <2>3. (IF level' = last THEN 1 ELSE 0) \in {0, 1} OBVIOUS
  <2>4. \E b \in {0, 1} : execute(b) BY <2>1, <2>3
  <2>5. last = level => execute(bit) BY ONLY <2>1, <2>2
  <2> QED BY ONLY <1>1, <1>3, <1>4, <2>1, <2>4, <2>5
<1>5. CASE consume_symbol(1 - level') /\ clean' = FALSE
  <2>1. last' = 1 - level' /\ execute(IF 1 - level' = last THEN 1 ELSE 0)
    BY <1>5 DEF consume_symbol
  <2>2. (IF 1 - level' = last THEN 1 ELSE 0) \in {0, 1} OBVIOUS
  <2>3. last' \in {0, 1} /\ clean' = FALSE
    <3>1. last' = 1 - level' BY <2>1
    <3>2. level' = 0 \/ level' = 1 BY <1>3
    <3>3. last' = 0 \/ last' = 1 BY ONLY <3>1, <3>2
    <3> QED BY <1>5, <3>3
  <2>4. \E b \in {0, 1} : execute(b) BY <2>1, <2>2
  <2> QED BY ONLY <1>3, <2>3, <2>4
<1>6. \/ consume_symbol(level') /\ clean' = clean
      \/ consume_symbol(1 - level') /\ clean' = FALSE
  BY DEF Send
<1> QED BY ONLY <1>4, <1>5, <1>6

-----------------------------------------------------------------------------
(* Before its last bit, no part of a lead behind a flag is taken for the   *)
(* preamble: it has two wrong bits.                                        *)
LEMMA NoEarlyMatch ==
    ASSUME NEW q \in Seq({0, 1}), Len(q) = L, NEW m \in 1 .. L + 1,
           \A i \in 0 .. F - 1 : q[L - i] = stream[F + m - i]
    PROVE  ~Matches(q, preamble, Distance)
<1>1. /\ Training \in Nat /\ Training % 2 = 0 /\ Training > 0
      /\ F \in Nat /\ F >= 6 /\ L = Training + F /\ m \in Nat /\ m >= 1 /\ m <= L + 1
  BY PacketAssumption, Widths
<1>2. ASSUME NEW j \in 1 .. F
      PROVE  q[Training + j] = stream[m + j] /\ preamble[Training + j] = flag[j]
  <2>1. F - j \in 0 .. F - 1 /\ L - (F - j) = Training + j /\ F + m - (F - j) = m + j
    BY ONLY <1>1, j \in 1 .. F
  <2>2. q[L - (F - j)] = stream[F + m - (F - j)] BY <2>1
  <2>3. preamble[Training + j] = flag[j] BY PreambleBits
  <2> QED BY ONLY <2>1, <2>2, <2>3
<1>3. ASSUME NEW j \in 1 .. F, NEW k \in 1 .. F, j # k,
             stream[m + j] # flag[j], stream[m + k] # flag[k]
      PROVE  ~Matches(q, preamble, Distance)
  <2> DEFINE a == Training + j
             b == Training + k
  <2>1. a \in 1 .. L /\ b \in 1 .. L /\ a # b BY ONLY <1>1, <1>3, j \in 1 .. F, k \in 1 .. F
  <2>2. q[a] # preamble[a] /\ q[b] # preamble[b] BY <1>2, <1>3
  <2> HIDE DEF a, b
  <2>3. preamble \in Seq({0, 1}) /\ Len(preamble) = L BY PreambleBits
  <2>4. Len(q) - Len(preamble) + a = a /\ Len(q) - Len(preamble) + b = b
    BY ONLY <1>1, <2>1, <2>3, Len(q) = L
  <2>5. Len(preamble) <= Len(q) BY ONLY <1>1, <2>3, Len(q) = L
  <2>6. a \in 1 .. Len(preamble) /\ b \in 1 .. Len(preamble) BY <2>1, <2>3
  <2>7. q[Len(q) - Len(preamble) + a] # preamble[a] /\ q[Len(q) - Len(preamble) + b] # preamble[b]
    BY ONLY <2>2, <2>4
  <2> QED BY <2>1, <2>3, <2>5, <2>6, <2>7, TwoWrong
(* The zeros, ...                                                          *)
<1>4. ASSUME NEW j \in 1 .. F, m + j = F \/ (m + j - F \in 1 .. Training + 3 /\ (m + j - F) % 2 = 1)
      PROVE  stream[m + j] = 0
  <2>1. CASE m + j = F
    <3>1. F \in 1 .. F BY <1>1
    <3>2. stream[F] = 0 BY <3>1, StreamBits, FlagBits
    <3> QED BY <2>1, <3>2
  <2>2. CASE m + j - F \in 1 .. Training + 3 /\ (m + j - F) % 2 = 1
    <3>1. stream[F + (m + j - F)] = 0 BY <2>2, StreamBits
    <3>2. F + (m + j - F) = m + j BY ONLY <1>1, j \in 1 .. F
    <3> QED BY <3>1, <3>2
  <2> QED BY <1>4, <2>1, <2>2
(* ... two of them where the flag has ones.                                *)
<1>5. ASSUME NEW j \in 2 .. F - 1, NEW k \in 2 .. F - 1, j # k,
             m + j = F \/ (m + j - F \in 1 .. Training + 3 /\ (m + j - F) % 2 = 1),
             m + k = F \/ (m + k - F \in 1 .. Training + 3 /\ (m + k - F) % 2 = 1)
      PROVE  ~Matches(q, preamble, Distance)
  <2>1. /\ j \in 1 .. F /\ ~(j = 1 \/ j = F) /\ k \in 1 .. F /\ ~(k = 1 \/ k = F)
    BY ONLY <1>1, j \in 2 .. F - 1, k \in 2 .. F - 1
  <2>2. stream[m + j] = 0 /\ stream[m + k] = 0 BY <1>4, <1>5, <2>1
  <2>3. flag[j] = 1 /\ flag[k] = 1 BY <2>1, FlagBits
  <2>4. stream[m + j] # flag[j] /\ stream[m + k] # flag[k] BY ONLY <2>2, <2>3
  <2> QED BY <1>3, <1>5, <2>1, <2>4
(* The flag of the frame before, moved by one.                             *)
<1>6. CASE m = 1
  <2>1. /\ 1 \in 1 .. F /\ 2 \in 1 .. F /\ F - 1 \in 1 .. F /\ F \in 1 .. F /\ 1 # F - 1
        /\ F - 1 # 1 /\ F - 1 # F /\ 2 # 1 /\ 2 # F
    BY <1>1
  <2>2. flag[1] = 0 /\ flag[F - 1] = 1 /\ flag[2] = 1 /\ flag[F] = 0 BY <2>1, FlagBits
  <2>3. stream[2] = 1 /\ stream[F] = 0 BY <2>1, <2>2, StreamBits
  <2>4. m + 1 = 2 /\ m + (F - 1) = F BY <1>1, <1>6
  <2>5. stream[m + 1] # flag[1] /\ stream[m + (F - 1)] # flag[F - 1] BY ONLY <2>2, <2>3, <2>4
  <2> QED BY <1>3, <2>1, <2>5
<1>7. CASE m \in 2 .. 4
  <2> DEFINE j == F - m
             k == F + 1 - m
  <2>1. /\ j \in 2 .. F - 1 /\ k \in 2 .. F - 1 /\ j # k /\ m + j = F /\ m + k - F = 1
        /\ 1 \in 1 .. Training + 3 /\ 1 % 2 = 1
    BY <1>1, <1>7
  <2> HIDE DEF j, k
  <2> QED BY <1>5, <2>1
<1>8. CASE m \in 5 .. Training + 3
  <2> DEFINE d == m % 2
             j == F - 1 - d
             k == F - 3 - d
  <2>1. d \in {0, 1} BY <1>1
  <2>2. /\ m + j - F = m - 1 - d /\ m + k - F = m - 3 - d /\ j # k
        /\ m - 1 - d \in 1 .. Training + 3 /\ m - 3 - d \in 1 .. Training + 3
    BY <1>1, <1>8, <2>1
  <2>3. (m - 1 - d) % 2 = 1 /\ (m - 3 - d) % 2 = 1
    <3>1. CASE m % 2 = 0 BY ONLY <1>1, <3>1
    <3>2. CASE m % 2 = 1 BY ONLY <1>1, <3>2
    <3> QED BY ONLY <2>1, <3>1, <3>2
  <2>4. j \in 2 .. F - 1 /\ k \in 2 .. F - 1 BY <1>1, <2>1
  <2> HIDE DEF d, j, k
  <2> QED BY <1>5, <2>2, <2>3, <2>4
(* The flag of this frame, not yet complete.                               *)
<1>9. CASE m \in Training + 4 .. L + 1
  <2> DEFINE n == m - Training - 2
             k == F - n + 1
  <2>1. /\ n \in 1 .. F /\ ~(n = 1 \/ n = F) /\ k \in 1 .. F /\ ~(k = 1 \/ k = F)
        /\ F \in 1 .. F /\ 1 \in 1 .. F /\ F # k
        /\ Training + n \in 1 .. L /\ Training + 1 \in 1 .. L
        /\ F + 2 + (Training + n) = m + F /\ F + 2 + (Training + 1) = m + k
    BY <1>1, <1>9
  <2> HIDE DEF n, k
  <2>2. /\ stream[F + 2 + (Training + n)] = preamble[Training + n]
        /\ stream[F + 2 + (Training + 1)] = preamble[Training + 1]
    BY <2>1, StreamBits
  <2>3. preamble[Training + n] = flag[n] /\ preamble[Training + 1] = flag[1]
    BY <2>1, PreambleBits
  <2>4. flag[n] = 1 /\ flag[1] = 0 /\ flag[F] = 0 /\ flag[k] = 1 BY <2>1, FlagBits
  <2>5. stream[m + F] # flag[F] /\ stream[m + k] # flag[k] BY ONLY <2>1, <2>2, <2>3, <2>4
  <2> QED BY <1>3, <2>1, <2>5
<1>10. m = 1 \/ m \in 2 .. 4 \/ m \in 5 .. Training + 3 \/ m \in Training + 4 .. L + 1
  BY ONLY <1>1
<1> QED BY ONLY <1>6, <1>7, <1>8, <1>9, <1>10

-----------------------------------------------------------------------------
(* A pattern against the last bits received, from the end.                 *)
LEMMA FromEnd ==
    ASSUME NEW q \in Seq({0, 1}), Len(q) = L, NEW p \in Seq({0, 1}), Len(p) <= L
    PROVE  Matches(q, p, 0) <=> \A j \in 0 .. Len(p) - 1 : q[L - j] = p[Len(p) - j]
<1>1. L \in Nat /\ Len(p) \in Nat BY Widths
<1> DEFINE w == Len(p)
<1> HIDE DEF w
<1>2. w \in Nat /\ w <= L /\ L \in Nat BY <1>1 DEF w
<1>3. Matches(q, p, 0) <=> \A i \in 1 .. w : q[L - w + i] = p[i] BY MatchAll DEF w
<1>4. ASSUME NEW j \in 0 .. w - 1 PROVE w - j \in 1 .. w /\ L - w + (w - j) = L - j
  BY <1>2
<1>5. ASSUME NEW i \in 1 .. w
      PROVE  w - i \in 0 .. w - 1 /\ w - (w - i) = i /\ L - (w - i) = L - w + i
  BY <1>2
<1>6. ASSUME \A i \in 1 .. w : q[L - w + i] = p[i], NEW j \in 0 .. w - 1
      PROVE  q[L - j] = p[w - j]
  <2>1. q[L - w + (w - j)] = p[w - j] BY <1>4, <1>6
  <2> QED BY <1>4, <2>1
<1>7. ASSUME \A j \in 0 .. w - 1 : q[L - j] = p[w - j], NEW i \in 1 .. w
      PROVE  q[L - w + i] = p[i]
  <2>1. q[L - (w - i)] = p[w - (w - i)] BY <1>5, <1>7
  <2> QED BY <1>5, <2>1
<1>8. Matches(q, p, 0) <=> \A j \in 0 .. w - 1 : q[L - j] = p[w - j] BY <1>3, <1>6, <1>7
<1> QED BY <1>8 DEF w

LEMMA PatternsFromEnd ==
    ASSUME NEW q \in Seq({0, 1}), Len(q) = L
    PROVE  /\ Matches(q, flag, 0) <=>
                 \A j \in 0 .. F - 1 : q[L - j] = IF j = 0 \/ j = F - 1 THEN 0 ELSE 1
           /\ Matches(q, unstuffing, 0) <=>
                 \A j \in 0 .. Ones : q[L - j] = IF j = 0 THEN 0 ELSE 1
<1>1. Ones \in Nat /\ F = Ones + 3 /\ F \in Nat /\ F <= L /\ Ones + 1 <= L /\ (Ones + 1) - 1 = Ones
  <2>1. Training \in Nat /\ Ones \in Nat BY PacketAssumption
  <2> QED BY <2>1, Widths
<1>2. Matches(q, flag, 0) <=> \A j \in 0 .. F - 1 : q[L - j] = flag[F - j]
  <2>1. flag \in Seq({0, 1}) /\ Len(flag) = F /\ Len(flag) <= L BY <1>1, FlagBits
  <2>2. Matches(q, flag, 0) <=> \A j \in 0 .. Len(flag) - 1 : q[L - j] = flag[Len(flag) - j]
    BY <2>1, FromEnd
  <2> QED BY ONLY <2>1, <2>2
<1>3. Matches(q, unstuffing, 0) <=> \A j \in 0 .. Ones : q[L - j] = unstuffing[(Ones + 1) - j]
  <2>1. unstuffing \in Seq({0, 1}) /\ Len(unstuffing) = Ones + 1 /\ Len(unstuffing) <= L
    BY <1>1, UnstuffingBits
  <2>2. Matches(q, unstuffing, 0) <=>
           \A j \in 0 .. Len(unstuffing) - 1 : q[L - j] = unstuffing[Len(unstuffing) - j]
    BY <2>1, FromEnd
  <2>3. Matches(q, unstuffing, 0) <=>
           \A j \in 0 .. (Ones + 1) - 1 : q[L - j] = unstuffing[(Ones + 1) - j]
    BY ONLY <2>1, <2>2
  <2> QED BY ONLY <1>1, <2>3
<1>4. ASSUME NEW j \in 0 .. F - 1
      PROVE  flag[F - j] = IF j = 0 \/ j = F - 1 THEN 0 ELSE 1
  <2>1. F - j \in 1 .. F /\ (F - j = 1 <=> j = F - 1) /\ (F - j = F <=> j = 0) BY <1>1
  <2> QED BY <2>1, FlagBits
<1>5. ASSUME NEW j \in 0 .. Ones
      PROVE  unstuffing[(Ones + 1) - j] = IF j = 0 THEN 0 ELSE 1
  <2>1. (Ones + 1) - j \in 1 .. Ones + 1 /\ ((Ones + 1) - j = Ones + 1 <=> j = 0) BY <1>1
  <2> QED BY <2>1, UnstuffingBits
<1>6. Matches(q, flag, 0) <=>
         \A j \in 0 .. F - 1 : q[L - j] = IF j = 0 \/ j = F - 1 THEN 0 ELSE 1
  BY ONLY <1>2, <1>4
<1>7. Matches(q, unstuffing, 0) <=> \A j \in 0 .. Ones : q[L - j] = IF j = 0 THEN 0 ELSE 1
  BY ONLY <1>3, <1>5
<1> QED BY ONLY <1>6, <1>7

(* After a 1, and after a 0 with another close before it, a bit is neither *)
(* stuffed nor the last of a flag.                                         *)
LEMMA NoPattern ==
    ASSUME NEW q \in Seq({0, 1}), Len(q) = L, q[L] = 1 \/ \E j \in 1 .. Ones : q[L - j] = 0
    PROVE  ~Matches(q, flag, 0) /\ ~Matches(q, unstuffing, 0)
<1>1. Ones \in Nat /\ F = Ones + 3 /\ L \in Nat BY PacketAssumption, Widths
<1>2. CASE q[L] = 1
  <2>1. L - 0 = L /\ 0 \in 0 .. F - 1 /\ 0 \in 0 .. Ones BY <1>1
  <2>2. q[L - 0] # 0 BY <1>2, <2>1
  <2> QED BY <2>1, <2>2, PatternsFromEnd
<1>3. ASSUME NEW j \in 1 .. Ones, q[L - j] = 0
      PROVE  ~Matches(q, flag, 0) /\ ~Matches(q, unstuffing, 0)
  <2>1. j \in 0 .. F - 1 /\ j \in 0 .. Ones /\ ~(j = 0 \/ j = F - 1) BY <1>1
  <2> QED BY <1>3, <2>1, PatternsFromEnd
<1> QED BY <1>2, <1>3

-----------------------------------------------------------------------------
(* The initial state.                                                      *)
LEMMA PacketInitInv == PacketInit => PacketInv
<1> SUFFICES ASSUME PacketInit PROVE PacketInv OBVIOUS
<1>1. L \in Nat /\ Len(preamble) = L BY Widths, PreambleBits
<1>2. history \in Seq({0, 1}) /\ Len(history) = L BY <1>1 DEF PacketInit, Repeat
<1>3. << >> \in Seq({0, 1}) /\ Len(<< >>) = 0 OBVIOUS
<1>4. PacketOK
  <2>1. 0 <= MaxData /\ 0 \in 0 .. Ones BY PacketAssumption
  <2> QED BY <1>2, <1>3, <2>1 DEF PacketOK, PacketInit
<1>5. FrameInv
  BY DEF PacketInit, FrameInv, LineInv, LeadInv, DataInv, FlagInv, IdleInv, FollowInv
<1> QED BY <1>4, <1>5 DEF PacketInv

(* Nothing is promised of a frame with an error.                           *)
LEMMA Mistaken == ASSUME clean' = FALSE PROVE FrameInv'
  BY DEF FrameInv, LineInv, LeadInv, DataInv, FlagInv, IdleInv, FollowInv

(* The receiver's variables after any bit.                                 *)
LEMMA Received ==
    ASSUME PacketOK, NEW bit \in {0, 1}, Send(bit)
    PROVE  /\ last' \in {0, 1} /\ level' \in {0, 1} /\ clean' \in BOOLEAN
           /\ history' \in Seq({0, 1}) /\ Len(history') = L
           /\ state' \in {"Preamble", "Payload"}
           /\ packet' \in Seq({0, 1}) /\ handed' \in Seq({0, 1}) \cup {None}
           /\ state' = "Preamble" => packet' = << >>
<1>1. PICK b \in {0, 1} : execute(b) BY Sends
<1> QED BY <1>1, Sends, Executes

LEMMA BeginStep == ASSUME PacketInv, Begin PROVE PacketInv'
<1>1. PacketOK /\ FrameInv BY DEF PacketInv
<1>2. << >> \in Seq({0, 1}) /\ Len(<< >>) = 0 OBVIOUS
<1>3. /\ tx = "idle" /\ tx' = "lead" /\ at' = 0 /\ data' = << >> /\ run' = 0
      /\ follows' = (clean /\ (heard \/ ~Matches(history, preamble, Distance)))
      /\ clean' = TRUE /\ heard' = FALSE /\ handed' = None
      /\ last' = last /\ history' = history /\ state' = state /\ packet' = packet /\ level' = level
  BY DEF Begin, builder
<1>4. PacketOK'
  <2>1. 0 \in 0 .. L + 1 /\ 0 <= MaxData /\ 0 \in 0 .. Ones BY PacketAssumption, Widths
  <2>2. follows' \in BOOLEAN BY <1>3
  <2> QED BY <1>1, <1>2, <1>3, <2>1, <2>2 DEF PacketOK
<1>5. CASE ~follows'
  <2>1. \A i \in 0 .. L - 1 : ~(i < -1) BY Widths
  <2>2. Recent(history, stream, F + at, at - 1)'
    <3>1. at' - 1 = -1 BY <1>3
    <3>2. \A i \in 0 .. L - 1 : ~(i < at' - 1) BY <2>1, <3>1
    <3>3. Recent(history', stream, F + at', at' - 1) BY <3>2 DEF Recent
    <3> QED BY <3>3
  <2>3. LeadInv' BY <1>5, <2>2 DEF LeadInv
  <2>4. (LineInv /\ DataInv /\ FlagInv /\ IdleInv /\ FollowInv)'
    BY <1>3, <1>5 DEF LineInv, DataInv, FlagInv, IdleInv, FollowInv
  <2> QED BY <1>4, <2>3, <2>4 DEF PacketInv, FrameInv
<1>6. CASE follows'
  <2>1. clean /\ (heard \/ ~Matches(history, preamble, Distance)) BY <1>3, <1>6
  <2>2. last' = level' BY <1>1, <1>3, <2>1 DEF FrameInv, LineInv
  <2>3. state' = "Preamble" /\ Recent(history, flag, F, F)
    BY <1>1, <1>3, <2>1 DEF FrameInv, IdleInv, Delivered
  <2>4. ASSUME NEW i \in 0 .. L - 1, i < F + 0 PROVE history[L - i] = stream[(F + 0) - i]
    <3>1. F - i \in 1 .. F /\ (F + 0) - i = F - i /\ i < F BY <2>4, Widths
    <3>2. stream[F - i] = flag[F - i] BY <3>1, StreamBits
    <3>3. history[L - i] = flag[F - i] BY <2>3, <3>1 DEF Recent
    <3> QED BY <3>1, <3>2, <3>3
  <2>5. Recent(history, stream, F + at, F + at)'
    <3>1. Recent(history, stream, F + 0, F + 0) BY <2>4 DEF Recent
    <3>2. Recent(history', stream, F + at', F + at') BY <1>3, <3>1
    <3> QED BY <3>2
  <2>6. LeadInv' BY <1>6, <2>3, <2>5 DEF LeadInv
  <2>7. (LineInv /\ DataInv /\ FlagInv /\ IdleInv /\ FollowInv)'
    BY <1>3, <2>2 DEF LineInv, DataInv, FlagInv, IdleInv, FollowInv
  <2> QED BY <1>4, <2>6, <2>7 DEF PacketInv, FrameInv
<1> QED BY <1>4, <1>5, <1>6 DEF PacketInv

LEMMA SilenceStep == ASSUME PacketInv, Silence PROVE PacketInv'
<1>1. PacketOK /\ FrameInv BY DEF PacketInv
<1>2. PICK symbol \in {0, 1} : consume_symbol(symbol) BY DEF Silence
<1>3. clean' = FALSE /\ tx = "idle" /\ tx' = tx /\ at' = at /\ data' = data /\ run' = run
      /\ follows' = follows /\ heard' = heard /\ level' = level
  BY DEF Silence, frame
<1>4. PICK b \in {0, 1} : execute(b) BY <1>2 DEF consume_symbol
<1>5. last' \in {0, 1} BY <1>2 DEF consume_symbol
<1>6. PacketOK' BY <1>1, <1>3, <1>4, <1>5, Executes DEF PacketOK
<1>7. FrameInv' BY <1>3, Mistaken
<1> QED BY <1>6, <1>7 DEF PacketInv

LEMMA SendDataStep == ASSUME PacketInv, SendData PROVE PacketInv'
<1>1. PacketOK /\ FrameInv BY DEF PacketInv
<1>2. PICK bit \in {0, 1} :
         /\ Send(bit)
         /\ data' = Append(data, bit) /\ run' = IF bit = 1 THEN run + 1 ELSE 0
  BY DEF SendData
<1>3. tx = "data" /\ run < Ones /\ Len(data) < MaxData /\ tx' = tx /\ at' = at
      /\ heard' = heard /\ follows' = follows
  BY DEF SendData
<1>4. /\ data \in Seq({0, 1}) /\ Len(data) \in Nat /\ run \in Nat /\ Ones \in Nat /\ MaxData \in Nat
      /\ Capacity \in Nat /\ MaxData + Ones + 2 < Capacity
  BY <1>1, PacketAssumption DEF PacketOK
<1>5. data' \in Seq({0, 1}) /\ Len(data') = Len(data) + 1 BY <1>2, <1>4
<1>6. run' \in 0 .. Ones BY <1>2, <1>3, <1>4
<1>7. PacketOK'
  <2>1. Len(data') <= MaxData BY ONLY <1>3, <1>4, <1>5
  <2> QED BY <1>1, <1>2, <1>3, <1>5, <1>6, <2>1, Received DEF PacketOK
<1>8. CASE clean' = FALSE BY <1>7, <1>8, Mistaken DEF PacketInv
<1>9. CASE clean' = TRUE
  <2>1. clean /\ last' = level' /\ (last = level => execute(bit)) BY <1>1, <1>2, <1>9, Sends
  <2>2. execute(bit) BY <1>1, <1>3, <2>1 DEF FrameInv, LineInv
  <2>3. /\ \A i \in 0 .. run - 1 : history[L - i] = 1
        /\ history[L - run] = 0
        /\ heard => state = "Payload" /\ packet = data
        /\ follows => heard
    BY <1>1, <1>3, <2>1 DEF FrameInv, DataInv, FollowInv
  <2>4. /\ history' \in Seq({0, 1}) /\ Len(history') = L /\ history'[L] = bit
        /\ \A i \in 1 .. L - 1 : history'[L - i] = history[L - (i - 1)]
    <3>1. history \in Seq({0, 1}) /\ Len(history) = L BY <1>1 DEF PacketOK
    <3>2. history' = Append(Tail(history), bit) BY <2>2 DEF execute
    <3> QED BY <3>1, <3>2, Shifted
  <2>5. run + 1 \in 1 .. L - 1 /\ run + 1 \in 1 .. Ones /\ (run + 1) - 1 = run
    BY <1>3, <1>4, Widths, PacketAssumption
  <2>6. history'[L - (run + 1)] = 0 BY <2>3, <2>4, <2>5
  <2>7. /\ \A i \in 0 .. run' - 1 : history'[L - i] = 1
        /\ history'[L - run'] = 0
    <3>1. CASE bit = 1
      <4>1. run' = run + 1 BY <1>2, <3>1
      <4>2. ASSUME NEW i \in 0 .. run PROVE history'[L - i] = 1
        <5>1. i = 0 \/ (i \in 1 .. L - 1 /\ i - 1 \in 0 .. run - 1) BY <1>4, <2>5, Widths
        <5>2. L - 0 = L BY Widths
        <5> QED BY <2>3, <2>4, <3>1, <5>1, <5>2
      <4>3. (run + 1) - 1 = run BY <1>4
      <4> QED BY <2>6, <4>1, <4>2, <4>3
    <3>2. CASE bit = 0
      <4>1. run' = 0 BY <1>2, <3>2
      <4>2. L - 0 = L /\ \A i \in 0 .. 0 - 1 : FALSE BY Widths
      <4> QED BY <2>4, <3>2, <4>1, <4>2
    <3> QED BY <3>1, <3>2
  <2>8. heard => state' = "Payload" /\ packet' = data'
    <3> SUFFICES ASSUME heard PROVE state' = "Payload" /\ packet' = data' OBVIOUS
    <3>1. ~Matches(history', flag, 0) /\ ~Matches(history', unstuffing, 0)
      BY <2>4, <2>5, <2>6, NoPattern
    <3>2. Len(packet) + 1 < Capacity
      <4>1. Len(packet) = Len(data) BY <2>3
      <4> QED BY ONLY <1>3, <1>4, <4>1
    <3> QED BY <1>1, <1>2, <2>2, <2>3, <3>1, <3>2, Executes
  <2>9. FrameInv'
    BY <1>3, <2>1, <2>3, <2>7, <2>8
    DEF FrameInv, LineInv, LeadInv, DataInv, FlagInv, IdleInv, FollowInv
  <2> QED BY <1>7, <2>9 DEF PacketInv
<1>10. clean' \in BOOLEAN BY <1>1, <1>2, Received
<1> QED BY <1>8, <1>9, <1>10

LEMMA SendStuffedStep == ASSUME PacketInv, SendStuffed PROVE PacketInv'
<1>1. PacketOK /\ FrameInv BY DEF PacketInv
<1>2. 0 \in {0, 1} /\ Send(0) BY DEF SendStuffed
<1>3. /\ tx = "data" /\ run = Ones /\ run' = 0 /\ tx' = tx /\ at' = at /\ data' = data
      /\ heard' = heard /\ follows' = follows
  BY DEF SendStuffed
<1>4. /\ Len(data) \in Nat /\ Len(data) <= MaxData /\ Ones \in Nat /\ MaxData \in Nat
      /\ Capacity \in Nat /\ MaxData + Ones + 2 < Capacity
      /\ L \in Nat /\ F \in Nat /\ F = Ones + 3 /\ L = Training + F /\ Training \in Nat
  BY <1>1, PacketAssumption, Widths DEF PacketOK
<1>5. PacketOK'
  <2>1. 0 \in 0 .. Ones BY <1>4
  <2> QED BY <1>1, <1>2, <1>3, <2>1, Received DEF PacketOK
<1>6. CASE clean' = FALSE BY <1>5, <1>6, Mistaken DEF PacketInv
<1>7. CASE clean' = TRUE
  <2>1. clean /\ last' = level' /\ (last = level => execute(0)) BY <1>1, <1>2, <1>7, Sends
  <2>2. execute(0) BY <1>1, <1>3, <2>1 DEF FrameInv, LineInv
  <2>3. /\ \A i \in 0 .. Ones - 1 : history[L - i] = 1
        /\ history[L - Ones] = 0
        /\ heard => state = "Payload" /\ packet = data
        /\ follows => heard
    BY <1>1, <1>3, <2>1 DEF FrameInv, DataInv, FollowInv
  <2>4. /\ history' \in Seq({0, 1}) /\ Len(history') = L /\ history'[L] = 0
        /\ \A i \in 1 .. L - 1 : history'[L - i] = history[L - (i - 1)]
    <3>1. history \in Seq({0, 1}) /\ Len(history) = L BY <1>1 DEF PacketOK
    <3>2. history' = Append(Tail(history), 0) BY <2>2 DEF execute
    <3> QED BY <1>2, <3>1, <3>2, Shifted
  <2>5. ASSUME NEW j \in 1 .. Ones + 1 PROVE history'[L - j] = IF j = Ones + 1 THEN 0 ELSE 1
    <3>1. j \in 1 .. L - 1 /\ (j = Ones + 1 => j - 1 = Ones)
          /\ (j # Ones + 1 => j - 1 \in 0 .. Ones - 1)
      BY <1>4
    <3>2. history'[L - j] = history[L - (j - 1)] BY <2>4, <3>1
    <3> QED BY <2>3, <3>1, <3>2
  <2>6. Matches(history', unstuffing, 0) /\ ~Matches(history', flag, 0)
    <3>1. ASSUME NEW j \in 0 .. Ones PROVE history'[L - j] = IF j = 0 THEN 0 ELSE 1
      <4>1. L - 0 = L /\ (j = 0 \/ (j \in 1 .. Ones + 1 /\ j # Ones + 1 /\ j # 0)) BY <1>4
      <4> QED BY <2>4, <2>5, <4>1
    <3>2. history'[L - (Ones + 1)] = 0
      <4>1. Ones + 1 \in 1 .. Ones + 1 BY <1>4
      <4> QED BY <2>5, <4>1
    <3>3. Ones + 1 \in 0 .. F - 1 /\ ~(Ones + 1 = 0 \/ Ones + 1 = F - 1) BY <1>4
    <3> QED BY <2>4, <3>1, <3>2, <3>3, PatternsFromEnd
  <2>7. heard => state' = "Payload" /\ packet' = data'
    <3> SUFFICES ASSUME heard PROVE state' = "Payload" /\ packet' = data' OBVIOUS
    <3>1. Len(packet) + 1 < Capacity
      <4>1. Len(packet) = Len(data) BY <2>3
      <4> QED BY ONLY <1>4, <4>1
    <3> QED BY <1>1, <1>2, <1>3, <2>2, <2>3, <2>6, <3>1, Executes
  <2>8. /\ \A i \in 0 .. run' - 1 : history'[L - i] = 1
        /\ history'[L - run'] = 0
    <3>1. L - 0 = L /\ \A i \in 0 .. 0 - 1 : FALSE BY <1>4
    <3> QED BY <1>3, <2>4, <3>1
  <2>9. FrameInv'
    BY <1>3, <2>1, <2>3, <2>7, <2>8
    DEF FrameInv, LineInv, LeadInv, DataInv, FlagInv, IdleInv, FollowInv
  <2> QED BY <1>5, <2>9 DEF PacketInv
<1>8. clean' \in BOOLEAN BY <1>1, <1>2, Received
<1> QED BY <1>6, <1>7, <1>8

LEMMA SendLeadStep == ASSUME PacketInv, SendLead PROVE PacketInv'
<1>1. PacketOK /\ FrameInv BY DEF PacketInv
<1> DEFINE n == at + 1
           bit == lead[n]
<1>2. /\ tx = "lead" /\ Send(bit) /\ data' = data /\ run' = run /\ follows' = follows
      /\ Len(lead) = L + 2
  BY LeadBits DEF SendLead, frame
<1>3. /\ at \in 0 .. L + 1 /\ at \in Nat /\ n \in 1 .. L + 2 /\ L \in Nat /\ F \in Nat /\ F >= 6
      /\ L = Training + F /\ Training \in Nat /\ data = << >> /\ run = 0
  <2>1. at \in 0 .. L + 1 /\ data = << >> /\ run = 0 BY <1>1, <1>2 DEF PacketOK
  <2>2. Training \in Nat BY PacketAssumption
  <2> QED BY <2>1, <2>2, Widths
<1>4. bit \in {0, 1}
  <2>1. DOMAIN lead = 1 .. L + 2 /\ lead \in Seq({0, 1}) BY LeadBits
  <2> QED BY <1>3, <2>1
<1>5. \/ n = L + 2 /\ tx' = "data" /\ at' = 0 /\ heard' = (state = "Preamble")
      \/ n < L + 2 /\ tx' = "lead" /\ at' = n /\ heard' = heard
  BY <1>2, <1>3 DEF SendLead
<1>6. stream[F + n] = bit BY <1>3, StreamBits
<1> HIDE DEF bit
<1>7. PacketOK'
  <2>1. at' = n => at' \in 0 .. L + 1 \/ n = L + 2 BY <1>3
  <2>2. heard' \in BOOLEAN BY <1>1, <1>5 DEF PacketOK
  <2>3. tx' = "lead" => at' \in 0 .. L + 1 BY <1>3, <1>5
  <2> QED BY <1>1, <1>2, <1>3, <1>4, <1>5, <2>2, <2>3, Received DEF PacketOK
<1>8. CASE clean' = FALSE BY <1>7, <1>8, Mistaken DEF PacketInv
<1>9. CASE clean' = TRUE
  <2>1. clean /\ last' = level' /\ (last = level => execute(bit)) BY <1>1, <1>2, <1>4, <1>9, Sends
  <2>2. at > 0 \/ follows => execute(bit) BY <1>1, <1>2, <2>1 DEF FrameInv, LineInv
  <2>3. ASSUME NEW k \in Int, k <= F + at, execute(bit), Recent(history, stream, F + at, k)
        PROVE  Recent(history', stream, F + n, k + 1)
    <3>1. history' = Append(Tail(history), bit) BY <2>3 DEF execute
    <3>2. F + at \in Nat /\ (F + at) + 1 = F + n BY <1>3
    <3>3. Recent(history', stream, (F + at) + 1, k + 1)
      BY <1>1, <1>4, <1>6, <2>3, <3>1, <3>2, RecentStep
    <3> QED BY <3>2, <3>3
  <2>4. follows => /\ execute(bit) /\ state = "Preamble"
                   /\ Recent(history', stream, F + n, F + n)
    <3> SUFFICES ASSUME follows
                 PROVE  /\ execute(bit) /\ state = "Preamble"
                        /\ Recent(history', stream, F + n, F + n)
      OBVIOUS
    <3>1. state = "Preamble" /\ Recent(history, stream, F + at, F + at)
      BY <1>1, <1>2, <2>1 DEF FrameInv, LeadInv
    <3>2. F + at \in Int /\ F + at <= F + at /\ (F + at) + 1 = F + n BY <1>3
    <3>3. Recent(history', stream, F + n, (F + at) + 1) BY <2>2, <2>3, <3>1, <3>2
    <3> QED BY <2>2, <3>1, <3>2, <3>3
  <2>5. ~follows => Recent(history', stream, F + n, n - 1)
    <3> SUFFICES ASSUME ~follows PROVE Recent(history', stream, F + n, n - 1) OBVIOUS
    <3>1. Recent(history, stream, F + at, at - 1)
      BY <1>1, <1>2, <2>1 DEF FrameInv, LeadInv
    <3>2. CASE at > 0
      <4>1. at - 1 \in Int /\ at - 1 <= F + at /\ (at - 1) + 1 = n - 1 BY <1>3
      <4>2. Recent(history', stream, F + n, (at - 1) + 1) BY <2>2, <2>3, <3>1, <3>2, <4>1
      <4> QED BY <4>1, <4>2
    <3>3. CASE at = 0
      <4>1. \A i \in 0 .. L - 1 : ~(i < n - 1) BY <1>3, <3>3
      <4> QED BY <4>1 DEF Recent
    <3> QED BY <1>3, <3>2, <3>3
  <2>6. CASE n < L + 2
    <3>1. tx' = "lead" /\ at' = n BY <1>3, <1>5, <2>6
    <3>2. follows => state' = "Preamble"
      <4> SUFFICES ASSUME follows PROVE state' = "Preamble" OBVIOUS
      <4>1. history' \in Seq({0, 1}) /\ Len(history') = L BY <1>1, <1>2, <1>4, Received
      <4>2. n \in 1 .. L + 1 BY <1>3, <2>6
      <4>3. ASSUME NEW i \in 0 .. F - 1 PROVE history'[L - i] = stream[F + n - i]
        <5>1. i \in 0 .. L - 1 /\ i < F + n /\ (F + n) - i = F + n - i BY <1>3
        <5>2. history'[L - i] = stream[(F + n) - i] BY <2>4, <5>1 DEF Recent
        <5> QED BY <5>1, <5>2
      <4>4. ~Matches(history', preamble, Distance) BY <4>1, <4>2, <4>3, NoEarlyMatch
      <4> QED BY <1>1, <1>4, <2>4, <4>4, Executes
    <3> HIDE DEF n
    <3>3. LeadInv'
      <4>1. follows' => state' = "Preamble" /\ Recent(history', stream, F + at', F + at')
        BY <1>2, <2>4, <3>1, <3>2
      <4>2. ~follows' => Recent(history', stream, F + at', at' - 1) BY <1>2, <2>5, <3>1
      <4> QED BY <4>1, <4>2 DEF LeadInv
    <3>4. (LineInv /\ DataInv /\ FlagInv /\ IdleInv /\ FollowInv)'
      BY <2>1, <3>1 DEF LineInv, DataInv, FlagInv, IdleInv, FollowInv
    <3> QED BY <1>7, <3>3, <3>4 DEF PacketInv, FrameInv
  <2>7. CASE n = L + 2
    <3>1. tx' = "data" /\ at' = 0 /\ heard' = (state = "Preamble") /\ execute(bit)
      BY <1>3, <1>5, <2>2, <2>7
    <3>2. history' \in Seq({0, 1}) /\ Len(history') = L BY <1>1, <1>2, <1>4, Received
    <3>3. ASSUME NEW j \in 0 .. L - 1 PROVE history'[L - j] = preamble[L - j]
      <4>1. /\ j < F + n /\ j < n - 1 /\ (F + n) - j = F + 2 + (L - j) /\ L - j \in 1 .. L
        BY <1>3, <2>7
      <4>2. history'[L - j] = stream[(F + n) - j] BY <2>4, <2>5, <4>1 DEF Recent
      <4>3. stream[F + 2 + (L - j)] = preamble[L - j] BY <4>1, StreamBits
      <4> QED BY <4>1, <4>2, <4>3
    <3>4. Matches(history', preamble, Distance)
      <4>1. L <= L BY <1>3
      <4>2. Matches(history', preamble, 0) BY <3>2, <3>3, <4>1, PreambleBits, FromEnd
      <4>3. Distance \in Nat BY PacketAssumption
      <4> QED BY <3>2, <4>1, <4>2, <4>3, PreambleBits, MatchAll
    <3>5. heard' => state' = "Payload" /\ packet' = data'
      BY <1>1, <1>2, <1>3, <1>4, <3>1, <3>4, Executes
    <3>6. history'[L] = 0
      <4>1. F \in 1 .. F /\ 0 \in 0 .. L - 1 /\ L - 0 = L BY <1>3
      <4>2. preamble[L] = flag[F] BY <1>3, <4>1, PreambleBits
      <4> QED BY <3>3, <4>1, <4>2, FlagBits
    <3>7. /\ \A i \in 0 .. run' - 1 : history'[L - i] = 1
          /\ history'[L - run'] = 0
      <4>1. L - 0 = L /\ \A i \in 0 .. 0 - 1 : FALSE BY <1>3
      <4> QED BY <1>2, <1>3, <3>6, <4>1
    <3>8. follows' => heard' BY <1>2, <2>4, <3>1
    <3>9. FrameInv'
      BY <2>1, <3>1, <3>5, <3>7, <3>8
      DEF FrameInv, LineInv, LeadInv, DataInv, FlagInv, IdleInv, FollowInv
    <3> QED BY <1>7, <3>9 DEF PacketInv
  <2> QED BY <1>5, <2>6, <2>7
<1>10. clean' \in BOOLEAN BY <1>1, <1>2, <1>4, Received
<1> QED BY <1>8, <1>9, <1>10

LEMMA SendFlagStep == ASSUME PacketInv, SendFlag PROVE PacketInv'
<1>1. PacketOK /\ FrameInv BY DEF PacketInv
<1> DEFINE n == at + 1
           bit == flag[n]
<1>2. /\ tx = "flag" \/ (tx = "data" /\ run < Ones)
      /\ Send(bit) /\ at' = n /\ data' = data /\ run' = run /\ follows' = follows /\ heard' = heard
      /\ tx' = IF n = F THEN "idle" ELSE "flag"
  BY FlagBits DEF SendFlag, frame
<1>3. at \in Nat /\ n \in 1 .. F /\ (tx = "data" => at = 0) /\ (tx = "flag" => at > 0)
  BY <1>1, <1>2, Widths DEF PacketOK
<1>4. /\ Ones \in Nat /\ Ones >= 3 /\ L \in Nat /\ F \in Nat /\ F = Ones + 3 /\ L = Training + F
      /\ Training \in Nat /\ Len(data) \in Nat /\ Len(data) <= MaxData /\ MaxData \in Nat
      /\ Capacity \in Nat /\ MaxData + Ones + 2 < Capacity /\ run \in Nat
  BY <1>1, PacketAssumption, Widths DEF PacketOK
<1>5. bit = (IF n = 1 \/ n = F THEN 0 ELSE 1) /\ bit \in {0, 1} BY <1>3, FlagBits
<1> HIDE DEF bit
<1>6. PacketOK'
  <2>1. tx' = "flag" => at' \in 1 .. F - 1 BY <1>2, <1>3, <1>4
  <2> QED BY <1>1, <1>2, <1>5, <2>1, Received DEF PacketOK
<1>7. CASE clean' = FALSE BY <1>6, <1>7, Mistaken DEF PacketInv
<1>8. CASE clean' = TRUE
  <2>1. clean /\ last' = level' /\ (last = level => execute(bit)) BY <1>1, <1>2, <1>5, <1>8, Sends
  <2>2. execute(bit) BY <1>1, <1>2, <2>1 DEF FrameInv, LineInv
  <2>3. follows => heard BY <1>1, <1>2, <2>1 DEF FrameInv, FollowInv
  <2>4. /\ Recent(history, flag, at, at)
        /\ heard => /\ state = "Payload" /\ Len(packet) = Len(data) + at
                    /\ \A i \in 1 .. Len(data) : packet[i] = data[i]
    <3>1. CASE tx = "flag" BY <1>1, <2>1, <3>1 DEF FrameInv, FlagInv
    <3>2. CASE tx = "data"
      <4>1. at = 0 /\ (heard => state = "Payload" /\ packet = data)
        BY <1>1, <1>3, <2>1, <3>2 DEF FrameInv, DataInv
      <4>2. \A i \in 0 .. L - 1 : ~(i < 0) BY <1>4
      <4>3. Recent(history, flag, at, at) BY <4>1, <4>2 DEF Recent
      <4>4. Len(data) = Len(data) + 0 BY <1>4
      <4> QED BY <4>1, <4>3, <4>4
    <3> QED BY <1>2, <3>1, <3>2
  <2>5. history' \in Seq({0, 1}) /\ Len(history') = L /\ history' = Append(Tail(history), bit)
    BY <1>1, <1>2, <1>5, <2>2, Received DEF execute
  <2>6. Recent(history', flag, n, n)
    <3>1. at \in Int /\ at <= at BY <1>3
    <3> QED BY <1>1, <1>3, <1>5, <2>4, <2>5, <3>1, RecentStep DEF bit
  <2>7. packet \in Seq({0, 1}) BY <1>1 DEF PacketOK
  <2>8. CASE n # F
    <3>1. n \in 1 .. F - 1 /\ tx' = "flag" BY <1>2, <1>3, <1>4, <2>8
    <3>2. history'[L] = 1 \/ \E j \in 1 .. Ones : history'[L - j] = 0
      <4>1. CASE tx = "flag"
        <5>1. bit = 1 BY <1>3, <1>5, <2>8, <4>1
        <5>2. history \in Seq({0, 1}) /\ Len(history) = L BY <1>1 DEF PacketOK
        <5> QED BY <1>5, <2>5, <5>1, <5>2, Shifted
      <4>2. CASE tx = "data"
        <5>1. history[L - run] = 0 /\ run < Ones BY <1>1, <1>2, <2>1, <4>2 DEF FrameInv, DataInv
        <5>2. run + 1 \in 1 .. Ones /\ run + 1 \in 1 .. L - 1 /\ (run + 1) - 1 = run
          BY <1>4, <5>1
        <5>3. history \in Seq({0, 1}) /\ Len(history) = L BY <1>1 DEF PacketOK
        <5>4. \A i \in 1 .. L - 1 : history'[L - i] = history[L - (i - 1)]
          BY <1>5, <2>5, <5>3, Shifted
        <5>5. history'[L - (run + 1)] = 0 BY <5>1, <5>2, <5>4
        <5> QED BY <5>2, <5>5
      <4> QED BY <1>2, <4>1, <4>2
    <3>3. ~Matches(history', flag, 0) /\ ~Matches(history', unstuffing, 0)
      BY <2>5, <3>2, NoPattern
    <3>4. heard => /\ state' = "Payload" /\ Len(packet') = Len(data') + at'
                   /\ \A i \in 1 .. Len(data') : packet'[i] = data'[i]
      <4> SUFFICES ASSUME heard
                   PROVE  /\ state' = "Payload" /\ Len(packet') = Len(data) + n
                          /\ \A i \in 1 .. Len(data) : packet'[i] = data[i]
        BY <1>2
      <4>1. /\ state = "Payload" /\ Len(packet) = Len(data) + at
            /\ \A i \in 1 .. Len(data) : packet[i] = data[i]
        BY <2>4
      <4>2. Len(packet) + 1 < Capacity /\ Len(packet) + 1 = Len(data) + n
        BY ONLY <1>3, <1>4, <3>1, <4>1
      <4>3. state' = "Payload" /\ packet' = Append(packet, bit)
        BY <1>1, <1>5, <2>2, <3>3, <4>1, <4>2, Executes
      <4>4. /\ Len(packet') = Len(packet) + 1
            /\ \A i \in 1 .. Len(packet) : packet'[i] = packet[i]
        BY <1>5, <2>7, <4>3
      <4>5. \A i \in 1 .. Len(data) : i \in 1 .. Len(packet) BY <1>3, <1>4, <4>1
      <4> QED BY <4>1, <4>2, <4>3, <4>4, <4>5
    <3>5. FlagInv' BY <1>2, <2>6, <3>4 DEF FlagInv
    <3>6. (LineInv /\ LeadInv /\ DataInv /\ IdleInv /\ FollowInv)'
      BY <1>2, <2>1, <2>3, <3>1 DEF LineInv, LeadInv, DataInv, IdleInv, FollowInv
    <3> QED BY <1>6, <3>5, <3>6 DEF PacketInv, FrameInv
  <2>9. CASE n = F
    <3>1. tx' = "idle" BY <1>2, <2>9
    <3>2. ASSUME NEW j \in 0 .. F - 1 PROVE history'[L - j] = flag[F - j]
      <4>1. j \in 0 .. L - 1 /\ j < n BY <1>4, <2>9
      <4> QED BY <2>6, <2>9, <4>1 DEF Recent
    <3>3. ASSUME NEW j \in 0 .. F - 1
          PROVE  history'[L - j] = IF j = 0 \/ j = F - 1 THEN 0 ELSE 1
      <4>1. F - j \in 1 .. F /\ (F - j = 1 <=> j = F - 1) /\ (F - j = F <=> j = 0) BY <1>4
      <4>2. flag[F - j] = IF j = 0 \/ j = F - 1 THEN 0 ELSE 1 BY <4>1, FlagBits
      <4> QED BY <3>2, <4>2
    <3>4. Matches(history', flag, 0) /\ Matches(history', unstuffing, 0)
      <4>1. \A j \in 0 .. Ones : j \in 0 .. F - 1 /\ j # F - 1 BY <1>4
      <4>2. ASSUME NEW j \in 0 .. Ones PROVE history'[L - j] = IF j = 0 THEN 0 ELSE 1
        BY <3>3, <4>1
      <4> QED BY <2>5, <3>3, <4>2, PatternsFromEnd
    <3>5. state = "Payload" => state' = "Preamble" /\ packet' = << >> /\ handed' = packet
      BY <1>1, <1>5, <2>2, <3>4, Executes
    <3>6. state' = "Preamble" \/ Matches(history', preamble, Distance)
      BY <1>1, <1>5, <2>2, <3>5, Executes DEF PacketOK
    <3>7. heard => Delivered'
      <4> SUFFICES ASSUME heard PROVE Delivered' OBVIOUS
      <4>1. /\ state = "Payload" /\ Len(packet) = Len(data) + at
            /\ \A i \in 1 .. Len(data) : packet[i] = data[i]
        BY <2>4
      <4>2. handed' = packet /\ packet # None BY <2>7, <3>5, <4>1, PacketAssumption
      <4>3. Len(packet) - (Ones + 2) = Len(data) /\ Len(data) <= Len(packet)
        BY <1>3, <1>4, <2>9, <4>1
      <4>4. SubSeq(packet, 1, Len(data)) = data
        <5>1. data \in Seq({0, 1}) BY <1>1 DEF PacketOK
        <5> QED BY <1>4, <2>7, <4>1, <4>3, <5>1
      <4>5. data_and_fcs_length(handed') = Len(data) BY <4>2, <4>3 DEF data_and_fcs_length
      <4> QED BY <1>2, <3>5, <4>1, <4>2, <4>4, <4>5 DEF Delivered
    <3>8. IdleInv' BY <1>2, <2>6, <2>9, <3>6, <3>7 DEF IdleInv
    <3>9. (LineInv /\ LeadInv /\ DataInv /\ FlagInv /\ FollowInv)'
      BY <1>2, <2>1, <2>3, <3>1 DEF LineInv, LeadInv, DataInv, FlagInv, FollowInv
    <3> QED BY <1>6, <3>8, <3>9 DEF PacketInv, FrameInv
  <2> QED BY <2>8, <2>9
<1>9. clean' \in BOOLEAN BY <1>1, <1>2, <1>5, Received
<1> QED BY <1>7, <1>8, <1>9

(* Every step keeps the inductive invariant.                               *)
LEMMA PacketStep == ASSUME PacketInv, [PacketNext]_packetvars PROVE PacketInv'
<1>1. CASE UNCHANGED packetvars
  BY <1>1 DEF packetvars, builder, frame, PacketInv, PacketOK, FrameInv, LineInv, LeadInv, DataInv,
              FlagInv, IdleInv, FollowInv, Delivered, data_and_fcs_length
<1>2. CASE PacketNext
  BY <1>2, BeginStep, SendLeadStep, SendDataStep, SendStuffedStep, SendFlagStep, SilenceStep
     DEF PacketNext
<1> QED BY <1>1, <1>2

(* The bits received are those sent, wherever the transmitter is in a      *)
(* frame without error, for any number of ones, length of training, frames,*)
(* noise and errors.                                                       *)
THEOREM PacketInvariance == PacketSpec => []PacketInv
  BY PacketInitInv, PacketStep, PTL DEF PacketSpec

(* A frame without error is handed over as it was sent, if the builder was *)
(* waiting when its preamble ended.                                        *)
THEOREM HeardFramesDelivered == PacketSpec => []HeardIsDelivered
<1>1. PacketInv => HeardIsDelivered
  BY DEF PacketInv, FrameInv, IdleInv, HeardIsDelivered, Sent
<1> QED BY <1>1, PacketInvariance, PTL

(* Of two frames in a row without error the second is delivered, unless    *)
(* the builder missed the first and that one ended like a preamble.        *)
THEOREM NextFrameDelivered == PacketSpec => []NextIsDelivered
<1>1. PacketInv => NextIsDelivered
  BY DEF PacketInv, FrameInv, IdleInv, FollowInv, NextIsDelivered, Sent
<1> QED BY <1>1, PacketInvariance, PTL
=============================================================================

------------------------ MODULE CaptureStreamProofs -------------------------
(***************************************************************************)
(* Where the buffers are, who may look into the M4's StreamInput, what it  *)
(* counts in, which recording a CaptureThreadDone ends and how many of     *)
(* them there are, for any number of buffers.                              *)
(***************************************************************************)
EXTENDS CaptureStream, FiniteSetTheorems, TLAPS

Streaming == {"loop", "out", "nothing", "sleep", "writing", "put", "leave"}

(* The stream lives from BasebandCapture's constructor to its destructor,  *)
(* and around it the CaptureThread, which holds the CaptureConfig; the     *)
(* exchange lives within the stream.                                       *)
LifeInv ==
    /\ session \in BOOLEAN
    /\ session <=> worker # "none"
    /\ worker \in Streaming \cup {"exchange", "stop"} => stream = "current"
    /\ exchange => worker \in Streaming
    /\ worker \in {"post", "ended"} /\ stream = "current" => lost
    /\ stream = "orphan" => lost

Stale == \E i \in DOMAIN done : done[i] = "stale"

(* Past the local queue in a round of the event loop.                      *)
PastLocal == \/ ui \in {"switches", "touch"}
             \/ ui \in {"send", "join"} /\ next # "local"

(* A Done message outlives its session only within the round that has      *)
(* destroyed the session, or in the local queue of the next one: a session *)
(* that meets it was started before that.                                  *)
DoneInv ==
    /\ done \in Seq({"own", "stale"})
    /\ PastLocal /\ Stale => freed
    /\ session /\ Stale => quick

Has(q, b) == \E i \in DOMAIN q : q[i] = b

(* Every buffer is in one place, and in a FIFO once.                       *)
Placed ==
    /\ empty \in Seq(Buffers) /\ IsInjective(empty)
    /\ full \in Seq(Buffers) /\ IsInjective(full)
    /\ active \in Buffers \cup {None} /\ hand \in Buffers \cup {None}
    /\ \A b \in Buffers :
          /\ Has(empty, b) \/ Has(full, b) \/ active = b \/ hand = b
          /\ Has(empty, b) => ~Has(full, b) /\ active # b /\ hand # b
          /\ Has(full, b) => active # b /\ hand # b
          /\ active = b => hand # b

(* ... and the thread has one where its code says so.                      *)
PlaceInv ==
    /\ stream = "current" => Placed
    /\ worker \in {"writing", "put"} => hand # None
    /\ worker \in {"exchange", "loop", "out", "nothing", "sleep"} => hand = None

(* What is in the FIFOs and in the hands are buffers, also after the       *)
(* CaptureConfig of the stream is gone.                                    *)
StoreOK ==
    /\ empty \in Seq(Buffers) /\ Len(empty) <= FifoSize
    /\ full \in Seq(Buffers) /\ Len(full) <= FifoSize
    /\ active \in Buffers \cup {None} /\ hand \in Buffers \cup {None}

(* The messages there are, and the one that a thread has yet to post.      *)
Posts == Len(done) + (IF worker \in {"none", "ended"} THEN 0 ELSE 1)

(* Past the local queue, which is empty then, there is no more than the    *)
(* message of one session until another is started by the touch; that one  *)
(* cannot be destroyed before the local queue's next turn.                 *)
PostInv ==
    /\ Posts <= 2
    /\ ui \in {"switches", "touch"} \/ (ui \in {"send", "join"} /\ next = "touch") => Posts <= 1
    /\ ui = "switches" /\ ~session => done = << >>

(* The variables nothing else depends on, and the places of the threads.   *)
ControlOK ==
    /\ stream \in {"none", "current", "orphan"} /\ m4 \in {"execute", "ring"}
    /\ line \in BOOLEAN /\ isr \in {"none", "checked"} /\ window \in 0 .. WindowFills
    /\ exchange \in BOOLEAN /\ terminate \in BOOLEAN
    /\ worker \in Streaming \cup {"none", "construct", "exchange", "stop", "post", "ended"}
    /\ ui \in {"wait", "local", "switches", "touch", "join", "send"}
    /\ next \in {"wait", "local", "touch"}
    /\ freed \in BOOLEAN /\ quick \in BOOLEAN /\ lost \in BOOLEAN

IInv == LifeInv /\ DoneInv /\ PlaceInv /\ StoreOK /\ PostInv /\ ControlOK

-----------------------------------------------------------------------------
(* An own message added at the end makes no stale one.                     *)
LEMMA PostedOwn ==
    ASSUME NEW q \in Seq({"own", "stale"})
    PROVE  /\ Append(q, "own") \in Seq({"own", "stale"})
           /\ \A i \in DOMAIN Append(q, "own") :
                 Append(q, "own")[i] = "stale" => i \in DOMAIN q /\ q[i] = "stale"
<1> DEFINE r == Append(q, "own")
<1>1. r \in Seq({"own", "stale"}) /\ Len(r) = Len(q) + 1 /\ Len(q) \in Nat OBVIOUS
<1>2. \A i \in 1 .. Len(q) + 1 : r[i] = IF i = Len(q) + 1 THEN "own" ELSE q[i] OBVIOUS
<1>3. DOMAIN q = 1 .. Len(q) OBVIOUS
<1> HIDE DEF r
<1>4. DOMAIN r = 1 .. Len(q) + 1 BY <1>1
<1>5. \A i \in DOMAIN r : r[i] = "stale" => i \in DOMAIN q /\ q[i] = "stale"
  BY <1>1, <1>2, <1>3, <1>4
<1> QED BY <1>1, <1>5 DEF r

(* Messages that are taken, and their order, are the same afterwards.      *)
LEMMA Taken ==
    ASSUME NEW q \in Seq({"own", "stale"}), q # << >>
    PROVE  /\ Tail(q) \in Seq({"own", "stale"})
           /\ \A i \in DOMAIN Tail(q) : i + 1 \in DOMAIN q /\ Tail(q)[i] = q[i + 1]
           /\ 1 \in DOMAIN q /\ Head(q) = q[1]
<1> DEFINE r == Tail(q)
<1>1. r \in Seq({"own", "stale"}) /\ Len(r) = Len(q) - 1 /\ Len(q) \in Nat \ {0} OBVIOUS
<1>2. \A i \in 1 .. Len(q) - 1 : r[i] = q[i + 1] OBVIOUS
<1>3. DOMAIN q = 1 .. Len(q) /\ Head(q) = q[1] OBVIOUS
<1> HIDE DEF r
<1>4. DOMAIN r = 1 .. Len(q) - 1 BY <1>1
<1>5. /\ r \in Seq({"own", "stale"})
      /\ \A i \in DOMAIN r : i + 1 \in DOMAIN q /\ r[i] = q[i + 1]
      /\ 1 \in DOMAIN q /\ Head(q) = q[1]
  BY <1>1, <1>2, <1>3, <1>4
<1> QED BY <1>5 DEF r

(* With their session destroyed, all of them are stale.                    *)
LEMMA Outlived ==
    ASSUME NEW q \in Seq({"own", "stale"})
    PROVE  [i \in DOMAIN q |-> "stale"] \in Seq({"own", "stale"})
<1>1. Len(q) \in Nat /\ DOMAIN q = 1 .. Len(q) OBVIOUS
<1>2. [i \in 1 .. Len(q) |-> "stale"] \in Seq({"own", "stale"}) BY <1>1
<1> QED BY <1>1, <1>2

-----------------------------------------------------------------------------
(* Every step keeps the stream within the life of the thread's objects.    *)
LEMMA LifeStep ==
    ASSUME LifeInv, [Next]_vars
    PROVE  LifeInv'
<1> USE DEF buffervars, m4vars, isrvars, uivars, LifeInv, Streaming
<1>1. CASE M4Step BY <1>1 DEF M4Step, Take, Fill, Ring, Report
<1>2. CASE IsrWake BY <1>2 DEF IsrWake
<1>3. CASE IsrClear BY <1>3 DEF IsrClear
<1>4. CASE Construct BY <1>4 DEF Construct, WorkerAt
<1>5. CASE Exchange BY <1>5 DEF Exchange, WorkerAt
<1>6. CASE Loop BY <1>6 DEF Loop, WorkerAt
<1>7. CASE Out BY <1>7 DEF Out, WorkerAt
<1>8. CASE Sleep BY <1>8 DEF Sleep, WorkerAt
<1>9. CASE Write BY <1>9 DEF Write, WorkerAt
<1>10. CASE Put BY <1>10 DEF Put, WorkerAt
<1>11. CASE Leave BY <1>11 DEF Leave, WorkerAt
<1>12. CASE Stop BY <1>12 DEF Stop, WorkerAt
<1>13. CASE Post BY <1>13 DEF Post, WorkerAt
<1>14. CASE Round BY <1>14 DEF Round
<1>15. CASE HandleDone BY <1>15 DEF HandleDone, stop
<1>16. CASE SendEnd BY <1>16 DEF SendEnd
<1>17. CASE Join BY <1>17 DEF Join
<1>18. CASE Advance("local") BY <1>18 DEF Advance
<1>19. ASSUME NEW at \in {"switches", "touch"}, Advance(at) PROVE LifeInv' BY <1>19 DEF Advance
<1>20. ASSUME NEW at \in {"switches", "touch"}, UserStops(at) PROVE LifeInv'
  BY <1>20 DEF UserStops, stop
<1>21. ASSUME NEW at \in {"switches", "touch"}, start(at) PROVE LifeInv' BY <1>21 DEF start
<1>22. ASSUME NEW at \in {"switches", "touch"}, Send(at) PROVE LifeInv' BY <1>22 DEF Send
<1>23. ASSUME NEW at \in {"switches", "touch"}, NewImage(at) PROVE LifeInv' BY <1>23 DEF NewImage
<1>24. CASE UNCHANGED vars BY <1>24 DEF vars
<1> QED BY <1>1, <1>2, <1>3, <1>4, <1>5, <1>6, <1>7, <1>8, <1>9, <1>10, <1>11, <1>12, <1>13,
           <1>14, <1>15, <1>16, <1>17, <1>18, <1>19, <1>20, <1>21, <1>22, <1>23, <1>24
        DEF Next, Worker, EventLoop

(* Every step but Post, HandleDone, Join and start: no message comes or    *)
(* goes and no session either, and what is past the local queue stays so.  *)
LEMMA QuietStep ==
    ASSUME DoneInv, UNCHANGED <<done, session, freed, quick>>, PastLocal' => PastLocal
    PROVE  DoneInv'
  BY DEF DoneInv, Stale

(* Every step keeps stale messages within the round that made them stale.  *)
LEMMA DoneStep ==
    ASSUME LifeInv, DoneInv, [Next]_vars
    PROVE  DoneInv'
<1> USE DEF buffervars, m4vars, isrvars, uivars
<1> DEFINE Quiet == UNCHANGED <<done, session, freed, quick>> /\ (PastLocal' => PastLocal)
<1>1. ASSUME Quiet PROVE DoneInv' BY <1>1, QuietStep
<1>2. CASE M4Step
  <2>1. Quiet BY <1>2 DEF M4Step, Take, Fill, Ring, Report, PastLocal
  <2> QED BY <2>1, <1>1
<1>3. CASE IsrWake \/ IsrClear
  <2>1. Quiet BY <1>3 DEF IsrWake, IsrClear, PastLocal
  <2> QED BY <2>1, <1>1
<1>4. CASE \/ Construct \/ Exchange \/ Loop \/ Out \/ Sleep \/ Write \/ Put \/ Leave \/ Stop
  <2>1. UNCHANGED <<uivars, done>>
    BY <1>4 DEF Construct, Exchange, Loop, Out, Sleep, Write, Put, Leave, Stop
  <2>2. Quiet BY <2>1 DEF PastLocal
  <2> QED BY <2>2, <1>1
<1>5. CASE Post
  <2>1. done' = Append(done, "own") /\ UNCHANGED uivars BY <1>5 DEF Post
  <2>2. done' \in Seq({"own", "stale"}) /\ (Stale' => Stale)
    BY <2>1, PostedOwn DEF DoneInv, Stale
  <2> QED BY <2>1, <2>2 DEF DoneInv, PastLocal
<1>6. CASE Round
  <2>1. UNCHANGED <<done, session, quick>> /\ ui' = "local" BY <1>6 DEF Round, UiAt
  <2> QED BY <2>1 DEF DoneInv, Stale, PastLocal
<1>7. CASE HandleDone
  <2>1. /\ done # << >> /\ done' = Tail(done) /\ UNCHANGED <<session, freed, quick>>
        /\ \/ ui' = "join" /\ next' = "local"
           \/ ui' = "local"
    BY <1>7 DEF HandleDone, stop, UiAt
  <2>2. done' \in Seq({"own", "stale"}) /\ (Stale' => Stale) BY <2>1, Taken DEF DoneInv, Stale
  <2> QED BY <2>1, <2>2 DEF DoneInv, PastLocal
<1>8. CASE SendEnd
  <2>1. ui = "send" /\ ui' = next /\ UNCHANGED <<done, session, freed, quick, next>>
    BY <1>8 DEF SendEnd, UiAt
  <2>2. Quiet BY <2>1 DEF PastLocal
  <2> QED BY <2>2, <1>1
<1>9. CASE Join
  <2>1. done' = [i \in DOMAIN done |-> "stale"] /\ session' = FALSE /\ freed' = TRUE
    BY <1>9 DEF Join
  <2>2. done' \in Seq({"own", "stale"}) BY <2>1, Outlived DEF DoneInv
  <2>3. ~session' /\ freed' BY <2>1
  <2> QED BY <2>2, <2>3 DEF DoneInv
<1>10. CASE Advance("local")
  <2>1. done = << >> /\ UNCHANGED <<done, session, freed, quick>> BY <1>10 DEF Advance
  <2>2. ~Stale' BY <2>1 DEF Stale
  <2> QED BY <2>1, <2>2 DEF DoneInv
<1>11. ASSUME NEW at \in {"switches", "touch"},
              Advance(at) \/ UserStops(at) \/ Send(at) \/ NewImage(at)
       PROVE  DoneInv'
  <2>1. ui = at /\ UNCHANGED <<done, session, freed, quick>>
    BY <1>11 DEF Advance, UserStops, stop, Send, NewImage, UiAt
  <2>2. Quiet BY <2>1 DEF PastLocal
  <2> QED BY <2>2, <1>1
<1>12. ASSUME NEW at \in {"switches", "touch"}, start(at) PROVE DoneInv'
  <2>1. ui = at /\ quick' = freed /\ UNCHANGED <<done, freed>> BY <1>12 DEF start, UiAt
  <2>2. Stale => freed BY <2>1 DEF DoneInv, PastLocal
  <2>3. (Stale' <=> Stale) /\ (freed' <=> freed) /\ (quick' <=> freed) BY <2>1 DEF Stale
  <2> QED BY <2>1, <2>2, <2>3 DEF DoneInv
<1>13. CASE UNCHANGED vars
  <2>1. Quiet BY <1>13 DEF vars, PastLocal
  <2> QED BY <2>1, <1>1
<1> QED BY <1>2, <1>3, <1>4, <1>5, <1>6, <1>7, <1>8, <1>9, <1>10, <1>11, <1>12, <1>13
        DEF Next, Worker, EventLoop

-----------------------------------------------------------------------------
(* What is taken from a FIFO of distinct buffers is no longer in it.       *)
LEMMA TakenOnce ==
    ASSUME NEW q \in Seq(Buffers), q # << >>, IsInjective(q)
    PROVE  /\ Tail(q) \in Seq(Buffers) /\ IsInjective(Tail(q)) /\ Head(q) \in Buffers
           /\ \A b : Has(q, b) <=> b = Head(q) \/ Has(Tail(q), b)
           /\ ~Has(Tail(q), Head(q))
<1> DEFINE r == Tail(q)
           h == Head(q)
<1>1. r \in Seq(Buffers) /\ Len(r) = Len(q) - 1 /\ Len(q) \in Nat \ {0} OBVIOUS
<1>2. \A i \in 1 .. Len(q) - 1 : r[i] = q[i + 1] OBVIOUS
<1>3. DOMAIN q = 1 .. Len(q) /\ h = q[1] /\ h \in Buffers OBVIOUS
<1> HIDE DEF r, h
<1>4. DOMAIN r = 1 .. Len(q) - 1 BY <1>1
<1>5. \A i, j \in DOMAIN q : q[i] = q[j] => i = j BY DEF IsInjective
<1>6. ASSUME NEW i \in DOMAIN r, NEW j \in DOMAIN r, r[i] = r[j] PROVE i = j
  <2>1. i + 1 \in DOMAIN q /\ j + 1 \in DOMAIN q BY <1>1, <1>3, <1>4
  <2>2. q[i + 1] = q[j + 1] BY <1>2, <1>4, <1>6
  <2>3. i + 1 = j + 1 BY <1>5, <2>1, <2>2
  <2> QED BY <1>1, <1>4, <2>3
<1>7. ~Has(r, h)
  <2> SUFFICES ASSUME NEW i \in DOMAIN r, r[i] = h PROVE FALSE BY DEF Has
  <2>1. i + 1 \in DOMAIN q /\ 1 \in DOMAIN q /\ i + 1 # 1 BY <1>1, <1>3, <1>4
  <2>2. q[i + 1] = q[1] BY <1>2, <1>3, <1>4
  <2> QED BY <1>5, <2>1, <2>2
<1>8. ASSUME NEW b PROVE Has(q, b) <=> b = h \/ Has(r, b)
  <2>1. ASSUME Has(q, b), b # h PROVE Has(r, b)
    <3>1. PICK i \in DOMAIN q : q[i] = b BY <2>1 DEF Has
    <3>2. i # 1 BY <1>3, <2>1, <3>1
    <3>3. i - 1 \in DOMAIN r /\ i - 1 \in 1 .. Len(q) - 1 /\ (i - 1) + 1 = i
      BY <1>1, <1>3, <1>4, <3>2
    <3>4. r[i - 1] = b BY <1>2, <3>1, <3>3
    <3> QED BY <3>3, <3>4 DEF Has
  <2>2. ASSUME Has(r, b) PROVE Has(q, b)
    <3>1. PICK i \in DOMAIN r : r[i] = b BY <2>2 DEF Has
    <3>2. i + 1 \in DOMAIN q /\ q[i + 1] = b BY <1>1, <1>2, <1>3, <1>4, <3>1
    <3> QED BY <3>2 DEF Has
  <2>3. Has(q, h)
    <3>1. 1 \in DOMAIN q BY <1>1, <1>3
    <3> QED BY <1>3, <3>1 DEF Has
  <2> QED BY <2>1, <2>2, <2>3
<1>9. IsInjective(r) BY <1>6 DEF IsInjective
<1> QED BY <1>1, <1>3, <1>7, <1>8, <1>9 DEF r, h

(* A buffer put into a FIFO that does not have it is in it once.           *)
LEMMA PutOnce ==
    ASSUME NEW q \in Seq(Buffers), NEW e \in Buffers, IsInjective(q), ~Has(q, e)
    PROVE  /\ Append(q, e) \in Seq(Buffers) /\ IsInjective(Append(q, e))
           /\ \A b : Has(Append(q, e), b) <=> b = e \/ Has(q, b)
<1> DEFINE r == Append(q, e)
<1>1. r \in Seq(Buffers) /\ Len(r) = Len(q) + 1 /\ Len(q) \in Nat OBVIOUS
<1>2. \A i \in 1 .. Len(q) + 1 : r[i] = IF i = Len(q) + 1 THEN e ELSE q[i] OBVIOUS
<1>3. DOMAIN q = 1 .. Len(q) OBVIOUS
<1> HIDE DEF r
<1>4. DOMAIN r = 1 .. Len(q) + 1 BY <1>1
<1>5. \A i \in DOMAIN q : q[i] # e BY DEF Has
<1>6. \A i, j \in DOMAIN q : q[i] = q[j] => i = j BY DEF IsInjective
<1>7. \A i \in DOMAIN r : i = Len(q) + 1 \/ i \in DOMAIN q BY <1>1, <1>3, <1>4
<1>8. \A i \in DOMAIN q : i \in DOMAIN r /\ r[i] = q[i] BY <1>1, <1>2, <1>3, <1>4
<1>9. Len(q) + 1 \in DOMAIN r /\ r[Len(q) + 1] = e BY <1>1, <1>2, <1>4
<1>10. IsInjective(r) BY <1>5, <1>6, <1>7, <1>8, <1>9 DEF IsInjective
<1>11. \A b : Has(r, b) <=> b = e \/ Has(q, b) BY <1>7, <1>8, <1>9 DEF Has
<1> QED BY <1>1, <1>10, <1>11 DEF r

(* There is room for a buffer in a FIFO of distinct buffers it is not in.  *)
LEMMA RoomFor ==
    ASSUME NEW q \in Seq(Buffers), NEW e \in Buffers, IsInjective(q), ~Has(q, e)
    PROVE  Len(q) < Cardinality(Buffers)
<1>1. Len(q) \in Nat /\ DOMAIN q = 1 .. Len(q) /\ q \in [1 .. Len(q) -> Buffers] OBVIOUS
<1>2. q \in Injection(1 .. Len(q), Buffers) BY <1>1 DEF Injection
<1>3. IsFiniteSet(Buffers) BY CaptureAssumption
<1>4. Cardinality(1 .. Len(q)) = Len(q) BY <1>1, FS_Interval
<1>5. q \notin Surjection(1 .. Len(q), Buffers) BY <1>1 DEF Surjection, Has
<1>6. /\ Cardinality(1 .. Len(q)) <= Cardinality(Buffers)
      /\ Cardinality(1 .. Len(q)) # Cardinality(Buffers)
  BY <1>2, <1>3, <1>5, FS_Injection
<1>7. Cardinality(Buffers) \in Nat BY <1>3, FS_CardinalityType
<1> QED BY <1>1, <1>4, <1>6, <1>7

(* The constructor of StreamInput puts every buffer into the empty FIFO.   *)
LEMMA AllBuffers ==
    /\ SetToSeq(Buffers) \in Seq(Buffers) /\ IsInjective(SetToSeq(Buffers))
    /\ Len(SetToSeq(Buffers)) = Cardinality(Buffers)
    /\ \A b \in Buffers : Has(SetToSeq(Buffers), b)
<1> DEFINE n == Cardinality(Buffers)
           s == SetToSeq(Buffers)
<1>1. IsFiniteSet(Buffers) BY CaptureAssumption
<1>2. n \in Nat /\ ExistsBijection(1 .. n, Buffers) BY <1>1, FS_CardinalityType
<1>3. \E f \in [1 .. n -> Buffers] : IsInjective(f)
  BY <1>2 DEF ExistsBijection, Bijection, Injection
<1>4. s \in [1 .. n -> Buffers] /\ IsInjective(s) BY <1>3 DEF SetToSeq
<1> HIDE DEF s
<1>5. Cardinality(1 .. n) = n BY <1>2, FS_Interval
<1>6. s \in Injection(1 .. n, Buffers) BY <1>4 DEF Injection
<1>7. s \in Surjection(1 .. n, Buffers) BY <1>1, <1>5, <1>6, FS_Injection
<1>8. \A b \in Buffers : Has(s, b) BY <1>4, <1>7 DEF Surjection, Has
<1>9. s \in Seq(Buffers) /\ Len(s) = n BY <1>2, <1>4
<1> QED BY <1>4, <1>8, <1>9 DEF s

(* Every step keeps every buffer in its one place.                         *)
LEMMA PlaceStep ==
    ASSUME LifeInv, PlaceInv, [Next]_vars
    PROVE  PlaceInv'
<1> USE DEF m4vars, isrvars, uivars
<1> DEFINE Still == UNCHANGED <<empty, full, active, hand>> /\ (stream' = "current" => stream = "current")
           Holds == /\ worker' \in {"writing", "put"} => hand' # None
                    /\ worker' \in {"exchange", "loop", "out", "nothing", "sleep"} => hand' = None
<1>1. ASSUME Still, Holds PROVE PlaceInv' BY <1>1 DEF PlaceInv, Placed
<1>2. None \notin Buffers BY CaptureAssumption
<1>3. CASE Take
  <2>1. /\ active = None /\ empty # << >> /\ active' = Head(empty) /\ empty' = Tail(empty)
        /\ UNCHANGED <<full, hand, stream, worker>>
    BY <1>3 DEF Take
  <2>2. ASSUME stream = "current" PROVE Placed'
    <3>1. Placed BY <2>2 DEF PlaceInv
    <3>2. /\ empty' \in Seq(Buffers) /\ IsInjective(empty') /\ active' \in Buffers
          /\ \A b : Has(empty, b) <=> b = active' \/ Has(empty', b)
          /\ ~Has(empty', active')
      BY <2>1, <3>1, TakenOnce DEF Placed
    <3> QED BY <1>2, <2>1, <3>1, <3>2 DEF Placed
  <2> QED BY <2>1, <2>2 DEF PlaceInv
<1>4. CASE Fill
  <2>1. /\ active # None /\ full' = Append(full, active) /\ active' = None
        /\ UNCHANGED <<empty, hand, stream, worker>>
    BY <1>4 DEF Fill
  <2>2. ASSUME stream = "current" PROVE Placed'
    <3>1. Placed BY <2>2 DEF PlaceInv
    <3>2. active \in Buffers /\ ~Has(full, active) BY <2>1, <3>1 DEF Placed
    <3>3. /\ full' \in Seq(Buffers) /\ IsInjective(full')
          /\ \A b : Has(full', b) <=> b = active \/ Has(full, b)
      BY <2>1, <3>1, <3>2, PutOnce DEF Placed
    <3> QED BY <1>2, <2>1, <3>1, <3>3 DEF Placed
  <2> QED BY <2>1, <2>2 DEF PlaceInv
<1>5. CASE Ring \/ Report \/ IsrClear
  <2>1. Still /\ Holds BY <1>5 DEF Ring, Report, IsrClear, buffervars, PlaceInv
  <2> QED BY <2>1, <1>1
<1>6. CASE IsrWake
  <2>1. Still /\ Holds BY <1>6 DEF IsrWake, buffervars, PlaceInv
  <2> QED BY <2>1, <1>1
<1>7. CASE Construct
  <2>1. /\ empty' = SetToSeq(Buffers) /\ full' = << >> /\ active' = None /\ hand' = None
        /\ worker' = "exchange"
    BY <1>7 DEF Construct, WorkerAt
  <2>2. full' \in Seq(Buffers) /\ IsInjective(full') /\ \A b : ~Has(full', b)
    BY <2>1 DEF IsInjective, Has
  <2>3. Placed' BY <1>2, <2>1, <2>2, AllBuffers DEF Placed
  <2> QED BY <2>1, <2>3 DEF PlaceInv
<1>8. CASE Exchange \/ Loop \/ Sleep \/ Leave \/ Post
  <2>1. Still /\ Holds
    BY <1>8 DEF Exchange, Loop, Sleep, Leave, Post, WorkerAt, buffervars, PlaceInv
  <2> QED BY <2>1, <1>1
<1>9. CASE Write
  <2>1. Still /\ Holds BY <1>9 DEF Write, WorkerAt, buffervars, PlaceInv
  <2> QED BY <2>1, <1>1
<1>10. CASE Out
  <2>1. worker = "out" /\ UNCHANGED <<empty, active, stream>> BY <1>10 DEF Out, WorkerAt
  <2>2. Placed /\ hand = None BY <2>1 DEF LifeInv, Streaming, PlaceInv
  <2>3. CASE full # << >>
    <3>1. hand' = Head(full) /\ full' = Tail(full) /\ worker' = "writing"
      BY <1>10, <2>3 DEF Out, WorkerAt
    <3>2. /\ full' \in Seq(Buffers) /\ IsInjective(full') /\ hand' \in Buffers
          /\ \A b : Has(full, b) <=> b = hand' \/ Has(full', b)
          /\ ~Has(full', hand')
      BY <2>2, <2>3, <3>1, TakenOnce DEF Placed
    <3>3. Placed' BY <1>2, <2>1, <2>2, <3>2 DEF Placed
    <3> QED BY <1>2, <3>1, <3>2, <3>3 DEF PlaceInv
  <2>4. CASE full = << >>
    <3>1. UNCHANGED <<hand, full>> /\ worker' = "nothing" BY <1>10, <2>4 DEF Out, WorkerAt
    <3>2. Still /\ Holds BY <2>1, <2>2, <3>1
    <3> QED BY <3>2, <1>1
  <2> QED BY <2>3, <2>4
<1>11. CASE Put
  <2>1. worker = "put" /\ worker' = "loop" /\ hand' = None /\ UNCHANGED <<full, active, stream>>
    BY <1>11 DEF Put, WorkerAt
  <2>2. Placed /\ hand # None BY <2>1 DEF LifeInv, Streaming, PlaceInv
  <2>3. hand \in Buffers /\ ~Has(empty, hand) BY <2>2 DEF Placed
  <2>4. Len(empty) < FifoSize
    <3>1. Len(empty) < Cardinality(Buffers) BY <2>2, <2>3, RoomFor DEF Placed
    <3>2. IsFiniteSet(Buffers) /\ Cardinality(Buffers) <= FifoSize /\ Len(empty) \in Nat
      BY <2>2, CaptureAssumption DEF Placed
    <3>3. Cardinality(Buffers) \in Nat BY <3>2, FS_CardinalityType
    <3> QED BY <3>1, <3>2, <3>3, CaptureAssumption, SMT
  <2>5. empty' = Append(empty, hand) BY <1>11, <2>4 DEF Put
  <2>6. /\ empty' \in Seq(Buffers) /\ IsInjective(empty')
        /\ \A b : Has(empty', b) <=> b = hand \/ Has(empty, b)
    BY <2>2, <2>3, <2>5, PutOnce DEF Placed
  <2>7. Placed' BY <1>2, <2>1, <2>2, <2>6 DEF Placed
  <2> QED BY <2>1, <2>7 DEF PlaceInv
<1>12. CASE Stop
  <2>1. worker' = "post" /\ UNCHANGED hand BY <1>12 DEF Stop, WorkerAt
  <2>2. CASE stream' = "none" BY <2>1, <2>2 DEF PlaceInv
  <2>3. CASE UNCHANGED <<stream, empty, full, active>>
    <3>1. Still /\ Holds BY <2>1, <2>3
    <3> QED BY <3>1, <1>1
  <2> QED BY <1>12, <2>2, <2>3 DEF Stop
<1>13. CASE Round \/ HandleDone \/ SendEnd \/ Advance("local")
  <2>1. Still /\ Holds
    BY <1>13 DEF Round, HandleDone, stop, SendEnd, Advance, buffervars, PlaceInv
  <2> QED BY <2>1, <1>1
<1>14. CASE Join
  <2>1. stream' # "current" /\ worker' = "none" BY <1>14 DEF Join
  <2> QED BY <2>1 DEF PlaceInv
<1>15. ASSUME NEW at \in {"switches", "touch"}, Advance(at) \/ UserStops(at) \/ start(at) \/ Send(at)
       PROVE  PlaceInv'
  <2>1. Still /\ Holds BY <1>15 DEF Advance, UserStops, stop, start, Send, buffervars, PlaceInv
  <2> QED BY <2>1, <1>1
<1>16. ASSUME NEW at \in {"switches", "touch"}, NewImage(at) PROVE PlaceInv'
  <2>1. stream' = "none" /\ UNCHANGED <<hand, worker>> BY <1>16 DEF NewImage
  <2> QED BY <2>1 DEF PlaceInv
<1>17. CASE UNCHANGED vars
  <2>1. Still /\ Holds BY <1>17 DEF vars, buffervars, PlaceInv
  <2> QED BY <2>1, <1>1
<1> QED BY <1>3, <1>4, <1>5, <1>6, <1>7, <1>8, <1>9, <1>10, <1>11, <1>12, <1>13, <1>14, <1>15,
           <1>16, <1>17
        DEF Next, M4Step, Worker, EventLoop

(* Every step keeps buffers in the FIFOs, and no more than they hold.      *)
LEMMA StoreStep ==
    ASSUME PlaceInv, StoreOK, [Next]_vars
    PROVE  StoreOK'
<1> USE DEF m4vars, isrvars, uivars
<1>1. CASE UNCHANGED buffervars BY <1>1 DEF buffervars, StoreOK
<1>2. None \notin Buffers /\ FifoSize \in Nat BY CaptureAssumption
<1>3. ASSUME NEW q \in Seq(Buffers), Len(q) <= FifoSize
      PROVE  /\ Len(q) \in Nat
             /\ q # << >> => /\ Tail(q) \in Seq(Buffers) /\ Len(Tail(q)) <= FifoSize
                            /\ Head(q) \in Buffers
             /\ \A e \in Buffers : Len(q) < FifoSize =>
                   Append(q, e) \in Seq(Buffers) /\ Len(Append(q, e)) <= FifoSize
  <2>1. Len(q) \in Nat OBVIOUS
  <2>2. ASSUME q # << >> PROVE /\ Tail(q) \in Seq(Buffers) /\ Len(Tail(q)) = Len(q) - 1
                               /\ Head(q) \in Buffers
    BY <2>2
  <2>3. \A e \in Buffers : Append(q, e) \in Seq(Buffers) /\ Len(Append(q, e)) = Len(q) + 1 OBVIOUS
  <2> QED BY <1>2, <1>3, <2>1, <2>2, <2>3
<1>4. ASSUME empty' = << >> /\ full' = << >> /\ active' = None /\ hand' = hand PROVE StoreOK'
  <2>1. << >> \in Seq(Buffers) /\ Len(<< >>) = 0 OBVIOUS
  <2> QED BY <1>2, <1>4, <2>1 DEF StoreOK
<1>5. CASE Take
  <2>1. /\ empty # << >> /\ active' = Head(empty) /\ empty' = Tail(empty)
        /\ UNCHANGED <<full, hand>>
    BY <1>5 DEF Take
  <2> QED BY <1>3, <2>1 DEF StoreOK
<1>6. CASE Fill
  <2>1. /\ active # None /\ Len(full) < FifoSize /\ full' = Append(full, active) /\ active' = None
        /\ UNCHANGED <<empty, hand>>
    BY <1>6 DEF Fill
  <2> QED BY <1>3, <2>1 DEF StoreOK
<1>7. CASE Construct
  <2>1. /\ empty' = SetToSeq(Buffers) /\ full' = << >> /\ active' = None /\ hand' = None
    BY <1>7 DEF Construct
  <2>2. empty' \in Seq(Buffers) /\ Len(empty') <= FifoSize BY <2>1, AllBuffers, CaptureAssumption
  <2>3. << >> \in Seq(Buffers) /\ Len(<< >>) = 0 OBVIOUS
  <2> QED BY <1>2, <2>1, <2>2, <2>3 DEF StoreOK
<1>8. CASE Out
  <2>1. /\ UNCHANGED <<empty, active>>
        /\ \/ full # << >> /\ hand' = Head(full) /\ full' = Tail(full)
           \/ UNCHANGED <<hand, full>>
    BY <1>8 DEF Out
  <2> QED BY <1>3, <2>1 DEF StoreOK
<1>9. CASE Put
  <2>1. /\ hand # None /\ hand' = None /\ UNCHANGED <<full, active>>
        /\ empty' = IF Len(empty) < FifoSize THEN Append(empty, hand) ELSE empty
    BY <1>9 DEF Put, WorkerAt, PlaceInv
  <2> QED BY <1>3, <2>1 DEF StoreOK
<1>10. CASE Stop
  <2>1. hand' = hand BY <1>10 DEF Stop
  <2> QED BY <1>1, <1>4, <1>10, <2>1 DEF Stop, buffervars
<1>11. ASSUME NEW at \in {"switches", "touch"}, NewImage(at) PROVE StoreOK'
  BY <1>4, <1>11 DEF NewImage
<1>12. CASE \/ Ring \/ Report \/ IsrWake \/ IsrClear \/ Exchange \/ Loop \/ Sleep \/ Write
            \/ Leave \/ Post \/ Round \/ HandleDone \/ SendEnd \/ Join \/ Advance("local")
  BY <1>1, <1>12 DEF Ring, Report, IsrWake, IsrClear, Exchange, Loop, Sleep, Write, Leave, Post,
     Round, HandleDone, stop, SendEnd, Join, Advance
<1>13. ASSUME NEW at \in {"switches", "touch"}, Advance(at) \/ UserStops(at) \/ start(at) \/ Send(at)
       PROVE  StoreOK'
  BY <1>1, <1>13 DEF Advance, UserStops, stop, start, Send
<1>14. CASE UNCHANGED vars BY <1>1, <1>14 DEF vars
<1> QED BY <1>5, <1>6, <1>7, <1>8, <1>9, <1>10, <1>11, <1>12, <1>13, <1>14
        DEF Next, M4Step, Worker, EventLoop

(* The lengths of the local queue.                                         *)
LEMMA Lengths ==
    ASSUME NEW q \in Seq({"own", "stale"})
    PROVE  /\ Len(q) \in Nat /\ (q = << >> <=> Len(q) = 0)
           /\ Len(Append(q, "own")) = Len(q) + 1
           /\ q # << >> => Len(Tail(q)) = Len(q) - 1
           /\ Len([i \in DOMAIN q |-> "stale"]) = Len(q)
<1>1. Len(q) \in Nat /\ DOMAIN q = 1 .. Len(q) OBVIOUS
<1>2. Len([i \in 1 .. Len(q) |-> "stale"]) = Len(q) BY <1>1
<1>3. q # << >> => Len(Tail(q)) = Len(q) - 1 OBVIOUS
<1>4. Len(Append(q, "own")) = Len(q) + 1 OBVIOUS
<1>5. q = << >> <=> Len(q) = 0 OBVIOUS
<1> QED BY <1>1, <1>2, <1>3, <1>4, <1>5

(* Every step keeps the local queue short.                                 *)
LEMMA PostStep ==
    ASSUME LifeInv, DoneInv, PostInv, ControlOK, [Next]_vars
    PROVE  PostInv'
<1> USE DEF buffervars, m4vars, isrvars, uivars
<1> DEFINE Settled == ui \in {"switches", "touch"} \/ (ui \in {"send", "join"} /\ next = "touch")
           Running == worker \notin {"none", "ended"}
<1>0. Len(done) \in Nat /\ (done = << >> <=> Len(done) = 0) BY Lengths DEF DoneInv
<1>1. Posts = IF Running THEN Len(done) + 1 ELSE Len(done) BY <1>0 DEF Posts
<1>2. ASSUME UNCHANGED <<done, session>>, Running' <=> Running, Settled' => Settled,
             ui' = "switches" => ui = "switches"
      PROVE  PostInv'
  <2>1. Posts' = Posts BY <1>2 DEF Posts
  <2> QED BY <1>2, <2>1 DEF PostInv
<1>3. CASE M4Step \/ IsrClear
  BY <1>2, <1>3 DEF M4Step, Take, Fill, Ring, Report, IsrClear
<1>4. CASE IsrWake
  <2>1. UNCHANGED <<done, uivars>> /\ (worker' = worker \/ (worker = "sleep" /\ worker' = "out"))
    BY <1>4 DEF IsrWake
  <2> QED BY <1>2, <2>1
<1>5. CASE Construct \/ Exchange \/ Loop \/ Out \/ Sleep \/ Write \/ Put \/ Leave \/ Stop
  <2>1. UNCHANGED <<done, uivars>> /\ Running /\ Running'
    BY <1>5 DEF Construct, Exchange, Loop, Out, Sleep, Write, Put, Leave, Stop, WorkerAt
  <2> QED BY <1>2, <2>1
<1>6. CASE Post
  <2>1. worker = "post" /\ worker' = "ended" /\ done' = Append(done, "own") /\ UNCHANGED uivars
    BY <1>6 DEF Post, WorkerAt
  <2>2. Len(done') = Len(done) + 1 BY <2>1, Lengths DEF DoneInv
  <2>3. Posts' = Posts BY <1>0, <2>1, <2>2 DEF Posts
  <2>4. session BY <2>1 DEF LifeInv
  <2> QED BY <2>1, <2>3, <2>4 DEF PostInv
<1>7. CASE Round \/ SendEnd
  <2>1. /\ UNCHANGED <<done, session, worker>>
        /\ ui' = "local" \/ (ui = "send" /\ ui' = next)
    BY <1>7 DEF Round, SendEnd, UiAt
  <2>2. next' = next /\ next # "switches" BY <1>7 DEF Round, SendEnd, ControlOK
  <2>3. (Settled' => Settled) /\ ui' # "switches" BY <2>1, <2>2
  <2> QED BY <1>2, <2>1, <2>3
<1>8. CASE HandleDone
  <2>1. /\ done # << >> /\ done' = Tail(done) /\ UNCHANGED <<session, worker>>
        /\ ui' = "local" \/ (ui' = "join" /\ next' = "local")
    BY <1>8 DEF HandleDone, stop, UiAt
  <2>2. Len(done') = Len(done) - 1 BY <2>1, Lengths DEF DoneInv
  <2>3. Posts' <= 2 BY <1>0, <2>1, <2>2 DEF Posts, PostInv
  <2> QED BY <2>1, <2>3 DEF PostInv
<1>9. CASE Join
  <2>1. /\ worker = "ended" /\ worker' = "none" /\ done' = [i \in DOMAIN done |-> "stale"]
        /\ ui = "join" /\ ui' = next /\ UNCHANGED next
    BY <1>9 DEF Join, UiAt
  <2>2. Len(done') = Len(done) BY <2>1, Lengths DEF DoneInv
  <2>3. Posts' = Posts BY <2>1, <2>2 DEF Posts
  <2>4. (Settled' => Settled) /\ ui' # "switches" BY <2>1 DEF ControlOK
  <2> QED BY <2>3, <2>4 DEF PostInv
<1>10. CASE Advance("local")
  <2>1. done = << >> /\ UNCHANGED <<done, session, worker>> BY <1>10 DEF Advance
  <2>2. Posts' \in 0 .. 1 BY <1>0, <2>1 DEF Posts
  <2>3. Posts' <= 1 /\ Posts' <= 2 BY <2>2
  <2> QED BY <2>1, <2>3 DEF PostInv
<1> SUFFICES ASSUME NEW at \in {"switches", "touch"},
                    Advance(at) \/ UserStops(at) \/ start(at) \/ Send(at) \/ NewImage(at)
             PROVE  PostInv'
  BY <1>2, <1>3, <1>4, <1>5, <1>6, <1>7, <1>8, <1>9, <1>10 DEF Next, Worker, EventLoop, vars
<1>11. Following["switches"] = "touch" /\ Following["touch"] = "wait" BY DEF Following
<1>12. CASE Advance(at) \/ UserStops(at) \/ Send(at) \/ NewImage(at)
  <2>1. /\ UNCHANGED <<done, session, worker>> /\ ui = at
        /\ ui' \in {"touch", "wait", "join", "send"}
    BY <1>11, <1>12 DEF Advance, UserStops, stop, Send, NewImage, UiAt
  <2> QED BY <1>2, <2>1
<1>13. CASE start(at)
  <2>1. /\ ~session /\ session' /\ worker' = "construct" /\ ui = at /\ ui' = Following[at]
        /\ UNCHANGED done
    BY <1>13 DEF start, UiAt
  <2>2. ~Running BY <2>1 DEF LifeInv
  <2>3. Posts' = Len(done) + 1 BY <1>0, <2>1 DEF Posts
  <2>4. Len(done) <= 1 /\ (at = "switches" => Len(done) = 0) BY <1>0, <1>1, <2>1, <2>2 DEF PostInv
  <2> QED BY <1>0, <1>11, <2>1, <2>3, <2>4 DEF PostInv
<1> QED BY <1>12, <1>13

(* Every step keeps the types of what is left.                             *)
LEMMA ControlStep ==
    ASSUME ControlOK, [Next]_vars
    PROVE  ControlOK'
<1> USE DEF buffervars, m4vars, isrvars, uivars, ControlOK, Streaming
<1>1. WindowFills \in Nat /\ window \in 0 .. WindowFills BY CaptureAssumption
<1>2. CASE Take \/ Ring \/ Report
  <2>1. /\ m4' \in {"execute", "ring"} /\ line' \in BOOLEAN
        /\ UNCHANGED <<stream, isr, window, exchange, worker, terminate, uivars, lost>>
    BY <1>2 DEF Take, Ring, Report
  <2> QED BY <2>1
<1>3. CASE Fill
  <2>1. window' \in 0 .. WindowFills BY <1>1, <1>3 DEF Fill
  <2>2. m4' = "ring" /\ UNCHANGED <<stream, line, isr, exchange, worker, terminate, uivars, lost>>
    BY <1>3 DEF Fill
  <2> QED BY <2>1, <2>2
<1>4. CASE IsrWake BY <1>4 DEF IsrWake
<1>5. CASE IsrClear
  <2>1. line' = FALSE /\ (window' = window \/ window' = 0) BY <1>5 DEF IsrClear
  <2>2. isr' = "none" /\ UNCHANGED <<m4vars, exchange, worker, terminate, uivars, lost>>
    BY <1>5 DEF IsrClear
  <2>3. line' \in BOOLEAN BY <2>1
  <2>4. 0 \in 0 .. WindowFills BY <1>1
  <2>5. window' \in 0 .. WindowFills BY <1>1, <2>1, <2>4
  <2> QED BY <2>2, <2>3, <2>5
<1>6. CASE Construct \/ Exchange \/ Leave \/ Stop
  <2>1. stream' \in {"none", "current", "orphan"} /\ exchange' \in BOOLEAN /\ lost' \in BOOLEAN
    BY <1>6 DEF Construct, Exchange, Leave, Stop
  <2>2. worker' \in {"exchange", "loop", "stop", "post"} /\ UNCHANGED <<m4, isrvars, terminate, uivars>>
    BY <1>6 DEF Construct, Exchange, Leave, Stop, WorkerAt
  <2> QED BY <2>1, <2>2
<1>7. CASE Loop \/ Out \/ Write \/ Put \/ Post
  <2>1. /\ worker' \in {"leave", "out", "writing", "nothing", "put", "loop", "ended"}
        /\ UNCHANGED <<m4vars, isrvars, exchange, terminate, uivars, lost>>
    BY <1>7 DEF Loop, Out, Write, Put, Post, WorkerAt
  <2> QED BY <2>1
<1>8. CASE Sleep
  <2>1. /\ worker' = "sleep" /\ window' = 0
        /\ UNCHANGED <<m4vars, line, isr, exchange, terminate, uivars, lost>>
    BY <1>8 DEF Sleep, WorkerAt
  <2> QED BY <1>1, <2>1
<1>9. CASE Round
  <2>1. /\ ui' = "local" /\ freed' = FALSE
        /\ UNCHANGED <<m4vars, isrvars, exchange, worker, terminate, next, quick, lost>>
    BY <1>9 DEF Round, UiAt
  <2>2. freed' \in BOOLEAN BY <2>1
  <2>3. UNCHANGED <<stream, m4, line, isr, window, exchange, worker, terminate, next, quick, lost>>
    BY <2>1
  <2> QED BY <2>1, <2>2, <2>3
<1>10. CASE HandleDone
  <2>1. /\ terminate' \in BOOLEAN /\ ui' \in {"local", "join"} /\ (next' = next \/ next' = "local")
        /\ UNCHANGED <<m4vars, isrvars, exchange, worker, freed, quick, lost>>
    BY <1>10 DEF HandleDone, stop, UiAt
  <2> QED BY <2>1
<1>11. CASE SendEnd
  <2>1. ui' = next /\ UNCHANGED <<m4vars, isrvars, exchange, worker, terminate, next, freed, quick, lost>>
    BY <1>11 DEF SendEnd, UiAt
  <2> QED BY <2>1
<1>12. CASE Join
  <2>1. /\ ui' = next /\ worker' = "none" /\ freed' = TRUE
        /\ UNCHANGED <<m4, isrvars, exchange, terminate, next, quick, lost>>
    BY <1>12 DEF Join, UiAt
  <2>2. stream' \in {"none", "current", "orphan"} BY <1>12 DEF Join
  <2> QED BY <2>1, <2>2
<1>13. /\ Following["local"] = "switches" /\ Following["switches"] = "touch"
       /\ Following["touch"] = "wait"
  BY DEF Following
<1>14. ASSUME NEW at \in {"local", "switches", "touch"}, Advance(at) PROVE ControlOK'
  <2>1. ui' = Following[at] /\ UNCHANGED <<m4vars, isrvars, exchange, worker, terminate, next, freed, quick, lost>>
    BY <1>14 DEF Advance, UiAt
  <2> QED BY <1>13, <2>1
<1>15. ASSUME NEW at \in {"switches", "touch"}, UserStops(at) \/ Send(at) PROVE ControlOK'
  <2>1. /\ ui' \in {"join", "send"} /\ next' = Following[at] /\ terminate' \in BOOLEAN
        /\ UNCHANGED <<m4vars, isrvars, exchange, worker, freed, quick, lost>>
    BY <1>15 DEF UserStops, stop, Send, UiAt
  <2> QED BY <1>13, <2>1
<1>16. ASSUME NEW at \in {"switches", "touch"}, start(at) PROVE ControlOK'
  <2>1. /\ ui' = Following[at] /\ worker' = "construct" /\ terminate' = FALSE /\ quick' = freed
        /\ UNCHANGED <<m4vars, isrvars, exchange, next, freed, lost>>
    BY <1>16 DEF start, UiAt
  <2> QED BY <1>13, <2>1
<1>17. ASSUME NEW at \in {"switches", "touch"}, NewImage(at) PROVE ControlOK'
  <2>1. /\ ui' = Following[at] /\ stream' = "none" /\ line' = FALSE /\ lost' = FALSE
        /\ UNCHANGED <<m4, isr, window, exchange, worker, terminate, next, freed, quick>>
    BY <1>17 DEF NewImage, UiAt
  <2>2. ui' \in {"wait", "touch"} BY <1>13, <1>17, <2>1
  <2>3. stream' = "none" /\ line' \in BOOLEAN /\ lost' \in BOOLEAN BY <2>1
  <2>4. /\ m4' = m4 /\ isr' = isr /\ window' = window /\ exchange' = exchange /\ worker' = worker
        /\ terminate' = terminate /\ next' = next /\ freed' = freed /\ quick' = quick
    BY <2>1
  <2> QED BY <2>2, <2>3, <2>4
<1>18. CASE UNCHANGED vars BY <1>18 DEF vars
<1> QED BY <1>2, <1>3, <1>4, <1>5, <1>6, <1>7, <1>8, <1>9, <1>10, <1>11, <1>12, <1>14, <1>15, <1>16,
           <1>17, <1>18
        DEF Next, M4Step, Worker, EventLoop

(* Counted, a buffer is in a FIFO of distinct ones once or not at all.     *)
LEMMA CountOnce ==
    ASSUME NEW q \in Seq(Buffers), IsInjective(q), NEW b
    PROVE  Cardinality({i \in DOMAIN q : q[i] = b}) = IF Has(q, b) THEN 1 ELSE 0
<1> DEFINE S == {i \in DOMAIN q : q[i] = b}
<1>1. CASE Has(q, b)
  <2>1. PICK k \in DOMAIN q : q[k] = b BY <1>1 DEF Has
  <2>2. S = {k} BY <2>1 DEF IsInjective
  <2> QED BY <1>1, <2>2, FS_Singleton
<1>2. CASE ~Has(q, b)
  <2>1. S = {} BY <1>2 DEF Has
  <2> QED BY <1>2, <2>1, FS_EmptySet
<1> QED BY <1>1, <1>2

(* Counted, every buffer is in one place.                                  *)
LEMMA CountPlaces ==
    ASSUME Placed, NEW b \in Buffers
    PROVE  Cardinality({i \in DOMAIN empty : empty[i] = b})
             + Cardinality({i \in DOMAIN full : full[i] = b})
             + Cardinality({p \in {"active", "hand"} :
                               (p = "active" /\ active = b) \/ (p = "hand" /\ hand = b)}) = 1
<1> DEFINE P == {p \in {"active", "hand"} :
                    (p = "active" /\ active = b) \/ (p = "hand" /\ hand = b)}
<1>1. Cardinality({i \in DOMAIN empty : empty[i] = b}) = IF Has(empty, b) THEN 1 ELSE 0
  BY CountOnce DEF Placed
<1>2. Cardinality({i \in DOMAIN full : full[i] = b}) = IF Has(full, b) THEN 1 ELSE 0
  BY CountOnce DEF Placed
<1>3. Cardinality(P) = IF active = b \/ hand = b THEN 1 ELSE 0
  <2>1. CASE active = b
    <3>1. hand # b BY <2>1 DEF Placed
    <3>2. P = {"active"} BY <2>1, <3>1
    <3> QED BY <2>1, <3>2, FS_Singleton
  <2>2. CASE active # b /\ hand = b
    <3>1. P = {"hand"} BY <2>2
    <3> QED BY <2>2, <3>1, FS_Singleton
  <2>3. CASE active # b /\ hand # b
    <3>1. P = {} BY <2>3
    <3> QED BY <2>3, <3>1, FS_EmptySet
  <2> QED BY <2>1, <2>2, <2>3
<1> HIDE DEF P
<1>4. /\ Has(empty, b) \/ Has(full, b) \/ active = b \/ hand = b
      /\ Has(empty, b) => ~Has(full, b) /\ active # b /\ hand # b
      /\ Has(full, b) => active # b /\ hand # b
  BY DEF Placed
<1>5. Cardinality({i \in DOMAIN empty : empty[i] = b})
        + Cardinality({i \in DOMAIN full : full[i] = b}) + Cardinality(P) = 1
  BY <1>1, <1>2, <1>3, <1>4
<1> QED BY <1>5 DEF P

-----------------------------------------------------------------------------
(* Life times, messages and buffers, in every state of the program.        *)
LEMMA Invariance == Spec => []IInv
<1>1. Init => IInv
  <2> SUFFICES ASSUME Init PROVE IInv OBVIOUS
  <2>1. LifeInv BY DEF Init, LifeInv, Streaming
  <2>2. done = << >> /\ session = FALSE BY DEF Init
  <2>3. ~Stale /\ done \in Seq({"own", "stale"}) BY <2>2 DEF Stale
  <2>4. PlaceInv BY DEF Init, PlaceInv
  <2>5. StoreOK
    <3>1. << >> \in Seq(Buffers) /\ Len(<< >>) = 0 OBVIOUS
    <3> QED BY <3>1, CaptureAssumption DEF Init, StoreOK
  <2>6. PostInv
    <3>1. Len(done) = 0 BY <2>2
    <3>2. Posts = 0 BY <3>1 DEF Init, Posts
    <3> QED BY <2>2, <3>2 DEF Init, PostInv
  <2>7. ControlOK
    <3>1. 0 \in 0 .. WindowFills BY CaptureAssumption
    <3> QED BY <3>1 DEF Init, ControlOK, Streaming
  <2> QED BY <2>1, <2>2, <2>3, <2>4, <2>5, <2>6, <2>7 DEF IInv, DoneInv
<1>2. IInv /\ [Next]_vars => IInv'
  BY LifeStep, DoneStep, PlaceStep, StoreStep, PostStep, ControlStep DEF IInv
<1> QED BY <1>1, <1>2, PTL DEF Spec

(* Every variable keeps its type: the FIFOs never hold more buffers than   *)
(* they have room for, the thread writes a buffer only when it has one,    *)
(* and no more than two Done messages are in the local queue.              *)
THEOREM TypeCorrect == Spec => []TypeOK
<1>1. IInv => TypeOK
  <2> SUFFICES ASSUME IInv PROVE TypeOK OBVIOUS
  <2>1. Len(done) <= 2 /\ done \in Seq({"own", "stale"})
    <3>1. done \in Seq({"own", "stale"}) /\ Posts <= 2 BY DEF IInv, DoneInv, PostInv
    <3>2. Len(done) \in Nat BY <3>1
    <3> QED BY <3>1, <3>2 DEF Posts
  <2>2. StoreOK /\ ControlOK /\ session \in BOOLEAN BY DEF IInv, LifeInv
  <2>3. worker \in {"writing", "put"} => hand # None BY DEF IInv, PlaceInv
  <2> QED BY <2>1, <2>2, <2>3 DEF StoreOK, ControlOK, Streaming, TypeOK
<1> QED BY <1>1, Invariance, PTL

(* While a recording runs no buffer is lost, doubled or in two hands.      *)
THEOREM BuffersConserved == Spec => []Conservation
<1>1. IInv => Conservation BY CountPlaces DEF IInv, PlaceInv, Conservation
<1> QED BY <1>1, Invariance, PTL

(* M4Core_IRQHandler finds a live StreamInput behind BufferExchange::obj,  *)
(* whichever of its FIFOs it looks into.                                   *)
THEOREM HandlerOnLiveStream == Spec => []ExchangeOnLiveStream
<1>1. IInv => ExchangeOnLiveStream BY DEF IInv, LifeInv, ExchangeOnLiveStream
<1> QED BY <1>1, Invariance, PTL

(* The only way to a CaptureConfig that is gone before its stream is the   *)
(* capture_stop() that the mailbox has lost.                               *)
THEOREM ConfigLostWithStopOnly == Spec => []ConfigOutlivesStream
<1>1. IInv => ConfigOutlivesStream BY DEF IInv, LifeInv, ConfigOutlivesStream
<1> QED BY <1>1, Invariance, PTL

(* handle_capture_thread_done() stops the recording the message is about,  *)
(* or one started in the round of the event loop that ended that one.      *)
THEOREM DoneStopsItsOwn == Spec => DoneEndsItsSession
<1> DEFINE A == ui = "local" /\ ui' = "join" /\ Head(done) = "stale" => quick
<1>1. IInv /\ [Next]_vars => A
  <2> SUFFICES ASSUME IInv, [Next]_vars, ui = "local", ui' = "join", Head(done) = "stale"
               PROVE  quick
    OBVIOUS
  <2>1. HandleDone
    <3> USE DEF buffervars, m4vars, isrvars, uivars
    <3>1. ui' # ui OBVIOUS
    <3>2. ~(M4Step \/ IsrWake \/ IsrClear \/ UNCHANGED vars)
      BY <3>1 DEF M4Step, Take, Fill, Ring, Report, IsrWake, IsrClear, vars
    <3>3. ~Worker
      BY <3>1 DEF Worker, Construct, Exchange, Loop, Out, Sleep, Write, Put, Leave, Stop, Post
    <3>4. ~(Round \/ SendEnd \/ Join \/ Advance("local"))
      BY DEF Round, SendEnd, Join, Advance, UiAt, Following
    <3>5. \A at \in {"switches", "touch"} :
             ~(Advance(at) \/ UserStops(at) \/ start(at) \/ Send(at) \/ NewImage(at))
      BY DEF Advance, UserStops, stop, start, Send, NewImage, UiAt
    <3> QED BY <3>2, <3>3, <3>4, <3>5 DEF Next, EventLoop
  <2>2. done # << >> /\ session BY <2>1 DEF HandleDone, stop, UiAt
  <2>3. Stale BY <2>2, Taken DEF IInv, DoneInv, Stale
  <2> QED BY <2>2, <2>3 DEF IInv, DoneInv
<1>2. [][Next]_vars /\ []IInv => [][A]_vars BY <1>1, PTL
<1>3. Spec => [][A]_vars BY <1>2, Invariance, PTL DEF Spec
<1> QED BY <1>3 DEF DoneEndsItsSession
=============================================================================

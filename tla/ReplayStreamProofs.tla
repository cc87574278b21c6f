------------------------- MODULE ReplayStreamProofs -------------------------
(***************************************************************************)
(* What a replay plays, when it ends, whom the event loop waits for, which *)
(* Done message it obeys, and when the radio transmits, for any number of  *)
(* buffers and any files.                                                  *)
(***************************************************************************)
EXTENDS ReplayStream, FiniteSetTheorems, TLAPS

Message == [code : {"TERMINATED", "READ_ERROR", "END_OF_FILE"}, stale : BOOLEAN]

(* The thread waits for a signal that is still to come.                    *)
Unsignalled == worker \in {"exchange", "poll"} /\ ~ready /\ ~dropped

(* The RequestSignal is on its way as long as the thread waits for it: its *)
(* ring interrupts before the event loop goes on, and a round of the loop  *)
(* does not get past the application queue while it is in there.           *)
SignalInv ==
    /\ ready \in BOOLEAN
    /\ worker = "construct" => young
    /\ Unsignalled => signal \in {"queued", "flagged"}
    /\ signal = "queued" => line /\ isr = "none"
    /\ Unsignalled /\ ~young => ui \in {"wait", "application"}

Stale == \E i \in DOMAIN done : done[i].stale

(* Past the local queue in a round of the event loop, or between rounds.   *)
PastLocal == \/ ui \in {"wait", "switches", "touch"}
             \/ ui = "join" /\ call.to # "local"

(* A Done message that has outlived its session is of this round, or of    *)
(* the last one while the local queue is still to be handled.              *)
DoneInv ==
    /\ code \in {"TERMINATED", "READ_ERROR", "END_OF_FILE"}
    /\ done \in Seq(Message)
    /\ freed \in 0 .. 2
    /\ Stale => freed > 0
    /\ Stale /\ PastLocal => freed = 2

Has(q, b) == \E i \in DOMAIN q : q[i] = b

(* A buffer is in one place at a time, in a FIFO once, and the thread has  *)
(* one while it reads.                                                     *)
PlaceInv ==
    /\ empty \in Seq(Buffers) /\ IsInjective(empty)
    /\ full \in Seq(Buffers) /\ IsInjective(full)
    /\ active \in Buffers \cup {None} /\ hand \in Buffers \cup {None}
    /\ \A b \in Buffers :
          /\ Has(empty, b) => ~Has(full, b) /\ active # b /\ hand # b
          /\ Has(full, b) => active # b /\ hand # b
          /\ active = b => hand # b
    /\ worker \in {"filling", "reading"} => hand # None
    /\ Len(empty) <= FifoSize /\ Len(full) <= FifoSize

(* The buffers on their way to the antenna, and the blocks of the file the *)
(* M4 has been given when it has played these.                             *)
Ahead == IF active = None THEN 0 ELSE 1
Given == played + 2 * (Len(full) + Ahead)

(* A buffer's blocks are the f blocks of the file from n + 1 on.           *)
Holds(blocks, n, f) == \A i \in 1 .. 2 : blocks[i] = n + i \/ n + i > f

(* The thread has no stream; it has not opened a file.                     *)
Without == {"none", "construct", "post", "ended"}
Outside == {"none", "post", "ended"}

(* The M4 has a stream only between replay_start() and replay_stop(), and  *)
(* the buffers in it hold what follows on what has been played, up to      *)
(* where the file has been read.                                           *)
FlowInv ==
    /\ file \in FileSizes /\ pos \in 0 .. file /\ played \in Nat
    /\ data \in [Buffers -> [1 .. 2 -> Nat]]
    /\ worker \in Without => full = << >> /\ active = None
    /\ worker \notin Outside => pos = IF Given < file THEN Given ELSE file
    /\ active # None => Holds(data[active], played, file)
    /\ \A j \in DOMAIN full : Holds(data[full[j]], played + 2 * (j - 1 + Ahead), file)

(* At the end of the file run() returns with a buffer in hand.             *)
ReturnInv ==
    code = "END_OF_FILE" /\ worker = "leave" => pos = file /\ hand # None

(* The Done messages that were in the local queue have been taken, or one  *)
(* of them is being handled.                                               *)
Settled == PastLocal \/ ui = "join"

(* A session that is not over yet posts a Done message of its own; one     *)
(* that was started in this round cannot get to that before the next.      *)
PostInv ==
    /\ session <=> worker # "none"
    /\ young => ui # "application"
    /\ young /\ worker \notin {"none", "ended"} =>
          ~ready /\ worker \in {"construct", "exchange", "poll"}
    /\ Len(done) <= 2
    /\ worker \notin {"none", "ended"} => Len(done) <= 1
    /\ Settled => Len(done) <= 1
    /\ Settled /\ worker \notin {"none", "ended"} /\ ~young => Len(done) = 0
    /\ ui = "join" => session
    /\ call \in [to : {"local", "touch", "wait"}, do_loop : BOOLEAN]

(* Flags and places take the values they are meant to.                     *)
ControlOK ==
    /\ configured \in BOOLEAN /\ m4 \in {"execute", "ring"}
    /\ line \in BOOLEAN /\ isr \in {"none", "checked"} /\ window \in 0 .. WindowPlays
    /\ signal \in {"none", "queued", "flagged"} /\ ready \in BOOLEAN
    /\ exchange \in BOOLEAN /\ terminate \in BOOLEAN
    /\ worker \in {"none", "construct", "exchange", "poll", "prefill", "filling", "loop",
                   "out", "nothing", "sleep", "reading", "leave", "stop", "post", "ended"}
    /\ session \in BOOLEAN /\ radio \in BOOLEAN
    /\ ui \in {"wait", "application", "local", "switches", "touch", "join"}
    /\ dropped \in BOOLEAN /\ young \in BOOLEAN /\ failed \in BOOLEAN

IInv ==
    /\ SignalInv /\ DoneInv /\ RadioOnlyInSession
    /\ PlaceInv /\ FlowInv /\ ReturnInv /\ PostInv /\ ControlOK

-----------------------------------------------------------------------------
(* A message added at the end leaves the others where they are.            *)
LEMMA Posted ==
    ASSUME NEW q \in Seq(Message), NEW e \in Message
    PROVE  /\ Append(q, e) \in Seq(Message)
           /\ \A i \in DOMAIN Append(q, e) :
                 Append(q, e)[i] = e \/ (i \in DOMAIN q /\ Append(q, e)[i] = q[i])
<1> DEFINE r == Append(q, e)
<1>1. r \in Seq(Message) /\ Len(r) = Len(q) + 1 /\ Len(q) \in Nat OBVIOUS
<1>2. \A i \in 1 .. Len(q) + 1 : r[i] = IF i = Len(q) + 1 THEN e ELSE q[i] OBVIOUS
<1>3. DOMAIN q = 1 .. Len(q) OBVIOUS
<1> HIDE DEF r
<1>4. DOMAIN r = 1 .. Len(q) + 1 BY <1>1
<1>5. \A i \in DOMAIN r : r[i] = e \/ (i \in DOMAIN q /\ r[i] = q[i])
  BY <1>1, <1>2, <1>3, <1>4
<1> QED BY <1>1, <1>5 DEF r

(* The messages left after one has been taken were there before.           *)
LEMMA Taken ==
    ASSUME NEW q \in Seq(Message), q # << >>
    PROVE  /\ Tail(q) \in Seq(Message)
           /\ \A i \in DOMAIN Tail(q) : i + 1 \in DOMAIN q /\ Tail(q)[i] = q[i + 1]
           /\ 1 \in DOMAIN q /\ Head(q) = q[1]
<1> DEFINE r == Tail(q)
<1>1. r \in Seq(Message) /\ Len(r) = Len(q) - 1 /\ Len(q) \in Nat \ {0} OBVIOUS
<1>2. \A i \in 1 .. Len(q) - 1 : r[i] = q[i + 1] OBVIOUS
<1>3. DOMAIN q = 1 .. Len(q) /\ Head(q) = q[1] OBVIOUS
<1> HIDE DEF r
<1>4. DOMAIN r = 1 .. Len(q) - 1 BY <1>1
<1>5. /\ r \in Seq(Message)
      /\ \A i \in DOMAIN r : i + 1 \in DOMAIN q /\ r[i] = q[i + 1]
      /\ 1 \in DOMAIN q /\ Head(q) = q[1]
  BY <1>1, <1>2, <1>3, <1>4
<1> QED BY <1>5 DEF r

(* Messages that have become stale are messages.                           *)
LEMMA Outlived ==
    ASSUME NEW q \in Seq(Message)
    PROVE  [i \in DOMAIN q |-> [q[i] EXCEPT !.stale = TRUE]] \in Seq(Message)
<1>1. Len(q) \in Nat /\ DOMAIN q = 1 .. Len(q) OBVIOUS
<1>2. \A i \in 1 .. Len(q) : q[i] \in Message BY <1>1
<1>3. \A i \in 1 .. Len(q) : [q[i] EXCEPT !.stale = TRUE] \in Message BY <1>2 DEF Message
<1>4. [i \in 1 .. Len(q) |-> [q[i] EXCEPT !.stale = TRUE]] \in Seq(Message) BY <1>1, <1>3
<1> QED BY <1>1, <1>4

-----------------------------------------------------------------------------
(* Every step keeps the signal ahead of a stop() that waits.               *)
LEMMA SignalStep ==
    ASSUME SignalInv, [Next]_vars
    PROVE  SignalInv'
<1> USE DEF mem, m4vars, isrvars, thread, history, view, SignalInv, Unsignalled
<1>1. CASE M4Step BY <1>1 DEF M4Step, Take, Play, Ring, Report
<1>2. CASE IsrWake BY <1>2 DEF IsrWake
<1>3. CASE IsrClear BY <1>3 DEF IsrClear
<1>4. CASE Construct BY <1>4 DEF Construct, WorkerAt
<1>5. CASE Exchange BY <1>5 DEF Exchange, WorkerAt
<1>6. CASE Poll BY <1>6 DEF Poll, WorkerAt
<1>7. CASE Prefill BY <1>7 DEF Prefill, WorkerAt
<1>8. CASE Fill BY <1>8 DEF Fill, WorkerAt, Return
<1>9. CASE Loop BY <1>9 DEF Loop, WorkerAt, Return
<1>10. CASE Out BY <1>10 DEF Out, WorkerAt
<1>11. CASE Sleep BY <1>11 DEF Sleep, WorkerAt
<1>12. CASE Read BY <1>12 DEF Read, WorkerAt, Return
<1>13. CASE Leave BY <1>13 DEF Leave, WorkerAt
<1>14. CASE Stop BY <1>14 DEF Stop, WorkerAt
<1>15. CASE Post BY <1>15 DEF Post, WorkerAt
<1>16. CASE Round BY <1>16 DEF Round, UiAt
<1>17. CASE HandleSignal BY <1>17 DEF HandleSignal, UiAt
<1>18. CASE HandleDone
  <2>1. CASE stop("local", "local", TRUE) \/ stop("local", "local", FALSE)
    BY <1>18, <2>1 DEF stop, UiAt
  <2> QED BY <1>18, <2>1 DEF HandleDone, stop, Stopped, Started, UiAt
<1>19. CASE Join BY <1>19 DEF Join, Stopped, Started, UiAt
<1>20. ASSUME NEW at \in DOMAIN Following, Advance(at) PROVE SignalInv'
  BY <1>20 DEF Advance, UiAt, Following
<1>21. ASSUME NEW at \in {"switches", "touch"}, UserStops(at) PROVE SignalInv'
  BY <1>21 DEF UserStops, stop, Stopped, UiAt, Following
<1>22. ASSUME NEW at \in {"switches", "touch"}, UserStarts(at) PROVE SignalInv'
  BY <1>22 DEF UserStarts, Started, UiAt
<1>23. CASE UNCHANGED vars BY <1>23 DEF vars
<1> QED BY <1>1, <1>2, <1>3, <1>4, <1>5, <1>6, <1>7, <1>8, <1>9, <1>10, <1>11, <1>12, <1>13,
           <1>14, <1>15, <1>16, <1>17, <1>18, <1>19, <1>20, <1>21, <1>22, <1>23
        DEF Next, Worker, EventLoop

-----------------------------------------------------------------------------
(* A step that neither posts, takes nor ages a message.                    *)
LEMMA QuietStep ==
    ASSUME DoneInv, UNCHANGED <<done, freed>>, PastLocal' => PastLocal,
           code' \in {"TERMINATED", "READ_ERROR", "END_OF_FILE"}
    PROVE  DoneInv'
  BY DEF DoneInv, Stale

(* Every step keeps stale messages young.                                  *)
LEMMA DoneStep ==
    ASSUME DoneInv, [Next]_vars
    PROVE  DoneInv'
<1> USE DEF mem, m4vars, isrvars, thread, history, view
<1> DEFINE Codes == {"TERMINATED", "READ_ERROR", "END_OF_FILE"}
           Quiet == UNCHANGED <<done, freed>> /\ (PastLocal' => PastLocal) /\ code' \in Codes
<1>1. ASSUME Quiet PROVE DoneInv' BY <1>1, QuietStep
<1>2. code \in Codes BY DEF DoneInv
<1>3. CASE M4Step \/ IsrWake \/ IsrClear
  <2>1. Quiet
    BY <1>2, <1>3 DEF M4Step, Take, Play, Ring, Report, IsrWake, IsrClear, PastLocal
  <2> QED BY <2>1, <1>1
<1>4. CASE \/ Construct \/ Exchange \/ Poll \/ Prefill \/ Fill \/ Loop \/ Out \/ Sleep
           \/ Read \/ Leave \/ Stop
  <2>1. UNCHANGED <<done, freed, ui, call>>
    BY <1>4 DEF Construct, Exchange, Poll, Prefill, Fill, Loop, Out, Sleep, Read, Leave, Stop
  <2>2. code' \in Codes
    BY <1>2, <1>4 DEF Construct, Exchange, Poll, Prefill, Fill, ReadAndPut, Return, Loop, Out,
                      Sleep, Read, Leave, Stop
  <2>3. Quiet BY <2>1, <2>2 DEF PastLocal
  <2> QED BY <2>3, <1>1
<1>5. CASE Post
  <2>1. /\ done' = Append(done, [code |-> code, stale |-> FALSE])
        /\ UNCHANGED <<code, freed, ui, call>>
    BY <1>5 DEF Post
  <2>2. [code |-> code, stale |-> FALSE] \in Message BY <1>2 DEF Message
  <2>3. done' \in Seq(Message) /\ (Stale' => Stale) BY <2>1, <2>2, Posted DEF DoneInv, Stale
  <2> QED BY <2>1, <2>3 DEF DoneInv, PastLocal
<1>6. CASE Round
  <2>1. ui = "wait" /\ ui' = "application" /\ UNCHANGED <<done, code>> BY <1>6 DEF Round, UiAt
  <2>2. (Stale => freed = 2) /\ freed' = IF freed = 0 THEN 0 ELSE freed - 1
    BY <1>6, <2>1 DEF Round, DoneInv, PastLocal
  <2> QED BY <2>1, <2>2 DEF DoneInv, Stale, PastLocal
<1>7. CASE HandleSignal
  <2>1. Quiet BY <1>2, <1>7 DEF HandleSignal, UiAt, PastLocal
  <2> QED BY <2>1, <1>1
<1>8. CASE HandleDone
  <2>1. done # << >> /\ done' = Tail(done) /\ UNCHANGED freed
    BY <1>8 DEF HandleDone, stop, Stopped, Started
  <2>2. code' \in Codes BY <1>2, <1>8 DEF HandleDone, stop, Stopped, Started
  <2>3. ui' = "local" \/ (ui' = "join" /\ call'.to = "local")
    BY <1>8 DEF HandleDone, stop, UiAt
  <2>4. done' \in Seq(Message) /\ (Stale' => Stale) BY <2>1, Taken DEF DoneInv, Stale
  <2> QED BY <2>1, <2>2, <2>3, <2>4 DEF DoneInv, PastLocal
<1>9. CASE Join
  <2>1. done' = [i \in DOMAIN done |-> [done[i] EXCEPT !.stale = TRUE]] /\ freed' = 2
    BY <1>9 DEF Join
  <2>2. code' \in Codes BY <1>2, <1>9 DEF Join, Stopped, Started
  <2>3. done' \in Seq(Message) BY <2>1, Outlived DEF DoneInv
  <2> QED BY <2>1, <2>2, <2>3 DEF DoneInv
<1>10. ASSUME NEW at \in DOMAIN Following, Advance(at) PROVE DoneInv'
  <2>1. ui = at /\ ui' = Following[at] /\ UNCHANGED <<done, freed, code>> BY <1>10 DEF Advance, UiAt
  <2>2. CASE at = "local"
    <3>1. done = << >> BY <1>10, <2>2 DEF Advance
    <3>2. ~Stale' BY <2>1, <3>1 DEF Stale
    <3> QED BY <2>1, <3>2 DEF DoneInv
  <2>3. CASE at # "local"
    <3>1. Quiet BY <1>2, <2>1, <2>3 DEF PastLocal, Following
    <3> QED BY <3>1, <1>1
  <2> QED BY <2>2, <2>3
<1>11. ASSUME NEW at \in {"switches", "touch"}, UserStops(at) \/ UserStarts(at) PROVE DoneInv'
  <2>1. ui = at /\ UNCHANGED <<done, freed>>
    BY <1>11 DEF UserStops, stop, UserStarts, Stopped, Started, UiAt
  <2>2. code' \in Codes BY <1>2, <1>11 DEF UserStops, stop, UserStarts, Stopped, Started
  <2>3. Quiet BY <2>1, <2>2 DEF PastLocal
  <2> QED BY <2>3, <1>1
<1>12. CASE UNCHANGED vars
  <2>1. Quiet BY <1>2, <1>12 DEF vars, PastLocal
  <2> QED BY <2>1, <1>1
<1> QED BY <1>3, <1>4, <1>5, <1>6, <1>7, <1>8, <1>9, <1>10, <1>11, <1>12
        DEF Next, Worker, EventLoop

-----------------------------------------------------------------------------
(* Every step keeps the radio off without a session.                       *)
LEMMA RadioStep ==
    ASSUME RadioOnlyInSession, [Next]_vars
    PROVE  RadioOnlyInSession'
<1> USE DEF mem, m4vars, isrvars, thread, history, view, RadioOnlyInSession
<1>1. CASE M4Step \/ IsrWake \/ IsrClear
  BY <1>1 DEF M4Step, Take, Play, Ring, Report, IsrWake, IsrClear
<1>2. CASE Worker
  BY <1>2 DEF Worker, Construct, Exchange, Poll, Prefill, Fill, Loop, Out, Sleep, Read, Leave,
              Stop, Post
<1>3. CASE Round \/ HandleSignal BY <1>3 DEF Round, HandleSignal
<1>4. CASE HandleDone BY <1>4 DEF HandleDone, stop, Stopped, Started
<1>5. CASE Join BY <1>5 DEF Join, Stopped, Started
<1>6. ASSUME NEW at \in DOMAIN Following, Advance(at) PROVE RadioOnlyInSession'
  BY <1>6 DEF Advance
<1>7. ASSUME NEW at \in {"switches", "touch"}, UserStops(at) \/ UserStarts(at)
      PROVE  RadioOnlyInSession'
  BY <1>7 DEF UserStops, stop, UserStarts, Stopped, Started
<1>8. CASE UNCHANGED vars BY <1>8 DEF vars
<1> QED BY <1>1, <1>2, <1>3, <1>4, <1>5, <1>6, <1>7, <1>8 DEF Next, EventLoop

-----------------------------------------------------------------------------
(* What is taken from a FIFO of distinct buffers is no longer in it.       *)
LEMMA TakenOnce ==
    ASSUME NEW q \in Seq(Buffers), q # << >>, IsInjective(q)
    PROVE  /\ Tail(q) \in Seq(Buffers) /\ IsInjective(Tail(q)) /\ Head(q) \in Buffers
           /\ \A b : Has(q, b) <=> b = Head(q) \/ Has(Tail(q), b)
           /\ ~Has(Tail(q), Head(q))
<1> DEFINE r == Tail(q)
           h == Head(q)
<1>1. r \in Seq(Buffers) /\ Len(r) = Len(q) - 1 /\ Len(q) \in Nat \ {0} OBVIOUS
<1>2. \A i \in 1 .. Len(q) - 1 : r[i] = q[i + 1] OBVIOUS
<1>3. DOMAIN q = 1 .. Len(q) /\ h = q[1] /\ h \in Buffers OBVIOUS
<1> HIDE DEF r, h
<1>4. DOMAIN r = 1 .. Len(q) - 1 BY <1>1
<1>5. \A i, j \in DOMAIN q : q[i] = q[j] => i = j BY DEF IsInjective
<1>6. ASSUME NEW i \in DOMAIN r, NEW j \in DOMAIN r, r[i] = r[j] PROVE i = j
  <2>1. i + 1 \in DOMAIN q /\ j + 1 \in DOMAIN q BY <1>1, <1>3, <1>4
  <2>2. q[i + 1] = q[j + 1] BY <1>2, <1>4, <1>6
  <2>3. i + 1 = j + 1 BY <1>5, <2>1, <2>2
  <2> QED BY <1>1, <1>4, <2>3
<1>7. ~Has(r, h)
  <2> SUFFICES ASSUME NEW i \in DOMAIN r, r[i] = h PROVE FALSE BY DEF Has
  <2>1. i + 1 \in DOMAIN q /\ 1 \in DOMAIN q /\ i + 1 # 1 BY <1>1, <1>3, <1>4
  <2>2. q[i + 1] = q[1] BY <1>2, <1>3, <1>4
  <2> QED BY <1>5, <2>1, <2>2
<1>8. ASSUME NEW b PROVE Has(q, b) <=> b = h \/ Has(r, b)
  <2>1. ASSUME Has(q, b), b # h PROVE Has(r, b)
    <3>1. PICK i \in DOMAIN q : q[i] = b BY <2>1 DEF Has
    <3>2. i # 1 BY <1>3, <2>1, <3>1
    <3>3. i - 1 \in DOMAIN r /\ i - 1 \in 1 .. Len(q) - 1 /\ (i - 1) + 1 = i
      BY <1>1, <1>3, <1>4, <3>2
    <3>4. r[i - 1] = b BY <1>2, <3>1, <3>3
    <3> QED BY <3>3, <3>4 DEF Has
  <2>2. ASSUME Has(r, b) PROVE Has(q, b)
    <3>1. PICK i \in DOMAIN r : r[i] = b BY <2>2 DEF Has
    <3>2. i + 1 \in DOMAIN q /\ q[i + 1] = b BY <1>1, <1>2, <1>3, <1>4, <3>1
    <3> QED BY <3>2 DEF Has
  <2>3. Has(q, h)
    <3>1. 1 \in DOMAIN q BY <1>1, <1>3
    <3> QED BY <1>3, <3>1 DEF Has
  <2> QED BY <2>1, <2>2, <2>3
<1>9. IsInjective(r) BY <1>6 DEF IsInjective
<1> QED BY <1>1, <1>3, <1>7, <1>8, <1>9 DEF r, h

(* A buffer put into a FIFO that does not have it is in it once.           *)
LEMMA PutOnce ==
    ASSUME NEW q \in Seq(Buffers), NEW e \in Buffers, IsInjective(q), ~Has(q, e)
    PROVE  /\ Append(q, e) \in Seq(Buffers) /\ IsInjective(Append(q, e))
           /\ \A b : Has(Append(q, e), b) <=> b = e \/ Has(q, b)
<1> DEFINE r == Append(q, e)
<1>1. r \in Seq(Buffers) /\ Len(r) = Len(q) + 1 /\ Len(q) \in Nat OBVIOUS
<1>2. \A i \in 1 .. Len(q) + 1 : r[i] = IF i = Len(q) + 1 THEN e ELSE q[i] OBVIOUS
<1>3. DOMAIN q = 1 .. Len(q) OBVIOUS
<1> HIDE DEF r
<1>4. DOMAIN r = 1 .. Len(q) + 1 BY <1>1
<1>5. \A i \in DOMAIN q : q[i] # e BY DEF Has
<1>6. \A i, j \in DOMAIN q : q[i] = q[j] => i = j BY DEF IsInjective
<1>7. \A i \in DOMAIN r : i = Len(q) + 1 \/ i \in DOMAIN q BY <1>1, <1>3, <1>4
<1>8. \A i \in DOMAIN q : i \in DOMAIN r /\ r[i] = q[i] BY <1>1, <1>2, <1>3, <1>4
<1>9. Len(q) + 1 \in DOMAIN r /\ r[Len(q) + 1] = e BY <1>1, <1>2, <1>4
<1>10. IsInjective(r) BY <1>5, <1>6, <1>7, <1>8, <1>9 DEF IsInjective
<1>11. \A b : Has(r, b) <=> b = e \/ Has(q, b) BY <1>7, <1>8, <1>9 DEF Has
<1> QED BY <1>1, <1>10, <1>11 DEF r

(* There is room for a buffer in a FIFO of distinct buffers it is not in.  *)
LEMMA RoomFor ==
    ASSUME NEW q \in Seq(Buffers), NEW e \in Buffers, IsInjective(q), ~Has(q, e)
    PROVE  Len(q) < Cardinality(Buffers)
<1>1. Len(q) \in Nat /\ DOMAIN q = 1 .. Len(q) /\ q \in [1 .. Len(q) -> Buffers] OBVIOUS
<1>2. q \in Injection(1 .. Len(q), Buffers) BY <1>1 DEF Injection
<1>3. IsFiniteSet(Buffers) BY ReplayAssumption
<1>4. Cardinality(1 .. Len(q)) = Len(q) BY <1>1, FS_Interval
<1>5. q \notin Surjection(1 .. Len(q), Buffers) BY <1>1 DEF Surjection, Has
<1>6. /\ Cardinality(1 .. Len(q)) <= Cardinality(Buffers)
      /\ Cardinality(1 .. Len(q)) # Cardinality(Buffers)
  BY <1>2, <1>3, <1>5, FS_Injection
<1>7. Cardinality(Buffers) \in Nat BY <1>3, FS_CardinalityType
<1> QED BY <1>1, <1>4, <1>6, <1>7

(* The constructor of StreamOutput puts every buffer into the empty FIFO.   *)
LEMMA AllBuffers ==
    /\ SetToSeq(Buffers) \in Seq(Buffers) /\ IsInjective(SetToSeq(Buffers))
    /\ Len(SetToSeq(Buffers)) = Cardinality(Buffers)
<1> DEFINE n == Cardinality(Buffers)
           s == SetToSeq(Buffers)
<1>1. IsFiniteSet(Buffers) BY ReplayAssumption
<1>2. n \in Nat /\ ExistsBijection(1 .. n, Buffers) BY <1>1, FS_CardinalityType
<1>3. \E f \in [1 .. n -> Buffers] : IsInjective(f)
  BY <1>2 DEF ExistsBijection, Bijection, Injection
<1>4. s \in [1 .. n -> Buffers] /\ IsInjective(s) BY <1>3 DEF SetToSeq
<1> HIDE DEF s
<1>5. s \in Seq(Buffers) /\ Len(s) = n BY <1>2, <1>4
<1> QED BY <1>4, <1>5 DEF s

(* The buffer in hand always finds room among the full ones: put() never   *)
(* drops it.                                                               *)
LEMMA Put ==
    ASSUME PlaceInv, ReadAndPut, hand \in Buffers
    PROVE  full' = Append(full, hand) /\ Len(full) < FifoSize /\ Len(full) \in Nat
<1>1. full \in Seq(Buffers) /\ IsInjective(full) /\ ~Has(full, hand) BY DEF PlaceInv
<1>2. Len(full) < Cardinality(Buffers) BY <1>1, RoomFor
<1>3. Len(full) \in Nat /\ FifoSize \in Nat /\ Cardinality(Buffers) \in Nat
  BY <1>1, ReplayAssumption, FS_CardinalityType
<1>4. Len(full) < FifoSize BY <1>2, <1>3, ReplayAssumption
<1> QED BY <1>3, <1>4 DEF ReadAndPut

(* Every step keeps every buffer in one place.                             *)
LEMMA PlaceStep ==
    ASSUME PlaceInv, [Next]_vars
    PROVE  PlaceInv'
<1> USE DEF m4vars, isrvars, thread, history, view
<1> DEFINE Still == UNCHANGED <<empty, full, active, hand>>
           Holding == worker' \in {"filling", "reading"} => hand' # None
<1>1. ASSUME Still, Holding PROVE PlaceInv' BY <1>1 DEF PlaceInv
<1>2. None \notin Buffers /\ FifoSize \in Nat BY ReplayAssumption
<1>3. CASE Take
  <2>1. /\ active = None /\ full # << >> /\ active' = Head(full) /\ full' = Tail(full)
        /\ UNCHANGED <<empty, hand, worker>>
    BY <1>3 DEF Take
  <2>2. /\ full' \in Seq(Buffers) /\ IsInjective(full') /\ active' \in Buffers
        /\ \A b : Has(full, b) <=> b = active' \/ Has(full', b)
        /\ ~Has(full', active')
    BY <2>1, TakenOnce DEF PlaceInv
  <2>3. Len(full') <= Len(full) /\ Len(full') \in Nat BY <2>1 DEF PlaceInv
  <2>4. Len(full') <= FifoSize BY <1>2, <2>3 DEF PlaceInv
  <2> QED BY <1>2, <2>1, <2>2, <2>4 DEF PlaceInv
<1>4. CASE Play
  <2>1. /\ active # None /\ empty' = Append(empty, active) /\ active' = None
        /\ Len(empty) < FifoSize /\ UNCHANGED <<full, hand, worker>>
    BY <1>4 DEF Play
  <2>2. active \in Buffers /\ ~Has(empty, active) BY <2>1 DEF PlaceInv
  <2>3. /\ empty' \in Seq(Buffers) /\ IsInjective(empty')
        /\ \A b : Has(empty', b) <=> b = active \/ Has(empty, b)
    BY <2>1, <2>2, PutOnce DEF PlaceInv
  <2>4. Len(empty') <= FifoSize
    <3>1. Len(empty') = Len(empty) + 1 /\ Len(empty) \in Nat BY <2>1, <2>2 DEF PlaceInv
    <3> QED BY <1>2, <2>1, <3>1
  <2> QED BY <1>2, <2>1, <2>2, <2>3, <2>4 DEF PlaceInv
<1>5. CASE Ring \/ Report \/ IsrClear \/ IsrWake
  <2>1. Still /\ Holding BY <1>5 DEF Ring, Report, IsrClear, IsrWake, mem, PlaceInv
  <2> QED BY <2>1, <1>1
<1>6. CASE Construct
  <2>1. /\ empty' = SetToSeq(Buffers) /\ full' = << >> /\ active' = None /\ hand' = None
        /\ worker' = "exchange"
    BY <1>6 DEF Construct, WorkerAt
  <2>2. full' \in Seq(Buffers) /\ IsInjective(full') /\ (\A b : ~Has(full', b)) /\ Len(full') = 0
    BY <2>1 DEF IsInjective, Has
  <2>3. Len(empty') <= FifoSize BY <2>1, AllBuffers, ReplayAssumption
  <2> QED BY <1>2, <2>1, <2>2, <2>3, AllBuffers DEF PlaceInv
<1>7. CASE Exchange \/ Poll \/ Loop \/ Sleep \/ Leave \/ Post
  <2>1. Still /\ Holding
    BY <1>7 DEF Exchange, Poll, Loop, Return, Sleep, Leave, Post, WorkerAt, mem, PlaceInv
  <2> QED BY <2>1, <1>1
<1>8. CASE Prefill \/ Out
  <2>1. UNCHANGED <<full, active>> BY <1>8 DEF Prefill, Out
  <2>2. CASE empty # << >>
    <3>1. hand' = Head(empty) /\ empty' = Tail(empty) BY <1>8, <2>2 DEF Prefill, Out
    <3>2. /\ empty' \in Seq(Buffers) /\ IsInjective(empty') /\ hand' \in Buffers
          /\ \A b : Has(empty, b) <=> b = hand' \/ Has(empty', b)
          /\ ~Has(empty', hand')
      BY <2>2, <3>1, TakenOnce DEF PlaceInv
    <3>3. Len(empty') <= Len(empty) /\ Len(empty') \in Nat BY <2>2, <3>1 DEF PlaceInv
    <3>4. Len(empty') <= FifoSize BY <1>2, <3>3 DEF PlaceInv
    <3> QED BY <1>2, <2>1, <3>2, <3>4 DEF PlaceInv
  <2>3. CASE empty = << >>
    <3>1. Still /\ Holding BY <1>8, <2>1, <2>3 DEF Prefill, Out, WorkerAt
    <3> QED BY <3>1, <1>1
  <2> QED BY <2>2, <2>3
<1>9. ASSUME worker \in {"filling", "reading"}, ReadAndPut, worker' \in {"prefill", "loop"}
      PROVE  PlaceInv'
  <2>1. hand' = None /\ UNCHANGED <<empty, active>> /\ hand \in Buffers /\ ~Has(full, hand)
    BY <1>9 DEF ReadAndPut, PlaceInv
  <2>2. full' = Append(full, hand) /\ Len(full) < FifoSize BY <1>9, <2>1, Put
  <2>3. /\ full' \in Seq(Buffers) /\ IsInjective(full')
        /\ \A b : Has(full', b) <=> b = hand \/ Has(full, b)
    BY <2>1, <2>2, PutOnce DEF PlaceInv
  <2>4. Len(full') <= FifoSize
    <3>1. Len(full') = Len(full) + 1 /\ Len(full) \in Nat BY <2>1, <2>2 DEF PlaceInv
    <3> QED BY <1>2, <2>2, <3>1
  <2> QED BY <1>2, <1>9, <2>1, <2>3, <2>4 DEF PlaceInv
<1>10. CASE Fill \/ Read
  <2>1. CASE Return("filling", "READ_ERROR") \/ Return("reading", "READ_ERROR")
             \/ Return("reading", "END_OF_FILE")
    <3>1. Still /\ Holding BY <2>1 DEF Return, WorkerAt, mem
    <3> QED BY <3>1, <1>1
  <2>2. CASE ReadAndPut /\ worker \in {"filling", "reading"} /\ worker' \in {"prefill", "loop"}
    BY <1>9, <2>2
  <2> QED BY <1>10, <2>1, <2>2 DEF Fill, Read, WorkerAt
<1>11. CASE Stop
  <2>1. /\ empty' = << >> /\ full' = << >> /\ active' = None /\ UNCHANGED hand
        /\ worker' = "post"
    BY <1>11 DEF Stop, WorkerAt
  <2>2. /\ << >> \in Seq(Buffers) /\ IsInjective(<< >>) /\ (\A b : ~Has(<< >>, b))
        /\ Len(<< >>) = 0
    BY DEF IsInjective, Has
  <2> QED BY <1>2, <2>1, <2>2 DEF PlaceInv
<1>12. CASE Round \/ HandleSignal
  <2>1. Still /\ Holding BY <1>12 DEF Round, HandleSignal, mem, PlaceInv
  <2> QED BY <2>1, <1>1
<1>13. CASE HandleDone
  <2>1. Still /\ Holding BY <1>13 DEF HandleDone, stop, Stopped, Started, mem, PlaceInv
  <2> QED BY <2>1, <1>1
<1>14. CASE Join
  <2>1. Still /\ Holding BY <1>14 DEF Join, Stopped, Started, PlaceInv
  <2> QED BY <2>1, <1>1
<1>15. ASSUME NEW at \in DOMAIN Following, Advance(at) PROVE PlaceInv'
  <2>1. Still /\ Holding BY <1>15 DEF Advance, mem, PlaceInv
  <2> QED BY <2>1, <1>1
<1>16. ASSUME NEW at \in {"switches", "touch"}, UserStops(at) \/ UserStarts(at) PROVE PlaceInv'
  <2>1. Still /\ Holding
    BY <1>16 DEF UserStops, UserStarts, stop, Stopped, Started, mem, PlaceInv
  <2> QED BY <2>1, <1>1
<1>17. CASE UNCHANGED vars
  <2>1. Still /\ Holding BY <1>17 DEF vars, mem, PlaceInv
  <2> QED BY <2>1, <1>1
<1> QED BY <1>3, <1>4, <1>5, <1>6, <1>7, <1>8, <1>10, <1>11, <1>12, <1>13, <1>14, <1>15, <1>16,
           <1>17
        DEF Next, M4Step, Worker, EventLoop

-----------------------------------------------------------------------------
(* What FlowInv says of the next state.                                    *)
LEMMA FlowStill ==
    ASSUME FlowInv, UNCHANGED <<full, active, data, file, pos, played>>,
           worker' \in Without => worker \in Without,
           worker \in Outside => worker' \in Outside
    PROVE  FlowInv'
  BY DEF FlowInv, Given, Ahead, Without, Outside

(* The M4 takes the next buffer; it is given nothing, and played nothing.  *)
LEMMA FlowTake ==
    ASSUME PlaceInv, FlowInv, Take
    PROVE  FlowInv'
<1>1. /\ active = None /\ full # << >> /\ active' = Head(full) /\ full' = Tail(full)
      /\ UNCHANGED <<data, file, pos, played, worker>>
  BY DEF Take, thread
<1>2. full \in Seq(Buffers) /\ Len(full) \in Nat \ {0} /\ None \notin Buffers /\ played \in Nat
  BY <1>1, ReplayAssumption DEF PlaceInv, FlowInv
<1>3. /\ Len(full') = Len(full) - 1 /\ DOMAIN full' = 1 .. Len(full) - 1
      /\ DOMAIN full = 1 .. Len(full)
      /\ active' = full[1] /\ active' \in Buffers
  BY <1>1, <1>2
<1>4. \A j \in 1 .. Len(full) - 1 : full'[j] = full[j + 1] BY <1>1, <1>2
<1>5. Ahead = 0 /\ Ahead' = 1 BY <1>1, <1>2, <1>3 DEF Ahead
<1>6. Given' = Given BY <1>1, <1>2, <1>3, <1>5 DEF Given
<1>7. \A j \in 1 .. Len(full) : Holds(data[full[j]], played + 2 * (j - 1 + Ahead), file)
  BY <1>3 DEF FlowInv
<1>8. Holds(data'[active'], played', file')
  <2>1. Holds(data[full[1]], played + 2 * (1 - 1 + Ahead), file) BY <1>2, <1>7
  <2>2. played + 2 * (1 - 1 + Ahead) = played BY <1>2, <1>5
  <2> QED BY <1>1, <1>3, <2>1, <2>2
<1>9. ASSUME NEW j \in DOMAIN full'
      PROVE  Holds(data'[full'[j]], played' + 2 * (j - 1 + Ahead'), file')
  <2>1. j + 1 \in 1 .. Len(full) /\ j \in Nat BY <1>2, <1>3
  <2>2. Holds(data[full[j + 1]], played + 2 * ((j + 1) - 1 + Ahead), file) BY <1>7, <2>1
  <2>3. played + 2 * ((j + 1) - 1 + Ahead) = played' + 2 * (j - 1 + Ahead')
    BY <1>1, <1>2, <1>5, <2>1
  <2>4. full[j + 1] = full'[j] BY <1>3, <1>4
  <2> QED BY <1>1, <2>2, <2>3, <2>4
<1>10. worker \notin Without BY <1>1 DEF FlowInv, Without
<1> QED BY <1>1, <1>6, <1>8, <1>9, <1>10 DEF FlowInv, Without, Outside

(* The M4 has played the active buffer.                                    *)
LEMMA FlowPlay ==
    ASSUME PlaceInv, FlowInv, Play
    PROVE  FlowInv'
<1>1. /\ active # None /\ active' = None /\ played' = played + 2
      /\ UNCHANGED <<full, data, file, pos, worker>>
  BY DEF Play, thread
<1>2. Len(full) \in Nat /\ DOMAIN full = 1 .. Len(full) /\ played \in Nat
  BY DEF PlaceInv, FlowInv
<1>3. Ahead = 1 /\ Ahead' = 0 BY <1>1 DEF Ahead
<1>4. Given' = Given BY <1>1, <1>2, <1>3 DEF Given
<1>5. ASSUME NEW j \in DOMAIN full'
      PROVE  Holds(data'[full'[j]], played' + 2 * (j - 1 + Ahead'), file')
  <2>1. j \in Nat /\ j \in DOMAIN full BY <1>1, <1>2
  <2>2. Holds(data[full[j]], played + 2 * (j - 1 + Ahead), file) BY <2>1 DEF FlowInv
  <2>3. played + 2 * (j - 1 + Ahead) = played' + 2 * (j - 1 + Ahead') BY <1>1, <1>2, <1>3, <2>1
  <2> QED BY <1>1, <2>2, <2>3
<1>6. worker \notin Without BY <1>1 DEF FlowInv, Without
<1>7. played' \in Nat BY <1>1, <1>2
<1> QED BY <1>1, <1>4, <1>5, <1>6, <1>7 DEF FlowInv, Without, Outside

(* What has been read into the buffer in hand is what follows on the full  *)
(* ones, and those keep what they hold.                                    *)
LEMMA FlowPut ==
    ASSUME PlaceInv, FlowInv, ReadAndPut, worker \in {"filling", "reading"},
           worker' \in {"prefill", "loop"}
    PROVE  FlowInv'
<1>1. hand \in Buffers /\ ~Has(full, hand) /\ active # hand BY ReplayAssumption DEF PlaceInv
<1>2. /\ full' = Append(full, hand) /\ data' = [data EXCEPT ![hand] = Filled]
      /\ pos' = pos + Blocks /\ UNCHANGED <<active, file, played>>
  BY <1>1, Put DEF ReadAndPut
<1>3. /\ file \in Nat /\ pos \in 0 .. file /\ played \in Nat /\ Len(full) \in Nat
      /\ DOMAIN full = 1 .. Len(full) /\ Ahead \in {0, 1}
      /\ active \in Buffers \cup {None}
  BY ReplayAssumption DEF FlowInv, PlaceInv, Ahead
<1>4. Given \in Nat BY <1>3 DEF Given
<1>5. /\ Len(full') = Len(full) + 1 /\ DOMAIN full' = 1 .. Len(full) + 1
      /\ full'[Len(full) + 1] = hand
  BY <1>1, <1>2 DEF PlaceInv
<1>6. \A j \in DOMAIN full : full'[j] = full[j] /\ full[j] \in Buffers \ {hand}
  <2>1. \A j \in 1 .. Len(full) : full'[j] = full[j] /\ full[j] \in Buffers
    BY <1>1, <1>2 DEF PlaceInv
  <2> QED BY <1>1, <1>3, <2>1 DEF Has
<1>7. Ahead' = Ahead /\ Given' = Given + 2
  <2>1. Ahead' = Ahead BY <1>2 DEF Ahead
  <2> QED BY <1>2, <1>3, <1>5, <2>1 DEF Given
<1>8. worker \notin Without /\ worker' \notin Without BY DEF Without
<1>9. pos = IF Given < file THEN Given ELSE file BY <1>8 DEF FlowInv, Without, Outside
<1>10. Blocks \in 0 .. 2 /\ Blocks = IF file - pos < 2 THEN file - pos ELSE 2 BY <1>3 DEF Blocks
<1>11. pos' \in 0 .. file' /\ pos' = IF Given' < file' THEN Given' ELSE file'
  BY <1>2, <1>3, <1>4, <1>7, <1>9, <1>10
<1>12. data[hand] \in [1 .. 2 -> Nat] BY <1>1 DEF FlowInv
<1>13. Filled = [i \in 1 .. 2 |-> IF i <= Blocks THEN pos + i ELSE data[hand][i]]
  BY DEF Filled
<1>14. Filled \in [1 .. 2 -> Nat] BY <1>3, <1>10, <1>12, <1>13
<1>15. /\ data' \in [Buffers -> [1 .. 2 -> Nat]]
       /\ data'[hand] = Filled /\ \A b \in Buffers \ {hand} : data'[b] = data[b]
  BY <1>1, <1>2, <1>14 DEF FlowInv
<1>16. ASSUME NEW i \in 1 .. 2 PROVE Filled[i] = Given + i \/ Given + i > file
  <2>1. Filled[i] = IF i <= Blocks THEN pos + i ELSE data[hand][i] BY <1>13
  <2> QED BY <1>3, <1>4, <1>9, <1>10, <2>1
<1>17. Holds(data'[hand], Given, file') BY <1>2, <1>15, <1>16 DEF Holds
<1>18. ASSUME active' # None PROVE Holds(data'[active'], played', file')
  <2>1. active \in Buffers \ {hand} /\ Holds(data[active], played, file)
    BY <1>1, <1>2, <1>3, <1>18 DEF FlowInv
  <2> QED BY <1>2, <1>15, <2>1
<1>19. ASSUME NEW j \in DOMAIN full'
       PROVE  Holds(data'[full'[j]], played' + 2 * (j - 1 + Ahead'), file')
  <2>1. CASE j \in DOMAIN full
    <3>1. Holds(data[full[j]], played + 2 * (j - 1 + Ahead), file) BY <2>1 DEF FlowInv
    <3>2. full'[j] = full[j] /\ data'[full[j]] = data[full[j]] BY <1>6, <1>15, <2>1
    <3> QED BY <1>2, <1>7, <3>1, <3>2
  <2>2. CASE j \notin DOMAIN full
    <3>1. j = Len(full) + 1 BY <1>3, <1>5, <2>2
    <3>2. played' + 2 * (j - 1 + Ahead') = Given BY <1>2, <1>3, <1>7, <3>1 DEF Given
    <3> QED BY <1>5, <1>17, <3>1, <3>2
  <2> QED BY <2>1, <2>2
<1> QED BY <1>2, <1>3, <1>8, <1>11, <1>15, <1>18, <1>19 DEF FlowInv, Without, Outside

(* Every step keeps the file in the order it is played in.                 *)
LEMMA FlowStep ==
    ASSUME PlaceInv, FlowInv, PostInv, [Next]_vars
    PROVE  FlowInv'
<1> USE DEF m4vars, isrvars, thread, history, view
<1> DEFINE Still == /\ UNCHANGED <<full, active, data, file, pos, played>>
                    /\ worker' \in Without => worker \in Without
                    /\ worker \in Outside => worker' \in Outside
<1>1. ASSUME Still PROVE FlowInv' BY <1>1, FlowStill
<1>2. CASE Ring \/ Report \/ IsrClear \/ IsrWake
  <2>1. Still BY <1>2 DEF Ring, Report, IsrClear, IsrWake, mem, Without, Outside
  <2> QED BY <2>1, <1>1
<1>3. CASE Construct
  <2>1. /\ data' = [b \in Buffers |-> Unwritten] /\ full' = << >> /\ active' = None
        /\ UNCHANGED <<file, pos, played>> /\ worker = "construct" /\ worker' = "exchange"
    BY <1>3 DEF Construct, WorkerAt
  <2>2. full = << >> /\ active = None BY <2>1 DEF FlowInv, Without
  <2>3. Ahead' = Ahead /\ Given' = Given BY <2>1, <2>2 DEF Ahead, Given
  <2>4. data' \in [Buffers -> [1 .. 2 -> Nat]] BY <2>1 DEF Unwritten
  <2> QED BY <2>1, <2>3, <2>4 DEF FlowInv, Without, Outside
<1>4. CASE Exchange \/ Poll \/ Prefill \/ Loop \/ Out \/ Sleep \/ Leave \/ Post
  <2>1. Still
    BY <1>4 DEF Exchange, Poll, Prefill, Loop, Return, Out, Sleep, Leave, Post, WorkerAt, mem,
                Without, Outside
  <2> QED BY <2>1, <1>1
<1>5. CASE Fill \/ Read
  <2>1. CASE Return("filling", "READ_ERROR") \/ Return("reading", "READ_ERROR")
             \/ Return("reading", "END_OF_FILE")
    <3>1. Still BY <2>1 DEF Return, WorkerAt, mem, Without, Outside
    <3> QED BY <3>1, <1>1
  <2>2. CASE ReadAndPut /\ worker \in {"filling", "reading"} /\ worker' \in {"prefill", "loop"}
    BY <2>2, FlowPut
  <2> QED BY <1>5, <2>1, <2>2 DEF Fill, Read, WorkerAt
<1>6. CASE Stop
  <2>1. /\ full' = << >> /\ active' = None /\ UNCHANGED <<data, file, pos, played>>
        /\ worker' = "post"
    BY <1>6 DEF Stop, WorkerAt
  <2> QED BY <2>1 DEF FlowInv, Without, Outside
<1>7. ASSUME worker \in {"none", "ended"}, UNCHANGED <<full, active, data>>, Stopped \/ Started
      PROVE  FlowInv'
  <2>1. full = << >> /\ active = None BY <1>7 DEF FlowInv, Without
  <2>2. CASE worker' = "construct" /\ file' \in FileSizes /\ pos' = 0 /\ played' = 0
    <3>1. Given' = 0 /\ Len(full') = 0 BY <1>7, <2>1, <2>2 DEF Given, Ahead
    <3>2. file' \in Nat \ {0} BY <2>2, ReplayAssumption
    <3> QED BY <1>7, <2>1, <2>2, <3>1, <3>2 DEF FlowInv, Without, Outside
  <2>3. CASE worker' = "none" /\ UNCHANGED <<file, pos, played>>
    <3>1. Still BY <1>7, <2>3 DEF Without, Outside
    <3> QED BY <3>1, <1>1
  <2> QED BY <1>7, <2>2, <2>3 DEF Stopped, Started
<1>8. ASSUME NEW from, NEW to, NEW loops, stop(from, to, loops) PROVE FlowInv'
  <2>1. Still BY <1>8 DEF stop, mem
  <2> QED BY <2>1, <1>1
<1>9. CASE Round \/ HandleSignal
  <2>1. Still BY <1>9 DEF Round, HandleSignal, mem
  <2> QED BY <2>1, <1>1
<1>10. CASE HandleDone
  <2>1. CASE \E loops \in BOOLEAN : stop("local", "local", loops) BY <1>8, <2>1
  <2>2. CASE Still BY <1>1, <2>2
  <2>3. CASE ~session /\ UNCHANGED <<full, active, data>> /\ (Stopped \/ Started)
    BY <1>7, <2>3 DEF PostInv
  <2> QED BY <1>10, <2>1, <2>2, <2>3 DEF HandleDone, mem
<1>11. CASE Join BY <1>7, <1>11 DEF Join
<1>12. ASSUME NEW at \in DOMAIN Following, Advance(at) PROVE FlowInv'
  <2>1. Still BY <1>12 DEF Advance, mem
  <2> QED BY <2>1, <1>1
<1>13. ASSUME NEW at \in {"switches", "touch"}, UserStops(at) PROVE FlowInv'
  <2>1. CASE stop(at, Following[at], FALSE) BY <1>8, <2>1
  <2>2. CASE ~session /\ UNCHANGED <<full, active, data>> /\ Stopped BY <1>7, <2>2 DEF PostInv
  <2> QED BY <1>13, <2>1, <2>2 DEF UserStops
<1>14. ASSUME NEW at \in {"switches", "touch"}, UserStarts(at) PROVE FlowInv'
  BY <1>7, <1>14 DEF UserStarts, PostInv
<1>15. CASE UNCHANGED vars
  <2>1. Still BY <1>15 DEF vars, mem
  <2> QED BY <2>1, <1>1
<1> QED BY <1>2, <1>3, <1>4, <1>5, <1>6, <1>9, <1>10, <1>11, <1>12, <1>13, <1>14, <1>15,
           FlowTake, FlowPlay
        DEF Next, M4Step, Worker, EventLoop

-----------------------------------------------------------------------------
(* Every step keeps what is known of the end of the file.                  *)
LEMMA ReturnStep ==
    ASSUME PlaceInv, FlowInv, PostInv, ReturnInv, [Next]_vars
    PROVE  ReturnInv'
<1> USE DEF m4vars, isrvars, thread, history, view
<1> DEFINE Still == worker = "leave" /\ UNCHANGED <<code, pos, file, hand>>
           Away == worker' # "leave"
<1>1. ASSUME Still \/ Away PROVE ReturnInv' BY <1>1 DEF ReturnInv
<1>2. CASE M4Step \/ IsrClear \/ IsrWake
  <2>1. Still \/ Away BY <1>2 DEF M4Step, Take, Play, Ring, Report, IsrClear, IsrWake, mem
  <2> QED BY <2>1, <1>1
<1>3. CASE Construct \/ Exchange \/ Poll \/ Prefill \/ Out \/ Sleep \/ Leave \/ Stop \/ Post
  <2>1. Away
    BY <1>3 DEF Construct, Exchange, Poll, Prefill, Out, Sleep, Leave, Stop, Post, WorkerAt
  <2> QED BY <2>1, <1>1
<1>4. CASE Fill \/ Loop
  <2>1. Away \/ code' \in {"READ_ERROR", "TERMINATED"} BY <1>4 DEF Fill, Loop, Return, WorkerAt
  <2> QED BY <2>1 DEF ReturnInv
<1>5. CASE Read
  <2>1. CASE Blocks = 0 /\ Return("reading", "END_OF_FILE")
    <3>1. worker = "reading" /\ UNCHANGED <<pos, file, hand>> BY <2>1 DEF Return, WorkerAt, mem
    <3>2. hand # None BY <3>1 DEF PlaceInv
    <3>3. file \in Nat /\ pos \in 0 .. file BY ReplayAssumption DEF FlowInv
    <3>4. pos = file BY <2>1, <3>3 DEF Blocks
    <3> QED BY <3>1, <3>2, <3>4 DEF ReturnInv
  <2>2. CASE Away \/ code' = "READ_ERROR" BY <2>2 DEF ReturnInv
  <2> QED BY <1>5, <2>1, <2>2 DEF Read, Return, WorkerAt
<1>6. CASE Round \/ HandleSignal
  <2>1. Still \/ Away BY <1>6 DEF Round, HandleSignal, mem
  <2> QED BY <2>1, <1>1
<1>7. CASE HandleDone
  <2>1. Still \/ Away BY <1>7 DEF HandleDone, stop, Stopped, Started, mem
  <2> QED BY <2>1, <1>1
<1>8. CASE Join
  <2>1. Away BY <1>8 DEF Join, Stopped, Started
  <2> QED BY <2>1, <1>1
<1>9. ASSUME NEW at \in DOMAIN Following, Advance(at) PROVE ReturnInv'
  <2>1. Still \/ Away BY <1>9 DEF Advance, mem
  <2> QED BY <2>1, <1>1
<1>10. ASSUME NEW at \in {"switches", "touch"}, UserStops(at) \/ UserStarts(at)
       PROVE  ReturnInv'
  <2>1. Still \/ Away BY <1>10 DEF UserStops, UserStarts, stop, Stopped, Started, mem
  <2> QED BY <2>1, <1>1
<1>11. CASE UNCHANGED vars
  <2>1. Still \/ Away BY <1>11 DEF vars, mem
  <2> QED BY <2>1, <1>1
<1> QED BY <1>2, <1>3, <1>4, <1>5, <1>6, <1>7, <1>8, <1>9, <1>10, <1>11
        DEF Next, Worker, EventLoop

-----------------------------------------------------------------------------
(* A step that neither posts nor takes a message, nor ends or starts a     *)
(* session, nor lets a thread go.                                          *)
LEMMA PostStill ==
    ASSUME PostInv, UNCHANGED <<done, session, young, ready>>,
           worker' = worker \/ (worker \notin {"none", "ended", "construct", "exchange", "poll"}
                                /\ worker' \notin {"none", "ended"}),
           ui' = "application" => ui = "application",
           Settled' => Settled,
           ui' = "join" => session,
           UNCHANGED call
    PROVE  PostInv'
  BY DEF PostInv

(* The lengths of the local queue before and after a message.              *)
LEMMA Lengths ==
    ASSUME NEW q \in Seq(Message), NEW e \in Message
    PROVE  /\ Len(q) \in Nat /\ Len(Append(q, e)) = Len(q) + 1
           /\ q # << >> => Len(Tail(q)) = Len(q) - 1 /\ Len(q) > 0
           /\ Len([i \in DOMAIN q |-> [q[i] EXCEPT !.stale = TRUE]]) = Len(q)
<1>1. Len(q) \in Nat /\ DOMAIN q = 1 .. Len(q) OBVIOUS
<1>2. Len([i \in 1 .. Len(q) |-> [q[i] EXCEPT !.stale = TRUE]]) = Len(q) BY <1>1
<1>3. q # << >> => Len(Tail(q)) = Len(q) - 1 /\ Len(q) > 0 OBVIOUS
<1>4. Len(Append(q, e)) = Len(q) + 1 OBVIOUS
<1> QED BY <1>1, <1>2, <1>3, <1>4

(* Every step keeps the local queue short: a session posts one message,    *)
(* and a session started past the local queue does not before the next.    *)
LEMMA PostStep ==
    ASSUME DoneInv, PostInv, [Next]_vars
    PROVE  PostInv'
<1> USE DEF mem, m4vars, isrvars, thread, history, view
<1> DEFINE Still ==
        /\ UNCHANGED <<done, session, young, ready>>
        /\ worker' = worker \/ (worker \notin {"none", "ended", "construct", "exchange", "poll"}
                                /\ worker' \notin {"none", "ended"})
        /\ ui' = "application" => ui = "application"
        /\ Settled' => Settled
        /\ ui' = "join" => session
        /\ UNCHANGED call
<1>1. ASSUME Still PROVE PostInv' BY <1>1, PostStill
<1>2. CASE M4Step \/ IsrClear \/ IsrWake
  <2>1. Still
    BY <1>2 DEF M4Step, Take, Play, Ring, Report, IsrClear, IsrWake, Settled, PastLocal, PostInv
  <2> QED BY <2>1, <1>1
<1>3. CASE Construct \/ Exchange
  BY <1>3 DEF Construct, Exchange, WorkerAt, Settled, PastLocal, PostInv
<1>4. CASE Poll BY <1>4 DEF Poll, WorkerAt, Settled, PastLocal, PostInv
<1>5. CASE Prefill \/ Fill \/ Loop \/ Out \/ Sleep \/ Read \/ Leave \/ Stop
  <2>1. Still
    BY <1>5 DEF Prefill, Fill, Loop, Out, Sleep, Read, Leave, Stop, Return, WorkerAt, Settled, PastLocal,
                PostInv
  <2> QED BY <2>1, <1>1
<1>6. CASE Post
  <2>1. /\ worker = "post" /\ worker' = "ended"
        /\ done' = Append(done, [code |-> code, stale |-> FALSE])
        /\ UNCHANGED <<session, young, ready, ui, call>>
    BY <1>6 DEF Post, WorkerAt
  <2>2. Len(done') = Len(done) + 1 /\ Len(done) \in Nat
    <3>1. [code |-> code, stale |-> FALSE] \in Message BY DEF DoneInv, Message
    <3> QED BY <2>1, <3>1, Lengths DEF DoneInv
  <2>3. session /\ ~young BY <2>1 DEF PostInv
  <2> QED BY <2>1, <2>2, <2>3 DEF PostInv, Settled, PastLocal
<1>7. CASE Round
  <2>1. /\ ui = "wait" /\ ui' = "application" /\ ~young'
        /\ UNCHANGED <<done, session, worker, ready, call>>
    BY <1>7 DEF Round, UiAt
  <2> QED BY <2>1 DEF PostInv, Settled, PastLocal
<1>8. CASE HandleSignal
  <2>1. ui = "application" /\ UNCHANGED <<done, session, worker, ui, young, call>>
    BY <1>8 DEF HandleSignal, UiAt
  <2> QED BY <2>1 DEF PostInv, Settled, PastLocal
<1>9. ASSUME NEW at \in {"local", "switches", "touch"}, NEW to, NEW loops \in BOOLEAN,
             stop(at, to, loops),
             IF at = "local" THEN to = "local" /\ done # << >> /\ done' = Tail(done)
                             ELSE to = Following[at] /\ done' = done
      PROVE  PostInv'
  <2>1. /\ session /\ ui = at /\ ui' = "join" /\ call'.to = to
        /\ UNCHANGED <<session, worker, young, ready>>
    BY <1>9 DEF stop, UiAt
  <2>2. Len(done') <= Len(done) /\ Len(done) \in Nat /\ Len(done') \in Nat
    <3>1. Len(done) \in Nat BY DEF DoneInv
    <3>2. done # << >> => Len(Tail(done)) = Len(done) - 1 /\ Len(done) > 0 BY DEF DoneInv
    <3> QED BY <1>9, <3>1, <3>2
  <2>3. at # "local" => PastLocal /\ done' = done BY <1>9, <2>1 DEF PastLocal
  <2>4. at = "local" => Len(done') = Len(done) - 1 BY <1>9 DEF DoneInv
  <2>5. call' \in [to : {"local", "touch", "wait"}, do_loop : BOOLEAN]
    BY <1>9 DEF stop, Following
  <2> QED BY <2>1, <2>2, <2>3, <2>4, <2>5 DEF PostInv, Settled
<1>10. ASSUME worker \in {"none", "ended"}, Stopped \/ Started,
              ui' \in {"local", "switches", "touch", "wait"}, UNCHANGED call,
              Len(done') <= 1, Len(done') \in Nat
       PROVE  PostInv'
  BY <1>10 DEF PostInv, Stopped, Started, Settled, PastLocal
<1>11. CASE HandleDone
  <2>1. done # << >> /\ done' = Tail(done) /\ ui = "local" BY <1>11 DEF HandleDone, stop, UiAt
  <2>2. Len(done') <= 1 /\ Len(done') \in Nat /\ Len(done') < Len(done) /\ Len(done) \in Nat
    BY <2>1 DEF DoneInv, PostInv
  <2>3. CASE \E loops \in BOOLEAN : stop("local", "local", loops) BY <1>9, <2>1, <2>3
  <2>4. CASE ui' = "local" /\ UNCHANGED <<session, young, ready, worker, call>>
    BY <2>1, <2>2, <2>4 DEF PostInv, Settled, PastLocal
  <2>5. CASE ~session /\ ui' = "local" /\ (Stopped \/ Started) /\ UNCHANGED call
    BY <1>10, <2>2, <2>5 DEF PostInv
  <2> QED BY <1>11, <2>3, <2>4, <2>5 DEF HandleDone, UiAt
<1>12. CASE Join
  <2>1. /\ worker = "ended" /\ ui = "join" /\ ui' = call.to /\ UNCHANGED call
        /\ done' = [i \in DOMAIN done |-> [done[i] EXCEPT !.stale = TRUE]]
        /\ Stopped \/ Started
    BY <1>12 DEF Join, UiAt
  <2>2. Len(done') = Len(done) /\ Len(done) \in Nat
    <3>1. [code |-> code, stale |-> FALSE] \in Message BY DEF DoneInv, Message
    <3> QED BY <2>1, <3>1, Lengths DEF DoneInv
  <2> QED BY <2>1, <2>2 DEF PostInv, Settled, PastLocal, Stopped, Started
<1>13. ASSUME NEW at \in DOMAIN Following, Advance(at) PROVE PostInv'
  <2>1. ui = at /\ ui' = Following[at] /\ UNCHANGED <<done, session, young, ready, worker, call>>
    BY <1>13 DEF Advance, UiAt
  <2>2. CASE at = "local"
    <3>1. done = << >> BY <1>13, <2>2 DEF Advance
    <3> QED BY <2>1, <2>2, <3>1 DEF PostInv, Following
  <2>3. CASE at # "local"
    <3>1. Still BY <2>1, <2>3 DEF Settled, PastLocal, Following
    <3> QED BY <3>1, <1>1
  <2> QED BY <2>2, <2>3
<1>14. ASSUME NEW at \in {"switches", "touch"}, UserStops(at) PROVE PostInv'
  <2>1. UNCHANGED done BY <1>14 DEF UserStops
  <2>2. CASE stop(at, Following[at], FALSE) BY <1>9, <2>1, <2>2
  <2>3. CASE ~session /\ UiAt(at, Following[at]) /\ Stopped /\ UNCHANGED call
    <3>1. Settled /\ ui' \in {"touch", "wait"} BY <2>3 DEF UiAt, Settled, PastLocal, Following
    <3>2. Len(done) \in Nat BY DEF DoneInv
    <3> QED BY <1>10, <2>1, <2>3, <3>1, <3>2 DEF PostInv
  <2> QED BY <1>14, <2>2, <2>3 DEF UserStops
<1>15. ASSUME NEW at \in {"switches", "touch"}, UserStarts(at) PROVE PostInv'
  <2>1. ~session /\ UiAt(at, Following[at]) /\ Started /\ UNCHANGED <<done, call>>
    BY <1>15 DEF UserStarts
  <2>2. Settled /\ ui' \in {"touch", "wait"} BY <2>1 DEF UiAt, Settled, PastLocal, Following
  <2>3. Len(done) \in Nat BY DEF DoneInv
  <2> QED BY <1>10, <2>1, <2>2, <2>3 DEF PostInv
<1>16. CASE UNCHANGED vars
  <2>1. Still BY <1>16 DEF vars, Settled, PastLocal, PostInv
  <2> QED BY <2>1, <1>1
<1> QED BY <1>2, <1>3, <1>4, <1>5, <1>6, <1>7, <1>8, <1>11, <1>12, <1>13, <1>14, <1>15, <1>16
        DEF Next, Worker, EventLoop

-----------------------------------------------------------------------------
(* Every step keeps the control state in its types.                        *)
LEMMA ControlStep ==
    ASSUME PostInv, ControlOK, [Next]_vars
    PROVE  ControlOK'
<1> USE DEF mem, m4vars, isrvars, thread, history, view, ControlOK
<1>1. WindowPlays \in Nat BY ReplayAssumption
<1>2. CASE Take BY <1>2 DEF Take
<1>3. CASE Play BY <1>1, <1>3 DEF Play
<1>4. CASE Ring BY <1>4 DEF Ring
<1>5. CASE Report BY <1>5 DEF Report
<1>6. CASE IsrWake BY <1>6 DEF IsrWake
<1>7. CASE IsrClear
  <2>1. line' = FALSE /\ (window' = window \/ window' = 0) BY <1>7 DEF IsrClear
  <2>2. isr' = "none" /\ UNCHANGED <<m4vars, signal, thread, view>> BY <1>7 DEF IsrClear
  <2>3. line' \in BOOLEAN BY <2>1
  <2>4. window' \in 0 .. WindowPlays
    <3>1. window \in 0 .. WindowPlays OBVIOUS
    <3> QED BY <1>1, <2>1, <3>1
  <2> QED BY <2>2, <2>3, <2>4
<1>8. CASE Construct
  <2>1. /\ worker' = "exchange" /\ UNCHANGED <<m4, isr, window, exchange, terminate>>
        /\ UNCHANGED <<ready, session, radio, ui, young, failed>>
    BY <1>8 DEF Construct, WorkerAt
  <2>2. configured' \in BOOLEAN /\ dropped' \in BOOLEAN /\ line' \in BOOLEAN
        /\ signal' \in {"none", "queued", "flagged"}
    BY <1>8 DEF Construct
  <2> QED BY <2>1, <2>2
<1>9. CASE Exchange
  <2>1. worker' = "poll" /\ exchange' \in BOOLEAN /\ UNCHANGED <<m4vars, isrvars, terminate, view>>
    BY <1>9 DEF Exchange, WorkerAt
  <2> QED BY <2>1
<1>10. CASE Poll BY <1>10 DEF Poll, WorkerAt
<1>11. CASE Prefill
  <2>1. /\ worker' \in {"filling", "loop"} /\ configured' \in BOOLEAN
        /\ UNCHANGED <<m4, isrvars, exchange, terminate, view>>
    BY <1>11 DEF Prefill, WorkerAt
  <2> QED BY <2>1
<1>12. CASE Fill
  <2>1. worker' \in {"prefill", "leave"} /\ UNCHANGED <<m4vars, isrvars, exchange, terminate, view>>
    BY <1>12 DEF Fill, Return, WorkerAt
  <2> QED BY <2>1
<1>13. CASE Loop
  <2>1. worker' \in {"out", "leave"} /\ UNCHANGED <<m4vars, isrvars, exchange, terminate, view>>
    BY <1>13 DEF Loop, Return, WorkerAt
  <2> QED BY <2>1
<1>14. CASE Out BY <1>14 DEF Out, WorkerAt
<1>15. CASE Sleep
  <2>1. /\ worker' = "sleep" /\ window' \in 0 .. WindowPlays
        /\ UNCHANGED <<m4vars, line, isr, signal, exchange, terminate, view>>
    BY <1>1, <1>15 DEF Sleep, WorkerAt
  <2> QED BY <2>1
<1>16. CASE Read
  <2>1. worker' \in {"loop", "leave"} /\ UNCHANGED <<m4vars, isrvars, exchange, terminate, view>>
    BY <1>16 DEF Read, Return, WorkerAt
  <2> QED BY <2>1
<1>17. CASE Leave
  <2>1. worker' = "stop" /\ exchange' \in BOOLEAN /\ UNCHANGED <<m4vars, isrvars, terminate, view>>
    BY <1>17 DEF Leave, WorkerAt
  <2> QED BY <2>1
<1>18. CASE Stop
  <2>1. /\ worker' = "post" /\ configured' \in BOOLEAN
        /\ UNCHANGED <<m4, isrvars, exchange, terminate, view>>
    BY <1>18 DEF Stop, WorkerAt
  <2> QED BY <2>1
<1>19. CASE Post BY <1>19 DEF Post, WorkerAt
<1>20. CASE Round
  <2>1. /\ ui' = "application" /\ young' \in BOOLEAN
        /\ UNCHANGED <<m4vars, isrvars, thread, ready, session, radio, dropped, failed>>
    BY <1>20 DEF Round, UiAt
  <2> QED BY <2>1
<1>21. CASE HandleSignal
  <2>1. /\ ui' = "application" /\ signal' = "none" /\ ready' \in BOOLEAN
        /\ UNCHANGED <<m4vars, line, isr, window, thread, session, radio, history>>
    BY <1>21 DEF HandleSignal, UiAt
  <2> QED BY <2>1
<1>22. ASSUME Stopped \/ Started,
              UNCHANGED <<configured, m4, line, isr, window, signal, exchange, dropped>>,
              ui' \in {"local", "switches", "touch", "wait"}
       PROVE  ControlOK'
  <2>1. /\ session' \in BOOLEAN /\ radio' \in BOOLEAN /\ failed' \in BOOLEAN
        /\ ready' \in BOOLEAN /\ terminate' \in BOOLEAN /\ young' \in BOOLEAN
        /\ worker' \in {"none", "construct"}
    BY <1>22 DEF Stopped, Started
  <2> QED BY <1>22, <2>1
<1>23. ASSUME NEW from, NEW to, NEW loops, stop(from, to, loops) PROVE ControlOK'
  BY <1>23 DEF stop, UiAt
<1>24. CASE HandleDone
  <2>1. CASE \E loops \in BOOLEAN : stop("local", "local", loops) BY <1>23, <2>1
  <2>2. CASE /\ Stopped \/ Started
             /\ UNCHANGED <<configured, m4, line, isr, window, signal, exchange, dropped>>
             /\ ui' = "local"
    BY <1>22, <2>2
  <2>3. CASE /\ ui' = "local"
             /\ UNCHANGED <<m4vars, isrvars, thread, ready, session, radio, history>>
    BY <2>3
  <2> QED BY <1>24, <2>1, <2>2, <2>3 DEF HandleDone, UiAt
<1>25. CASE Join
  <2>1. ui' \in {"local", "touch", "wait"} BY <1>25 DEF Join, UiAt, PostInv
  <2> QED BY <1>22, <1>25, <2>1 DEF Join
<1>26. ASSUME NEW at \in DOMAIN Following, Advance(at) PROVE ControlOK'
  BY <1>26 DEF Advance, UiAt, Following
<1>27. ASSUME NEW at \in {"switches", "touch"}, UserStops(at) PROVE ControlOK'
  <2>1. CASE stop(at, Following[at], FALSE) BY <1>23, <2>1
  <2>2. CASE Stopped /\ UiAt(at, Following[at])
    <3>1. ui' \in {"touch", "wait"} BY <2>2 DEF UiAt, Following
    <3> QED BY <1>22, <1>27, <2>2, <3>1 DEF UserStops, stop, UiAt
  <2> QED BY <1>27, <2>1, <2>2 DEF UserStops
<1>28. ASSUME NEW at \in {"switches", "touch"}, UserStarts(at) PROVE ControlOK'
  <2>1. ui' \in {"touch", "wait"} BY <1>28 DEF UserStarts, UiAt, Following
  <2> QED BY <1>22, <1>28, <2>1 DEF UserStarts
<1>29. CASE UNCHANGED vars BY <1>29 DEF vars
<1> QED BY <1>2, <1>3, <1>4, <1>5, <1>6, <1>7, <1>8, <1>9, <1>10, <1>11, <1>12, <1>13, <1>14,
           <1>15, <1>16, <1>17, <1>18, <1>19, <1>20, <1>21, <1>24, <1>25, <1>26, <1>27, <1>28,
           <1>29
        DEF Next, M4Step, Worker, EventLoop

-----------------------------------------------------------------------------
(* Signals, Done messages and the radio, in every state of the program.    *)
LEMMA Invariance == Spec => []IInv
<1>1. Init => IInv
  <2> SUFFICES ASSUME Init PROVE IInv OBVIOUS
  <2>1. SignalInv BY DEF Init, SignalInv, Unsignalled
  <2>2. RadioOnlyInSession BY DEF Init, RadioOnlyInSession
  <2>3. done = << >> /\ code = "TERMINATED" /\ freed = 0 BY DEF Init
  <2>4. ~Stale /\ done \in Seq(Message) BY <2>3 DEF Stale
  <2>5. DoneInv BY <2>3, <2>4 DEF DoneInv
  <2>6. /\ << >> \in Seq(Buffers) /\ IsInjective(<< >>) /\ Len(<< >>) = 0
        /\ \A b : ~Has(<< >>, b)
    BY DEF IsInjective, Has
  <2>7. PlaceInv BY <2>6, ReplayAssumption DEF Init, PlaceInv
  <2>8. FlowInv
    <3>1. file \in Nat \ {0} BY ReplayAssumption DEF Init
    <3>2. data \in [Buffers -> [1 .. 2 -> Nat]] BY DEF Init, Unwritten
    <3> QED BY <3>1, <3>2 DEF Init, FlowInv, Without, Outside
  <2>9. ReturnInv /\ PostInv BY <2>3 DEF Init, ReturnInv, PostInv
  <2>10. ControlOK
    <3>1. 0 \in 0 .. WindowPlays BY ReplayAssumption
    <3> QED BY <3>1 DEF Init, ControlOK
  <2> QED BY <2>1, <2>2, <2>5, <2>7, <2>8, <2>9, <2>10 DEF IInv
<1>2. IInv /\ [Next]_vars => IInv'
  BY SignalStep, DoneStep, RadioStep, PlaceStep, FlowStep, ReturnStep, PostStep, ControlStep DEF IInv
<1> QED BY <1>1, <1>2, PTL DEF Spec

(* Buffers, the file and the flags are what they are meant to be, and no   *)
(* more than two Done messages are ever pending.                           *)
THEOREM TypeCorrect == Spec => []TypeOK
<1>1. IInv => TypeOK BY DEF IInv, DoneInv, PlaceInv, FlowInv, PostInv, ControlOK, TypeOK, Following
<1> QED BY <1>1, Invariance, PTL

(* The M4 transmits the file without a gap, a repetition or a block of     *)
(* another buffer, from its first block up to its end.                     *)
THEOREM FileIsPlayed == Spec => []PlaysFile
<1>1. IInv => PlaysFile BY DEF IInv, FlowInv, Holds, PlaysFile
<1> QED BY <1>1, Invariance, PTL

(* There are fewer buffers with the M4 than there are, while the thread    *)
(* holds one.                                                              *)
LEMMA BuffersAhead ==
    ASSUME PlaceInv, hand # None
    PROVE  Len(full) + Ahead <= Cardinality(Buffers) - 1
<1>1. /\ hand \in Buffers /\ full \in Seq(Buffers) /\ IsInjective(full) /\ ~Has(full, hand)
      /\ Len(full) \in Nat
  BY DEF PlaceInv
<1>2. Cardinality(Buffers) \in Nat BY ReplayAssumption, FS_CardinalityType
<1>3. CASE active = None
  <2>1. Len(full) < Cardinality(Buffers) BY <1>1, RoomFor
  <2> QED BY <1>1, <1>2, <1>3, <2>1 DEF Ahead
<1>4. CASE active # None
  <2>1. active \in Buffers /\ ~Has(full, active) /\ active # hand BY <1>1, <1>4 DEF PlaceInv
  <2>2. /\ Append(full, active) \in Seq(Buffers) /\ IsInjective(Append(full, active))
        /\ ~Has(Append(full, active), hand)
    BY <1>1, <2>1, PutOnce
  <2>3. Len(Append(full, active)) < Cardinality(Buffers) BY <1>1, <2>2, RoomFor
  <2>4. Len(Append(full, active)) = Len(full) + 1 BY <1>1, <2>1
  <2> QED BY <1>1, <1>2, <1>4, <2>3, <2>4 DEF Ahead
<1> QED BY <1>3, <1>4

(* A replay that ends at the end of the file has handed all of it over,    *)
(* and throws away at most the buffers the M4 was given last.              *)
THEOREM FileIsHandedOver == Spec => []EndOfFile
<1>1. IInv => EndOfFile
  <2> SUFFICES ASSUME IInv, code = "END_OF_FILE", worker = "leave"
               PROVE  pos = file /\ played + 2 * (Cardinality(Buffers) - 1) >= file
    BY DEF EndOfFile
  <2>1. pos = file /\ hand # None BY DEF IInv, ReturnInv
  <2>2. Given >= file
    <3>1. file \in Nat /\ played \in Nat /\ Len(full) \in Nat /\ Ahead \in {0, 1}
      BY ReplayAssumption DEF IInv, FlowInv, PlaceInv, Ahead
    <3>2. Given \in Nat BY <3>1 DEF Given
    <3>3. pos = IF Given < file THEN Given ELSE file BY DEF IInv, FlowInv, Outside
    <3> QED BY <2>1, <3>1, <3>2, <3>3
  <2>3. Len(full) + Ahead <= Cardinality(Buffers) - 1 BY <2>1, BuffersAhead DEF IInv
  <2>4. /\ file \in Nat /\ played \in Nat /\ Len(full) \in Nat /\ Ahead \in {0, 1}
        /\ Cardinality(Buffers) \in Nat
    BY ReplayAssumption, FS_CardinalityType DEF IInv, FlowInv, PlaceInv, Ahead
  <2> QED BY <2>1, <2>2, <2>3, <2>4 DEF Given
<1> QED BY <1>1, Invariance, PTL

(* The event loop waits for a thread that waits for the event loop only if *)
(* the RequestSignal was dropped, or the session is of this round.         *)
THEOREM NoMutualWait == Spec => []ReadyBeforeStop
<1>1. IInv => ReadyBeforeStop BY DEF IInv, SignalInv, Unsignalled, ReadyBeforeStop
<1> QED BY <1>1, Invariance, PTL

(* The radio transmits in a session, or behind the error message of a file *)
(* that could not be opened.                                               *)
THEOREM RadioFollowsSession == Spec => []RadioOnlyInSession
<1>1. IInv => RadioOnlyInSession BY DEF IInv
<1> QED BY <1>1, Invariance, PTL

(* A Done message restarts or stops a replay other than its own only in    *)
(* the round that destroyed its session or the one after it.               *)
THEOREM DoneSoonHandled == Spec => DoneIsRecent
<1> DEFINE A == done # << >> /\ done' = Tail(done) /\ Head(done).stale => freed > 0
<1>1. IInv => A
  <2> SUFFICES ASSUME IInv, done # << >>, Head(done).stale PROVE freed > 0 OBVIOUS
  <2>1. Stale BY Taken DEF IInv, DoneInv, Stale
  <2> QED BY <2>1 DEF IInv, DoneInv
<1>2. [][Next]_vars /\ []IInv => [][A]_vars BY <1>1, PTL
<1>3. Spec => [][A]_vars BY <1>2, Invariance, PTL DEF Spec
<1> QED BY <1>3 DEF DoneIsRecent
=============================================================================

------------------------ MODULE SpectrumStreamProofs ------------------------
(***************************************************************************)
(* Safety of the spectrum stream, for queues and FIFOs of any size and any *)
(* number of images.                                                       *)
(***************************************************************************)
EXTENDS SpectrumStream, TLAPS

-----------------------------------------------------------------------------
(* The queue with one record more.                                         *)
LEMMA AppendFacts ==
    ASSUME NEW S, NEW q \in Seq(S), NEW e \in S
    PROVE  /\ Append(q, e) \in Seq(S)
           /\ Len(q) \in Nat /\ Len(Append(q, e)) = Len(q) + 1
           /\ Append(q, e) # << >>
           /\ DOMAIN q = 1 .. Len(q) /\ DOMAIN Append(q, e) = 1 .. Len(q) + 1
           /\ Append(q, e)[Len(q) + 1] = e
           /\ \A i \in 1 .. Len(q) : Append(q, e)[i] = q[i]
  OBVIOUS

(* What push() does to the queue: it appends the record, if there is room, *)
(* and then rings.                                                         *)
LEMMA PushFacts ==
    ASSUME TypeOK, NEW record \in Nat \cup {None}, push(record)
    PROVE  /\ queue' \in Seq(Nat \cup {None}) /\ Len(queue') <= QueueSize
           /\ line' \in BOOLEAN /\ isr' = isr /\ flagged' = flagged
           /\ line => line'
           /\ Len(queue) < QueueSize =>
                 line' /\ queue' # << >> /\ \E i \in DOMAIN queue' : queue'[i] = record
           /\ ~(Len(queue) < QueueSize) => queue' = queue /\ line' = line
           /\ \A i \in DOMAIN queue : i \in DOMAIN queue' /\ queue'[i] = queue[i]
           /\ \A i \in DOMAIN queue' :
                 queue'[i] = record \/ (i \in DOMAIN queue /\ queue'[i] = queue[i])
<1>1. CASE Len(queue) < QueueSize
  <2>1. queue' = Append(queue, record) /\ line' /\ isr' = isr /\ flagged' = flagged
    BY <1>1 DEF push
  <2> DEFINE q == Append(queue, record)
  <2>2. /\ q \in Seq(Nat \cup {None}) /\ q # << >>
        /\ Len(queue) \in Nat /\ Len(q) = Len(queue) + 1
        /\ DOMAIN queue = 1 .. Len(queue) /\ DOMAIN q = 1 .. Len(queue) + 1
        /\ q[Len(queue) + 1] = record
        /\ \A i \in 1 .. Len(queue) : q[i] = queue[i]
    <3>1. queue \in Seq(Nat \cup {None}) BY DEF TypeOK
    <3> QED BY <3>1, AppendFacts
  <2> HIDE DEF q
  <2>3. queue' = q BY <2>1 DEF q
  <2>4. Len(q) <= QueueSize BY <1>1, <2>2, SpectrumAssumption
  <2>5. \E i \in DOMAIN q : q[i] = record
    <3>1. Len(queue) + 1 \in DOMAIN q BY <2>2
    <3> QED BY <2>2, <3>1
  <2>6. \A i \in DOMAIN queue : i \in DOMAIN q /\ q[i] = queue[i] BY <2>2
  <2>7. \A i \in DOMAIN q : q[i] = record \/ (i \in DOMAIN queue /\ q[i] = queue[i])
    <3>1. \A i \in DOMAIN q : i = Len(queue) + 1 \/ i \in DOMAIN queue BY <2>2
    <3> QED BY <2>2, <3>1
  <2> QED BY <1>1, <2>1, <2>2, <2>3, <2>4, <2>5, <2>6, <2>7
<1>2. CASE ~(Len(queue) < QueueSize)
  BY <1>2 DEF TypeOK, push
<1> QED BY <1>1, <1>2

(* What the first record's removal does to the queue.                      *)
LEMMA PopFacts ==
    ASSUME NEW S, NEW q \in Seq(S), q # << >>
    PROVE  /\ Head(q) \in S /\ Tail(q) \in Seq(S)
           /\ Len(Tail(q)) \in Nat /\ Len(Tail(q)) = Len(q) - 1
           /\ \A i \in DOMAIN Tail(q) : i + 1 \in DOMAIN q /\ Tail(q)[i] = q[i + 1]
           /\ \A i \in DOMAIN q : q[i] = Head(q) \/ \E j \in DOMAIN Tail(q) : Tail(q)[j] = q[i]
           /\ \E i \in DOMAIN q : q[i] = Head(q)
<1>1. Len(q) \in Nat \ {0} /\ DOMAIN q = 1 .. Len(q) /\ Head(q) = q[1] OBVIOUS
<1>2. /\ Tail(q) \in Seq(S) /\ Len(Tail(q)) = Len(q) - 1
      /\ \A i \in 1 .. Len(q) - 1 : Tail(q)[i] = q[i + 1]
  BY <1>1
<1>3. DOMAIN Tail(q) = 1 .. Len(q) - 1 BY <1>1, <1>2
<1>4. ASSUME NEW i \in DOMAIN q, q[i] # Head(q) PROVE \E j \in DOMAIN Tail(q) : Tail(q)[j] = q[i]
  <2>1. i - 1 \in 1 .. Len(q) - 1 BY <1>1, <1>4
  <2>2. Tail(q)[i - 1] = q[i] BY <1>1, <1>2, <2>1
  <2> QED BY <1>3, <2>1, <2>2
<1> QED BY <1>1, <1>2, <1>3, <1>4

(* The lists of calls a step of the M0 leaves.                             *)
LEMMA Calls ==
    ASSUME CallInv, todo # << >>
    PROVE  /\ Tail(todo) \in {<< >>, <<"start">>, <<"view", "start">>, <<"image", "start">>}
           /\ Head(todo) \in {"stop", "start", "view", "image"}
           /\ Tail(todo) = <<"image", "start">> => next = "wait"
           /\ Head(todo) = "image" => next = "wait"
           /\ Head(todo) \in {"view", "image"} => Tail(todo) = <<"start">>
           /\ todo = <<"start">> => Head(todo) = "start" /\ Tail(todo) = << >>
           /\ Tail(todo) = << >> /\ Head(todo) # "stop" => todo = <<"start">>
<1>1. CASE todo = <<"stop">> BY <1>1
<1>2. CASE todo = <<"start">> BY <1>2
<1>3. CASE todo = <<"stop", "view", "start">> BY <1>3
<1>4. CASE todo = <<"view", "start">> BY <1>4
<1>5. CASE todo = <<"stop", "image", "start">> BY <1>5 DEF CallInv
<1>6. CASE todo = <<"image", "start">> BY <1>6 DEF CallInv
<1> QED BY <1>1, <1>2, <1>3, <1>4, <1>5, <1>6 DEF CallInv

-----------------------------------------------------------------------------
(* The stream starts in its inductive invariant.                           *)
LEMMA InitInv == Init => IInv
<1> SUFFICES ASSUME Init PROVE IInv OBVIOUS
<1> USE SpectrumAssumption DEF Init
<1>0. << >> \in Seq({"new", "old"}) /\ << >> \in Seq(Nat \cup {None})
      /\ << >> \in Seq({"start", "stop", "view", "image"})
      /\ Len(<< >>) <= FifoSize /\ Len(<< >>) <= QueueSize
  OBVIOUS
<1>1. TypeOK BY <1>0 DEF TypeOK
<1>2. RequestInv /\ BufferInv /\ NoticeInv BY DEF RequestInv, BufferInv, NoticeInv
<1>3. CallInv BY DEF CallInv
<1>4. QueueInv /\ ConfigInv BY DEF QueueInv, ConfigInv
<1> QED BY <1>1, <1>2, <1>3, <1>4 DEF IInv


-----------------------------------------------------------------------------
(* A restart keeps the FIFO's length.                                      *)
LEMMA AllOld ==
    ASSUME NEW f \in Seq({"new", "old"})
    PROVE  /\ [i \in DOMAIN f |-> "old"] \in Seq({"new", "old"})
           /\ Len([i \in DOMAIN f |-> "old"]) = Len(f)
<1>1. DOMAIN f = 1 .. Len(f) /\ Len(f) \in Nat OBVIOUS
<1>2. [i \in 1 .. Len(f) |-> "old"] \in Seq({"new", "old"}) BY <1>1
<1>3. Len([i \in 1 .. Len(f) |-> "old"]) = Len(f) BY <1>1
<1> QED BY <1>1, <1>2, <1>3

(* Every step keeps the types.                                             *)
LEMMA TypeStep == ASSUME TypeOK, CallInv, [Next]_vars PROVE TypeOK'
<1> USE SpectrumAssumption DEF collector, m4vars, appqueue, uivars
<1>1. CASE post_message BY <1>1 DEF post_message, TypeOK
<1>2. CASE Wait BY <1>2 DEF Wait, TypeOK
<1>3. CASE HandleBaseband
  <2>1. CASE "baseband" \in round /\ message = "start"
    <3>1. start BY <1>3, <2>1 DEF HandleBaseband
    <3>2. push(image) /\ image \in Nat BY <3>1 DEF start, TypeOK
    <3>3. /\ queue' \in Seq(Nat \cup {None}) /\ Len(queue') <= QueueSize
          /\ line' \in BOOLEAN /\ isr' = isr /\ flagged' = flagged
      BY <3>2, PushFacts
    <3>4. fifo' \in Seq({"new", "old"}) /\ Len(fifo') <= FifoSize
      BY <3>1, AllOld DEF start, TypeOK
    <3>5. streaming' = TRUE /\ UNCHANGED request /\ buf' \in [age : {"new", "old"}, bit : {0, 1}]
      BY <3>1 DEF start, TypeOK
    <3>6. m4' = "spectrum" /\ message' = "none" /\ UNCHANGED <<image, events, round, uivars>>
      BY <1>3, <2>1 DEF HandleBaseband
    <3> QED BY <3>3, <3>4, <3>5, <3>6 DEF TypeOK
  <2>2. CASE "baseband" \in round /\ message = "stop"
    <3>1. streaming' \in BOOLEAN /\ fifo' = << >> BY <1>3, <2>2 DEF HandleBaseband, stop
    <3>2. << >> \in Seq({"new", "old"}) /\ Len(<< >>) <= FifoSize OBVIOUS
    <3>3. fifo' \in Seq({"new", "old"}) /\ Len(fifo') <= FifoSize BY <3>1, <3>2
    <3> QED BY <1>3, <2>2, <3>1, <3>3 DEF HandleBaseband, stop, TypeOK
  <2>3. CASE ~("baseband" \in round /\ message # "none")
    BY <1>3, <2>3 DEF HandleBaseband, TypeOK
  <2> QED BY <2>1, <2>2, <2>3 DEF TypeOK
<1>4. CASE HandleSpectrum BY <1>4 DEF HandleSpectrum, TypeOK
<1>5. CASE Fft
  <2>1. fifo' \in Seq({"new", "old"}) /\ Len(fifo') <= FifoSize
    <3>1. buf.age \in {"new", "old"} /\ Len(fifo) \in Nat BY DEF TypeOK
    <3>2. /\ Append(fifo, buf.age) \in Seq({"new", "old"})
          /\ Len(Append(fifo, buf.age)) = Len(fifo) + 1
      BY <3>1, AppendFacts DEF TypeOK
    <3> QED BY <1>5, <3>1, <3>2 DEF Fft, TypeOK
  <2> QED BY <1>5, <2>1 DEF Fft, TypeOK
<1>6. CASE Clear
  <2>1. request' \in BOOLEAN BY <1>6 DEF Clear
  <2> QED BY <1>6, <2>1 DEF Clear, TypeOK
<1>7. CASE Report
  <2>1. push(None) /\ UNCHANGED <<image, collector, m4vars, message, uivars>> BY <1>7 DEF Report
  <2>2. /\ queue' \in Seq(Nat \cup {None}) /\ Len(queue') <= QueueSize
        /\ line' \in BOOLEAN /\ isr' = isr /\ flagged' = flagged
    BY <2>1, PushFacts
  <2> QED BY <2>1, <2>2 DEF TypeOK
<1>8. CASE IsrCheck BY <1>8 DEF IsrCheck, TypeOK
<1>9. CASE IsrClear
  <2>1. line' \in BOOLEAN BY <1>9 DEF IsrClear
  <2> QED BY <1>9, <2>1 DEF IsrClear, TypeOK
<1>10. CASE Round
  <2>1. seen' \in BOOLEAN /\ flagged' \in BOOLEAN /\ ui' = "application"
    BY <1>10 DEF Round, UiAt, TypeOK
  <2> QED BY <1>10, <2>1 DEF Round, TypeOK
<1>11. CASE HandleQueue
  <2>1. /\ Head(queue) \in Nat \cup {None}
        /\ Tail(queue) \in Seq(Nat \cup {None}) /\ Len(Tail(queue)) = Len(queue) - 1
    BY <1>11, PopFacts DEF HandleQueue, TypeOK
  <2> QED BY <1>11, <2>1 DEF HandleQueue, UiAt, TypeOK
<1>12. CASE QueueDone BY <1>12 DEF QueueDone, UiAt, TypeOK
<1>13. ASSUME NEW at \in {"switches", "input"}, Input(at) PROVE TypeOK'
  <2>1. next' \in {"wait", "frame"} /\ ui' = "call" BY <1>13 DEF Input, UiAt, Following
  <2>2. todo' \in Seq({"start", "stop", "view", "image"})
    <3>1. todo' \in {<< >>, <<"stop">>, <<"start">>, <<"stop", "view", "start">>,
                     <<"stop", "image", "start">>}
      BY <1>13 DEF Input
    <3> DEFINE S == {"start", "stop", "view", "image"}
    <3>2. /\ << >> \in Seq(S) /\ <<"stop">> \in Seq(S) /\ <<"start">> \in Seq(S)
          /\ <<"stop", "view", "start">> \in Seq(S) /\ <<"stop", "image", "start">> \in Seq(S)
      OBVIOUS
    <3> HIDE DEF S
    <3>3. todo' \in Seq(S) BY <3>1, <3>2
    <3> QED BY <3>3 DEF S
  <2> QED BY <1>13, <2>1, <2>2 DEF Input, TypeOK
<1>14. CASE Return BY <1>14 DEF Return, UiAt, TypeOK
<1>15. CASE Send BY <1>15 DEF Send, UiAt, TypeOK
<1>16. CASE SendReturn
  <2>1. todo # << >> BY <1>16 DEF SendReturn, UiAt, CallInv
  <2>2. Tail(todo) \in Seq({"start", "stop", "view", "image"}) BY <2>1, PopFacts DEF TypeOK
  <2> QED BY <1>16, <2>2 DEF SendReturn, UiAt, TypeOK
<1>17. CASE NewImage
  <2>1. Tail(todo) \in Seq({"start", "stop", "view", "image"}) BY <1>17, PopFacts DEF NewImage, TypeOK
  <2>2. /\ fifo' = << >> /\ queue' = << >> /\ events' = {} /\ round' = {}
        /\ streaming' = FALSE /\ request' = FALSE /\ image' = image + 1
        /\ ptr' \in {ptr, None} /\ ui' = "call" /\ todo' = Tail(todo)
        /\ UNCHANGED <<buf, m4, message, line, isr, flagged, seen, next>>
    BY <1>17 DEF NewImage, UiAt
  <2>3. /\ << >> \in Seq({"new", "old"}) /\ << >> \in Seq(Nat \cup {None})
        /\ Len(<< >>) <= FifoSize /\ Len(<< >>) <= QueueSize
    OBVIOUS
  <2>4. /\ fifo' \in Seq({"new", "old"}) /\ queue' \in Seq(Nat \cup {None})
        /\ Len(fifo') <= FifoSize /\ Len(queue') <= QueueSize
        /\ streaming' \in BOOLEAN /\ request' \in BOOLEAN
    BY <2>2, <2>3
  <2>5. todo' \in Seq({"start", "stop", "view", "image"}) BY <2>1, <2>2
  <2>6. image' \in Nat /\ ptr' \in Nat \cup {None} BY <2>2 DEF TypeOK
  <2>7. events' \subseteq {"baseband", "spectrum"} /\ round' \subseteq {"baseband", "spectrum"}
        /\ ui' \in {"wait", "application", "switches", "frame", "input", "call", "spin"}
    BY <2>2
  <2>8. UNCHANGED <<buf, m4, message, line, isr, flagged, seen, next>> BY <2>2
  <2> QED BY <2>4, <2>5, <2>6, <2>7, <2>8 DEF TypeOK
<1>18. CASE FrameSync
  <2>1. Tail(fifo) \in Seq({"new", "old"}) /\ Len(Tail(fifo)) = Len(fifo) - 1 /\ Len(fifo) \in Nat
    BY <1>18, PopFacts DEF FrameSync, TypeOK
  <2> QED BY <1>18, <2>1 DEF FrameSync, UiAt, TypeOK
<1>19. CASE FrameDone BY <1>19 DEF FrameDone, UiAt, Following, TypeOK
<1>20. CASE UNCHANGED vars BY <1>20 DEF vars, TypeOK
<1> QED BY <1>1, <1>2, <1>3, <1>4, <1>5, <1>6, <1>7, <1>8, <1>9, <1>10, <1>11, <1>12, <1>13,
           <1>14, <1>15, <1>16, <1>17, <1>18, <1>19, <1>20 DEF Next, M4Step, M0Step

(* A buffer that waits for the event loop stays on its way.                *)
LEMMA RequestStep == ASSUME TypeOK, RequestInv, [Next]_vars PROVE RequestInv'
<1> USE DEF collector, m4vars, appqueue, uivars
<1>1. CASE post_message BY <1>1 DEF post_message, TypeOK, RequestInv
<1>2. CASE Wait BY <1>2 DEF Wait, TypeOK, RequestInv
<1>3. CASE HandleBaseband
  <2>1. m4 = "baseband" /\ m4' = "spectrum" /\ UNCHANGED <<request, events, round>>
    BY <1>3 DEF HandleBaseband, start, stop
  <2> QED BY <2>1 DEF RequestInv
<1>4. CASE HandleSpectrum BY <1>4 DEF HandleSpectrum, TypeOK, RequestInv
<1>5. CASE Fft BY <1>5 DEF Fft, TypeOK, RequestInv
<1>6. CASE Clear BY <1>6 DEF Clear, TypeOK, RequestInv
<1>7. CASE Report BY <1>7 DEF Report, RequestInv
<1>8. CASE IsrCheck BY <1>8 DEF IsrCheck, TypeOK, RequestInv
<1>9. CASE IsrClear BY <1>9 DEF IsrClear, TypeOK, RequestInv
<1>10. CASE Round BY <1>10 DEF Round, UiAt, TypeOK, RequestInv
<1>11. CASE HandleQueue BY <1>11 DEF HandleQueue, UiAt, TypeOK, RequestInv
<1>12. CASE QueueDone BY <1>12 DEF QueueDone, UiAt, TypeOK, RequestInv
<1>13. ASSUME NEW at \in {"switches", "input"}, Input(at) PROVE RequestInv' BY <1>13 DEF Input, UiAt, TypeOK, RequestInv
<1>14. CASE Return BY <1>14 DEF Return, UiAt, TypeOK, RequestInv
<1>15. CASE Send BY <1>15 DEF Send, UiAt, TypeOK, RequestInv
<1>16. CASE SendReturn BY <1>16 DEF SendReturn, UiAt, TypeOK, RequestInv
<1>17. CASE NewImage BY <1>17 DEF NewImage, RequestInv
<1>18. CASE FrameSync BY <1>18 DEF FrameSync, UiAt, TypeOK, RequestInv
<1>19. CASE FrameDone BY <1>19 DEF FrameDone, UiAt, TypeOK, RequestInv
<1>20. CASE UNCHANGED vars BY <1>20 DEF vars, TypeOK, RequestInv
<1> QED BY <1>1, <1>2, <1>3, <1>4, <1>5, <1>6, <1>7, <1>8, <1>9, <1>10, <1>11, <1>12, <1>13,
           <1>14, <1>15, <1>16, <1>17, <1>18, <1>19, <1>20 DEF Next, M4Step, M0Step

(* Every step keeps the order of old and new in the FIFO: the old spectrum *)
(* that is still to come finds the FIFO empty.                             *)
LEMMA BufferStep == ASSUME TypeOK, BufferInv, OldOnlyFirst, [Next]_vars PROVE (BufferInv /\ OldOnlyFirst)'
<1> USE SpectrumAssumption DEF collector, m4vars, appqueue, uivars
<1>0. ASSUME UNCHANGED <<streaming, request, buf, fifo>>, m4' = "fft" => m4 = "fft", m4 = "clear" => m4' = "clear"
      PROVE  (BufferInv /\ OldOnlyFirst)'
  BY <1>0 DEF BufferInv, OldOnlyFirst
<1>1. CASE post_message BY <1>1 DEF post_message, TypeOK, BufferInv, OldOnlyFirst
<1>2. CASE Wait BY <1>2, <1>0 DEF Wait, TypeOK
<1>3. CASE HandleBaseband
  <2>1. m4 = "baseband" /\ m4' = "spectrum" /\ UNCHANGED request BY <1>3 DEF HandleBaseband, start, stop
  <2>2. CASE UNCHANGED collector BY <1>0, <2>1, <2>2
  <2>3. CASE stop BY <2>1, <2>3 DEF stop, TypeOK, BufferInv, OldOnlyFirst
  <2>4. CASE start /\ streaming BY <2>1, <2>4 DEF start, BufferInv, OldOnlyFirst
  <2>5. CASE start /\ ~streaming
    <3>1. fifo = << >> BY <2>5 DEF BufferInv
    <3>2. DOMAIN fifo = {} BY <3>1
    <3>3. [i \in DOMAIN fifo |-> "old"] = << >> BY <3>2
    <3>4. fifo' = << >> BY <2>5, <3>3 DEF start
    <3> QED BY <2>1, <3>4 DEF BufferInv, OldOnlyFirst
  <2> QED BY <1>3, <2>2, <2>3, <2>4, <2>5 DEF HandleBaseband
<1>4. CASE HandleSpectrum BY <1>4 DEF HandleSpectrum, TypeOK, BufferInv, OldOnlyFirst
<1>5. CASE Fft
  <2>1. m4' = "clear" /\ UNCHANGED <<streaming, request, buf>> /\ streaming /\ request
    BY <1>5 DEF Fft, BufferInv
  <2>2. OldOnlyFirst'
    <3>1. CASE fifo' = fifo BY <3>1 DEF OldOnlyFirst
    <3>2. CASE fifo' = Append(fifo, buf.age)
      <4>1. buf.age \in {"new", "old"} BY DEF TypeOK
      <4>2. buf.age = "old" => fifo = << >> BY <1>5, <2>1 DEF Fft, BufferInv
      <4>3. /\ Len(fifo) \in Nat /\ DOMAIN fifo = 1 .. Len(fifo) /\ DOMAIN fifo' = 1 .. Len(fifo) + 1
            /\ fifo'[Len(fifo) + 1] = buf.age /\ \A i \in 1 .. Len(fifo) : fifo'[i] = fifo[i]
        BY <3>2, <4>1, AppendFacts DEF TypeOK
      <4>4. fifo = << >> => Len(fifo) = 0 OBVIOUS
      <4> QED BY <4>1, <4>2, <4>3, <4>4 DEF OldOnlyFirst
    <3> QED BY <1>5, <3>1, <3>2 DEF Fft
  <2> QED BY <2>1, <2>2 DEF BufferInv
<1>6. CASE Clear BY <1>6 DEF Clear, TypeOK, BufferInv, OldOnlyFirst
<1>7. CASE Report BY <1>0, <1>7 DEF Report
<1>8. CASE IsrCheck BY <1>8, <1>0 DEF IsrCheck, TypeOK
<1>9. CASE IsrClear BY <1>9, <1>0 DEF IsrClear, TypeOK
<1>10. CASE Round BY <1>10, <1>0 DEF Round, UiAt, TypeOK
<1>11. CASE HandleQueue BY <1>11, <1>0 DEF HandleQueue, UiAt, TypeOK
<1>12. CASE QueueDone BY <1>12, <1>0 DEF QueueDone, UiAt, TypeOK
<1>13. ASSUME NEW at \in {"switches", "input"}, Input(at) PROVE (BufferInv /\ OldOnlyFirst)'
  BY <1>13, <1>0 DEF Input, UiAt, TypeOK
<1>14. CASE Return BY <1>14, <1>0 DEF Return, UiAt, TypeOK
<1>15. CASE Send BY <1>15, <1>0 DEF Send, UiAt, TypeOK
<1>16. CASE SendReturn BY <1>16, <1>0 DEF SendReturn, UiAt, TypeOK
<1>17. CASE NewImage BY <1>17 DEF NewImage, TypeOK, BufferInv, OldOnlyFirst
<1>18. CASE FrameSync
  <2>1. fifo' = Tail(fifo) /\ UNCHANGED <<streaming, request, buf, m4>> BY <1>18 DEF FrameSync
  <2>2. fifo # << >> BY <1>18 DEF FrameSync
  <2>3. \A i \in DOMAIN Tail(fifo) : i + 1 \in DOMAIN fifo /\ Tail(fifo)[i] = fifo[i + 1]
    BY <2>2, PopFacts DEF TypeOK
  <2>4. \A i \in DOMAIN Tail(fifo) : i \in Nat \ {0}
    <3>1. Tail(fifo) \in Seq({"new", "old"}) BY <2>2, PopFacts DEF TypeOK
    <3> QED BY <3>1
  <2>5. OldOnlyFirst'
    <3> SUFFICES ASSUME NEW i \in DOMAIN Tail(fifo), i > 1 PROVE Tail(fifo)[i] = "new"
      BY <2>1 DEF OldOnlyFirst
    <3>1. i + 1 > 1 BY <2>4
    <3> QED BY <2>3, <3>1 DEF OldOnlyFirst
  <2> QED BY <2>1, <2>2, <2>5 DEF BufferInv
<1>19. CASE FrameDone BY <1>19, <1>0 DEF FrameDone, UiAt, TypeOK
<1>20. CASE UNCHANGED vars BY <1>20, <1>0 DEF vars, TypeOK
<1> QED BY <1>1, <1>2, <1>3, <1>4, <1>5, <1>6, <1>7, <1>8, <1>9, <1>10, <1>11, <1>12, <1>13,
           <1>14, <1>15, <1>16, <1>17, <1>18, <1>19, <1>20 DEF Next, M4Step, M0Step

(* Every step keeps the M0's calls in order.                               *)
LEMMA CallStep == ASSUME TypeOK, CallInv, [Next]_vars PROVE CallInv'
<1> USE SpectrumAssumption DEF collector, m4vars, appqueue, uivars
<1>0. ASSUME UNCHANGED <<todo, next, message, ui>>
      PROVE  CallInv'
  BY <1>0 DEF CallInv
<1>1. CASE post_message BY <1>1, <1>0 DEF post_message, CallInv
<1>2. CASE Wait BY <1>2, <1>0 DEF Wait, CallInv
<1>3. CASE HandleBaseband
  <2>1. message' \in {"none", message} /\ UNCHANGED <<ui, todo, next>> BY <1>3 DEF HandleBaseband
  <2> QED BY <2>1 DEF CallInv
<1>4. CASE HandleSpectrum BY <1>4, <1>0 DEF HandleSpectrum, CallInv
<1>5. CASE Fft BY <1>5, <1>0 DEF Fft, CallInv
<1>6. CASE Clear BY <1>6, <1>0 DEF Clear, CallInv
<1>7. CASE Report BY <1>7, <1>0 DEF Report, CallInv
<1>8. CASE IsrCheck BY <1>8, <1>0 DEF IsrCheck, CallInv
<1>9. CASE IsrClear BY <1>9, <1>0 DEF IsrClear, CallInv
<1>10. CASE Round BY <1>10 DEF Round, UiAt, CallInv
<1>11. CASE HandleQueue BY <1>11, <1>0 DEF HandleQueue, UiAt
<1>12. CASE QueueDone BY <1>12 DEF QueueDone, UiAt, CallInv
<1>13. ASSUME NEW at \in {"switches", "input"}, Input(at) PROVE CallInv'
  <2>1. /\ todo' \in {<< >>, <<"stop">>, <<"start">>, <<"stop", "view", "start">>,
                     <<"stop", "image", "start">>}
        /\ at = "switches" => todo' # <<"stop", "image", "start">>
        /\ ui' = "call" /\ ui = at /\ message' = message /\ next' = Following[at]
    BY <1>13 DEF Input, UiAt
  <2>2. at = "input" => next' = "wait" BY <2>1 DEF Following
  <2>3. message = "none" BY <2>1 DEF CallInv
  <2>4. todo' # <<"image", "start">>
    <3>1. /\ <<"stop">> # <<"image", "start">> /\ <<"start">> # <<"image", "start">>
          /\ << >> # <<"image", "start">> /\ <<"stop", "view", "start">> # <<"image", "start">>
          /\ <<"stop", "image", "start">> # <<"image", "start">>
      OBVIOUS
    <3> QED BY <2>1, <3>1
  <2>5. todo' \in {<<"stop", "image", "start">>, <<"image", "start">>} => next' = "wait"
    BY <2>1, <2>2, <2>4
  <2>6. ui' \in {"call", "spin"} /\ ui' # "spin" /\ message' = "none" BY <2>1, <2>3
  <2>7. todo' \in {<< >>, <<"stop">>, <<"start">>, <<"stop", "view", "start">>, <<"view", "start">>,
                  <<"stop", "image", "start">>, <<"image", "start">>}
    BY <2>1
  <2> QED BY <2>5, <2>6, <2>7 DEF CallInv
<1>14. CASE Return BY <1>14 DEF Return, UiAt, CallInv, TypeOK
<1>15. CASE Send
  <2>1. /\ ui = "call" /\ ui' = "spin" /\ todo # << >> /\ message' = Head(todo)
        /\ UNCHANGED <<todo, next>>
    BY <1>15 DEF Send, UiAt
  <2> QED BY <2>1 DEF CallInv
<1>16. CASE SendReturn
  <2>1. ui = "spin" /\ ui' = "call" /\ message = "none" /\ UNCHANGED <<message, next>> /\ todo' = Tail(todo)
    BY <1>16 DEF SendReturn, UiAt
  <2>2. todo # << >> BY <2>1 DEF CallInv
  <2>3. /\ todo' \in {<< >>, <<"start">>, <<"view", "start">>, <<"image", "start">>}
        /\ todo' = <<"image", "start">> => next = "wait"
    BY <2>1, <2>2, Calls
  <2>4. todo' # <<"stop", "image", "start">>
    <3>1. Len(todo') \in {0, 1, 2} BY <2>3
    <3> QED BY <3>1
  <2> QED BY <2>1, <2>3, <2>4 DEF CallInv
<1>17. CASE NewImage
  <2>1. /\ ui = "call" /\ ui' = "call" /\ UNCHANGED <<message, next>> /\ todo' = Tail(todo)
        /\ todo # << >> /\ Head(todo) \in {"view", "image"}
    BY <1>17 DEF NewImage, UiAt
  <2>2. todo' = <<"start">> BY <2>1, Calls
  <2>3. todo' \notin {<<"stop", "image", "start">>, <<"image", "start">>} BY <2>2
  <2> QED BY <2>1, <2>2, <2>3 DEF CallInv
<1>18. CASE FrameSync BY <1>18, <1>0 DEF FrameSync, UiAt
<1>19. CASE FrameDone BY <1>19 DEF FrameDone, UiAt, Following, CallInv
<1>20. CASE UNCHANGED vars BY <1>20, <1>0 DEF vars, CallInv
<1> QED BY <1>1, <1>2, <1>3, <1>4, <1>5, <1>6, <1>7, <1>8, <1>9, <1>10, <1>11, <1>12, <1>13,
           <1>14, <1>15, <1>16, <1>17, <1>18, <1>19, <1>20 DEF Next, M4Step, M0Step

(* Every step keeps the M0 informed of a queue that is not empty: the      *)
(* interrupt clears the line only after it has looked.                     *)
LEMMA NoticeStep == ASSUME TypeOK, NoticeInv, [Next]_vars PROVE NoticeInv'
<1> USE SpectrumAssumption DEF collector, m4vars, appqueue, uivars
<1>0. ASSUME UNCHANGED <<queue, line, isr, flagged, seen>>, ui = "application" => ui' = ui
      PROVE  NoticeInv'
  BY <1>0 DEF NoticeInv
<1>21. ASSUME NEW record \in Nat \cup {None}, push(record), UNCHANGED <<seen, ui>>
      PROVE  NoticeInv'
  <2>1. /\ isr' = isr /\ flagged' = flagged /\ seen' = seen /\ ui' = ui
        /\ Len(queue) < QueueSize => queue' # << >>
        /\ ~(Len(queue) < QueueSize) => queue' = queue
    BY <1>21, PushFacts
  <2>2. line' = (line \/ Len(queue) < QueueSize) BY <1>21 DEF push
  <2>3. line' <=> line \/ Len(queue) < QueueSize BY Zenon, <2>2
  <2>4. isr' = "checked" => flagged' /\ line' BY Zenon, <2>1, <2>3 DEF NoticeInv
  <2>5. line' => queue' # << >> BY Zenon, <2>1, <2>3 DEF NoticeInv
  <2>6. queue' # << >> => line' \/ flagged' \/ (seen' /\ ui' = "application")
    BY Zenon, <2>1, <2>3 DEF NoticeInv
  <2> QED BY <2>4, <2>5, <2>6 DEF NoticeInv
<1>1. CASE post_message BY <1>1, <1>0 DEF post_message, TypeOK
<1>2. CASE Wait BY <1>2, <1>0 DEF Wait, TypeOK
<1>3. CASE HandleBaseband
  <2>1. CASE start BY <1>3, <2>1, <1>21 DEF HandleBaseband, start, TypeOK
  <2>2. CASE UNCHANGED appqueue BY <1>3, <1>0, <2>2 DEF HandleBaseband
  <2> QED BY <1>3, <2>1, <2>2 DEF HandleBaseband, stop
<1>4. CASE HandleSpectrum BY <1>4, <1>0 DEF HandleSpectrum, TypeOK
<1>5. CASE Fft BY <1>5, <1>0 DEF Fft, TypeOK
<1>6. CASE Clear BY <1>6, <1>0 DEF Clear, TypeOK
<1>7. CASE Report BY <1>7, <1>21 DEF Report
<1>8. CASE IsrCheck BY <1>8 DEF IsrCheck, TypeOK, NoticeInv
<1>9. CASE IsrClear BY <1>9 DEF IsrClear, TypeOK, NoticeInv
<1>10. CASE Round BY <1>10 DEF Round, UiAt, TypeOK, NoticeInv
<1>11. CASE HandleQueue BY <1>11 DEF HandleQueue, UiAt, TypeOK, NoticeInv
<1>12. CASE QueueDone BY <1>12 DEF QueueDone, UiAt, TypeOK, NoticeInv
<1>13. ASSUME NEW at \in {"switches", "input"}, Input(at) PROVE NoticeInv'
  BY <1>13, <1>0 DEF Input, UiAt, TypeOK
<1>14. CASE Return BY <1>14, <1>0 DEF Return, UiAt, TypeOK
<1>15. CASE Send BY <1>15, <1>0 DEF Send, UiAt, TypeOK
<1>16. CASE SendReturn BY <1>16, <1>0 DEF SendReturn, UiAt, TypeOK
<1>17. CASE NewImage BY <1>17 DEF NewImage, UiAt, TypeOK, NoticeInv
<1>18. CASE FrameSync BY <1>18, <1>0 DEF FrameSync, UiAt, TypeOK
<1>19. CASE FrameDone BY <1>19, <1>0 DEF FrameDone, UiAt, TypeOK
<1>20. CASE UNCHANGED vars BY <1>20, <1>0 DEF vars, TypeOK
<1> QED BY <1>1, <1>2, <1>3, <1>4, <1>5, <1>6, <1>7, <1>8, <1>9, <1>10, <1>11, <1>12, <1>13,
           <1>14, <1>15, <1>16, <1>17, <1>18, <1>19, <1>20 DEF Next, M4Step, M0Step

(* Every step leaves messages of this image only in the queue: a new image *)
(* empties it.                                                             *)
LEMMA QueueStep == ASSUME TypeOK, QueueInv, [Next]_vars PROVE QueueInv'
<1> USE SpectrumAssumption DEF collector, m4vars, appqueue, uivars
<1>0. ASSUME UNCHANGED <<queue, image>> PROVE QueueInv'
  BY <1>0 DEF QueueInv
<1>21. ASSUME NEW record \in {None, image}, push(record), UNCHANGED image PROVE QueueInv'
  <2>1. record \in Nat \cup {None} BY DEF TypeOK
  <2>2. \A i \in DOMAIN queue' : queue'[i] = record \/ (i \in DOMAIN queue /\ queue'[i] = queue[i])
    BY <1>21, <2>1, PushFacts
  <2> QED BY <1>21, <2>2 DEF QueueInv
<1>1. CASE post_message BY <1>1, <1>0 DEF post_message, TypeOK
<1>2. CASE Wait BY <1>2, <1>0 DEF Wait, TypeOK
<1>3. CASE HandleBaseband
  <2>1. CASE start BY <1>3, <2>1, <1>21 DEF HandleBaseband, start
  <2>2. CASE UNCHANGED appqueue BY <1>3, <1>0, <2>2 DEF HandleBaseband
  <2> QED BY <1>3, <2>1, <2>2 DEF HandleBaseband, stop
<1>4. CASE HandleSpectrum BY <1>4, <1>0 DEF HandleSpectrum, TypeOK
<1>5. CASE Fft BY <1>5, <1>0 DEF Fft, TypeOK
<1>6. CASE Clear BY <1>6, <1>0 DEF Clear, TypeOK
<1>7. CASE Report BY <1>7, <1>21 DEF Report
<1>8. CASE IsrCheck BY <1>8, <1>0 DEF IsrCheck, TypeOK
<1>9. CASE IsrClear BY <1>9, <1>0 DEF IsrClear, TypeOK
<1>10. CASE Round BY <1>10, <1>0 DEF Round, UiAt, TypeOK
<1>11. CASE HandleQueue
  <2>1. queue' = Tail(queue) /\ queue # << >> /\ image' = image BY <1>11 DEF HandleQueue
  <2>2. \A i \in DOMAIN Tail(queue) : i + 1 \in DOMAIN queue /\ Tail(queue)[i] = queue[i + 1]
    BY <2>1, PopFacts DEF TypeOK
  <2> QED BY <2>1, <2>2 DEF QueueInv
<1>12. CASE QueueDone BY <1>12, <1>0 DEF QueueDone, UiAt, TypeOK
<1>13. ASSUME NEW at \in {"switches", "input"}, Input(at) PROVE QueueInv'
  BY <1>13, <1>0 DEF Input, UiAt, TypeOK
<1>14. CASE Return BY <1>14, <1>0 DEF Return, UiAt, TypeOK
<1>15. CASE Send BY <1>15, <1>0 DEF Send, UiAt, TypeOK
<1>16. CASE SendReturn BY <1>16, <1>0 DEF SendReturn, UiAt, TypeOK
<1>17. CASE NewImage BY <1>17 DEF NewImage, UiAt, QueueInv
<1>18. CASE FrameSync BY <1>18, <1>0 DEF FrameSync, UiAt, TypeOK
<1>19. CASE FrameDone BY <1>19, <1>0 DEF FrameDone, UiAt, TypeOK
<1>20. CASE UNCHANGED vars BY <1>20, <1>0 DEF vars, TypeOK
<1> QED BY <1>1, <1>2, <1>3, <1>4, <1>5, <1>6, <1>7, <1>8, <1>9, <1>10, <1>11, <1>12, <1>13,
           <1>14, <1>15, <1>16, <1>17, <1>18, <1>19, <1>20 DEF Next, M4Step, M0Step

(* Every step keeps the new pointer on its way to a waterfall with an old   *)
(* one: the call is made before the round ends, the M4's push finds room,  *)
(* and the next round begins with the queue.                               *)
LEMMA ConfigStep == ASSUME TypeOK, NoticeInv, CallInv, QueueInv, ConfigInv, [Next]_vars PROVE ConfigInv'
<1> USE SpectrumAssumption DEF collector, m4vars, appqueue, uivars
<1>0. ASSUME UNCHANGED <<image, queue, message, seen, ptr, ui, todo, next>> PROVE ConfigInv'
  BY <1>0 DEF ConfigInv
<1> DEFINE queued == \E i \in DOMAIN queue : queue[i] = image
           stale == ptr \notin {None, image}
<1>21. image \in Nat \cup {None} /\ None \in Nat \cup {None} /\ image # None BY DEF TypeOK
<1>22. queued => queue # << >> OBVIOUS
<1>1. CASE post_message BY <1>1, <1>0 DEF post_message, TypeOK
<1>2. CASE Wait BY <1>2, <1>0 DEF Wait, TypeOK
<1>3. CASE HandleBaseband
  <2>1. UNCHANGED <<image, seen, ptr, ui, todo, next>> BY <1>3 DEF HandleBaseband
  <2>2. CASE message = "start" /\ start
    <3>1. push(image) /\ ui = "spin" BY <2>2 DEF start, CallInv
    <3>2. /\ Len(queue) < QueueSize => \E i \in DOMAIN queue' : queue'[i] = image
          /\ \A i \in DOMAIN queue : i \in DOMAIN queue' /\ queue'[i] = queue[i]
      BY <1>21, <3>1, PushFacts
    <3>3. queued => queued' BY <2>1, <3>2
    <3>4. Len(queue) < QueueSize => queued' BY <2>1, <3>2
    <3> QED BY <2>1, <3>1, <3>3, <3>4 DEF ConfigInv
  <2>3. CASE message = "stop" /\ UNCHANGED queue
    <3>1. ui = "spin" BY <2>3 DEF CallInv
    <3> QED BY <2>1, <2>3, <3>1 DEF ConfigInv
  <2>4. CASE UNCHANGED <<message, appqueue>> BY <1>0, <2>1, <2>4
  <2> QED BY <1>3, <2>2, <2>3, <2>4 DEF HandleBaseband, stop, TypeOK
<1>4. CASE HandleSpectrum BY <1>4, <1>0 DEF HandleSpectrum, TypeOK
<1>5. CASE Fft BY <1>5, <1>0 DEF Fft, TypeOK
<1>6. CASE Clear BY <1>6, <1>0 DEF Clear, TypeOK
<1>7. CASE Report
  <2>1. push(None) /\ Len(queue) + 1 < QueueSize /\ UNCHANGED <<image, message, seen, ptr, ui, todo, next>>
    BY <1>7 DEF Report
  <2>2. \A i \in DOMAIN queue : i \in DOMAIN queue' /\ queue'[i] = queue[i]
    BY <1>21, <2>1, PushFacts
  <2>3. queued => queued' BY <2>1, <2>2
  <2>4. Len(queue') < QueueSize
    <3>1. Len(queue) \in Nat BY DEF TypeOK
    <3>2. queue' = Append(queue, None) BY <2>1, <3>1 DEF push
    <3> QED BY <1>21, <2>1, <3>1, <3>2, AppendFacts DEF TypeOK
  <2> QED BY <2>1, <2>3, <2>4 DEF ConfigInv
<1>8. CASE IsrCheck BY <1>8, <1>0 DEF IsrCheck, TypeOK
<1>9. CASE IsrClear BY <1>9, <1>0 DEF IsrClear, TypeOK
<1>10. CASE Round
  <2>1. /\ ui = "wait" /\ ui' = "application" /\ seen' = flagged /\ ~line
        /\ UNCHANGED <<image, queue, ptr>>
    BY <1>10 DEF Round, UiAt
  <2>2. stale => queued BY <2>1 DEF ConfigInv
  <2>3. queued => flagged BY <1>22, <2>1 DEF NoticeInv
  <2>4. seen' <=> flagged BY Zenon, <2>1
  <2> QED BY <2>1, <2>2, <2>3, <2>4 DEF ConfigInv
<1>11. CASE HandleQueue
  <2>1. /\ ui = "application" /\ ui' = "application" /\ seen /\ queue # << >>
        /\ ptr' = IF Head(queue) = None THEN ptr ELSE Head(queue)
        /\ queue' = Tail(queue) /\ UNCHANGED <<image, seen>>
    BY <1>11 DEF HandleQueue, UiAt
  <2>2. seen' BY Zenon, <2>1
  <2>3. /\ \A i \in DOMAIN queue : queue[i] = Head(queue) \/ \E j \in DOMAIN Tail(queue) : Tail(queue)[j] = queue[i]
        /\ \E i \in DOMAIN queue : queue[i] = Head(queue)
    BY <2>1, PopFacts DEF TypeOK
  <2>4. Head(queue) \in {None, image} BY <2>3 DEF QueueInv
  <2>5. CASE Head(queue) = None
    <3>1. stale' => stale /\ queued BY <2>1, <2>5 DEF ConfigInv
    <3>2. queued => queued' BY <1>21, <2>1, <2>3, <2>5
    <3> QED BY <2>1, <2>2, <3>1, <3>2 DEF ConfigInv
  <2>6. CASE Head(queue) = image BY <1>21, <2>1, <2>6 DEF ConfigInv
  <2> QED BY <2>4, <2>5, <2>6
<1>12. CASE QueueDone
  <2>1. ui = "application" /\ (~seen \/ queue = << >>) /\ UNCHANGED <<image, ptr>>
    BY <1>12 DEF QueueDone, UiAt
  <2>2. ~stale BY <1>22, <2>1 DEF ConfigInv
  <2> QED BY <2>1, <2>2 DEF ConfigInv
<1>13. ASSUME NEW at \in {"switches", "input"}, Input(at) PROVE ConfigInv'
  <2>1. ui = at /\ UNCHANGED <<image, ptr>> BY <1>13 DEF Input, UiAt
  <2>2. ~stale BY <2>1 DEF ConfigInv
  <2> QED BY <2>1, <2>2 DEF ConfigInv
<1>14. CASE Return
  <2>1. ui = "call" /\ ui' = next /\ todo = << >> /\ UNCHANGED <<image, queue, ptr>>
    BY <1>14 DEF Return, UiAt
  <2>2. todo # <<"start">> BY <2>1
  <2>3. stale => queued /\ next = "wait" BY <2>1, <2>2 DEF ConfigInv
  <2> QED BY <2>1, <2>3 DEF ConfigInv
<1>15. CASE Send
  <2>1. /\ ui = "call" /\ ui' = "spin" /\ message' = Head(todo)
        /\ UNCHANGED <<image, queue, ptr, todo, next>>
    BY <1>15 DEF Send, UiAt
  <2>2. todo = <<"start">> => message' = "start" BY <2>1
  <2> QED BY <2>1, <2>2 DEF ConfigInv
<1>16. CASE SendReturn
  <2>1. /\ ui = "spin" /\ ui' = "call" /\ message = "none"
        /\ UNCHANGED <<image, queue, ptr, next>>
    BY <1>16 DEF SendReturn, UiAt
  <2>2. stale => queued /\ next = "wait" BY <2>1 DEF ConfigInv
  <2> QED BY <2>1, <2>2 DEF ConfigInv
<1>17. CASE NewImage
  <2>1. /\ ui' = "call" /\ todo # << >> /\ Head(todo) \in {"view", "image"} /\ todo' = Tail(todo)
        /\ ptr' = (IF Head(todo) = "view" THEN None ELSE ptr)
        /\ queue' = << >> /\ next' = next
    BY <1>17 DEF NewImage, UiAt
  <2>2. todo' = <<"start">> /\ (Head(todo) = "image" => next = "wait") BY <2>1, Calls
  <2>3. Len(queue') < QueueSize BY <2>1
  <2> QED BY <2>1, <2>2, <2>3 DEF ConfigInv
<1>18. CASE FrameSync
  <2>1. ui = "frame" /\ UNCHANGED <<image, ptr>> BY <1>18 DEF FrameSync, UiAt
  <2> QED BY <2>1 DEF ConfigInv
<1>19. CASE FrameDone
  <2>1. ui = "frame" /\ UNCHANGED <<image, ptr>> BY <1>19 DEF FrameDone, UiAt
  <2> QED BY <2>1 DEF ConfigInv
<1>20. CASE UNCHANGED vars BY <1>20, <1>0 DEF vars, TypeOK
<1> QED BY <1>1, <1>2, <1>3, <1>4, <1>5, <1>6, <1>7, <1>8, <1>9, <1>10, <1>11, <1>12, <1>13,
           <1>14, <1>15, <1>16, <1>17, <1>18, <1>19, <1>20 DEF Next, M4Step, M0Step

-----------------------------------------------------------------------------
(* The inductive invariant, with what it says of old spectra.              *)
LEMMA Inductive == Spec => [](IInv /\ OldOnlyFirst)
<1>1. Init => IInv /\ OldOnlyFirst
  <2>1. Init => OldOnlyFirst BY DEF Init, OldOnlyFirst
  <2> QED BY <2>1, InitInv
<1>2. IInv /\ OldOnlyFirst /\ [Next]_vars => (IInv /\ OldOnlyFirst)'
  <2> SUFFICES ASSUME IInv, OldOnlyFirst, [Next]_vars PROVE (IInv /\ OldOnlyFirst)' OBVIOUS
  <2>1. TypeOK /\ RequestInv /\ BufferInv /\ NoticeInv /\ CallInv /\ QueueInv /\ ConfigInv
    BY DEF IInv
  <2>2. TypeOK' BY <2>1, TypeStep
  <2>3. RequestInv' BY <2>1, RequestStep
  <2>4. (BufferInv /\ OldOnlyFirst)' BY <2>1, BufferStep
  <2>5. NoticeInv' BY <2>1, NoticeStep
  <2>6. CallInv' BY <2>1, CallStep
  <2>7. QueueInv' BY <2>1, QueueStep
  <2>8. ConfigInv' BY <2>1, ConfigStep
  <2> QED BY <2>2, <2>3, <2>4, <2>5, <2>6, <2>7, <2>8 DEF IInv
<1> QED BY <1>1, <1>2, PTL DEF Spec

(* The invariant the run checks: no filled buffer is forgotten, nothing in *)
(* the application queue goes unnoticed, and a waterfall with a pointer of *)
(* an earlier image is about to get the new one.                           *)
THEOREM Invariance == Spec => []IInv
<1> QED BY Inductive, PTL

(* However stop, start and the thread that fills the buffer interleave, a  *)
(* restarted stream shows one spectrum from before the stop at most.       *)
THEOREM OldSpectrumFirst == Spec => []OldOnlyFirst
<1> QED BY Inductive, PTL

(* The frame sync handler never drains a FIFO of a replaced image.         *)
THEOREM PointerAlwaysLive == Spec => []PointerLive
<1>1. IInv => PointerLive BY DEF IInv, ConfigInv, PointerLive
<1> QED BY <1>1, Inductive, PTL

(* While the event loop works on the sample buffer nothing changes it: not *)
(* the thread, which finds it in use, and neither start() nor a new image. *)
THEOREM OneOwnerAtATime == Spec => OneOwner
<1>1. IInv /\ [Next]_vars => (m4 = "fft" => buf' = buf)
  <2> SUFFICES ASSUME IInv, [Next]_vars, m4 = "fft" PROVE buf' = buf OBVIOUS
  <2>1. request BY DEF IInv, BufferInv
  <2> QED BY <2>1 DEF Next, M4Step, M0Step, vars, collector, m4vars, uivars, appqueue,
       post_message, Wait, HandleBaseband, HandleSpectrum, Fft, Clear, Report, IsrCheck,
       IsrClear, Round, HandleQueue, QueueDone, Input, Return, Send, SendReturn, NewImage,
       FrameSync, FrameDone
<1> QED BY <1>1, Inductive, PTL DEF Spec, OneOwner

=============================================================================

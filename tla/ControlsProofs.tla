--------------------------- MODULE ControlsProofs ---------------------------
(***************************************************************************)
(* The debounce filters, key events and the display's sleep, for any set   *)
(* of keys, any width of the histories and of the tick counter.            *)
(***************************************************************************)
EXTENDS Controls, TLAPS

-----------------------------------------------------------------------------
(* The remainder of a division is the only one.                            *)
LEMMA Remainder ==
    ASSUME NEW a \in Nat, NEW b \in Nat \ {0}, NEW q \in Nat, NEW r \in 0 .. b - 1, a = b * q + r
    PROVE  a % b = r
<1> DEFINE d == a \div b
           s == a % b
<1>1. s \in 0 .. b - 1 OBVIOUS
<1>2. d \in Nat /\ a = b * d + s OBVIOUS
<1> HIDE DEF d, s
<1>3. ASSUME q > d PROVE FALSE
  <2>1. q - d - 1 \in Nat /\ q = d + 1 + (q - d - 1) BY <1>2, <1>3
  <2>2. PICK e \in Nat : q = d + 1 + e BY <2>1
  <2>3. b * q = b * d + b + b * e /\ b * e \in Nat /\ b * d \in Nat BY <1>2, <2>2
  <2> QED BY <1>1, <1>2, <2>3
<1>4. ASSUME q < d PROVE FALSE
  <2>1. d - q - 1 \in Nat /\ d = q + 1 + (d - q - 1) BY <1>2, <1>4
  <2>2. PICK e \in Nat : d = q + 1 + e BY <2>1
  <2>3. b * d = b * q + b + b * e /\ b * e \in Nat /\ b * q \in Nat BY <1>2, <2>2
  <2> QED BY <1>1, <1>2, <2>3
<1>5. q = d BY <1>2, <1>3, <1>4
<1>6. b * q \in Nat /\ b * d = b * q BY <1>5
<1>7. r = s BY <1>1, <1>2, <1>6
<1> QED BY <1>7 DEF s

(* A remainder of 0 is a product.                                          *)
LEMMA Divides ==
    ASSUME NEW a \in Nat, NEW b \in Nat \ {0}
    PROVE  a % b = 0 <=> \E q \in Nat : a = b * q
<1>1. a \div b \in Nat /\ a = b * (a \div b) + (a % b) OBVIOUS
<1>2. ASSUME a % b = 0 PROVE \E q \in Nat : a = b * q BY <1>1, <1>2
<1>3. ASSUME NEW q \in Nat, a = b * q PROVE a % b = 0
  <2>1. a = b * q + 0 /\ 0 \in 0 .. b - 1 BY <1>3
  <2> QED BY ONLY <2>1, a \in Nat, b \in Nat \ {0}, q \in Nat, Remainder
<1> QED BY <1>2, <1>3

(* Half of a history is an even number of values.                          *)
LEMMA Even == Nibble \div 2 \in Nat \ {0} /\ Nibble = 2 * (Nibble \div 2)
<1>1. Nibble % 1 = 0 /\ 1 \in 1 .. Nibble - 1 BY ControlsAssumption
<1>2. Nibble % (2 * 1) = 0 BY ONLY <1>1, ControlsAssumption
<1> QED BY <1>2, ControlsAssumption

(* A history with one bit more is in range, and ends in that bit: its      *)
(* width is even.                                                          *)
LEMMA Shift ==
    ASSUME NEW h \in Nat, NEW raw \in {0, 1}
    PROVE  LET new == (2 * h + raw) % (Nibble * Nibble)
           IN  /\ new \in 0 .. Nibble * Nibble - 1
               /\ new = Ones => raw = 1
               /\ new = Ones * Nibble => raw = 0
<1> USE ControlsAssumption
<1> DEFINE n == Nibble \div 2
           M == Nibble * Nibble
           x == 2 * h + raw
           new == x % M
           q == x \div M
           a == n * Nibble * q
           b == Ones * n
<1>1. n \in Nat /\ Nibble = 2 * n BY Even
<1>2. M \in Nat \ {0} /\ x \in Nat OBVIOUS
<1>3. /\ q \in Nat /\ new \in 0 .. M - 1 /\ x = M * q + new
  <2> HIDE DEF M, x
  <2> QED BY <1>2
<1>4. Ones \in Nat BY DEF Ones
<1>5. a \in Nat /\ M * q = 2 * a
  <2> HIDE DEF q, n
  <2> QED BY <1>1, <1>3
<1>6. b \in Nat /\ Ones * Nibble = 2 * b
  <2> HIDE DEF n
  <2> QED BY <1>1, <1>4
<1>7. Ones = 2 * n - 1 BY <1>1 DEF Ones
<1> HIDE DEF a, b, q, M, n
<1>8. 2 * h + raw = 2 * a + new BY <1>3, <1>5
<1>9. new = Ones => raw = 1
  <2> HIDE DEF x
  <2> QED BY <1>1, <1>3, <1>5, <1>7, <1>8
<1>10. new = Ones * Nibble => raw = 0 BY <1>3, <1>5, <1>6, <1>8
<1> QED BY <1>3, <1>9, <1>10 DEF M

(* The lower half of a history that falls is all ones but for the zeros.   *)
LEMMA LowerHalf ==
    ASSUME NEW h \in Nat, NEW p, FallsBy(h, p)
    PROVE  /\ h % Nibble = Nibble - p
           /\ h % Nibble # 0
           /\ p = 1 => h % 2 = 1
           /\ p # 1 => h % 2 = 0 /\ ~Steady(h)
<1> USE ControlsAssumption
<1>1. p \in 1 .. Nibble - 1 /\ (p = 1 \/ p % 2 = 0) BY DEF FallsBy
<1>2. p \in Nat \ {0} /\ Nibble \in Nat \ {0} /\ p * Nibble \in Nat \ {0} BY <1>1
<1>3. PICK q \in Nat : h + p = (p * Nibble) * q
  <2>1. (h + p) % (p * Nibble) = 0 /\ h + p \in Nat BY <1>2 DEF FallsBy
  <2> QED BY <1>2, <2>1, Divides
<1>4. q # 0 BY <1>2, <1>3
<1>5. PICK q1 \in Nat : q = q1 + 1
  <2>1. q - 1 \in Nat /\ q = (q - 1) + 1 BY <1>4
  <2> QED BY <2>1
<1> DEFINE d == p * q - 1
<1>6. d \in Nat /\ h = Nibble * d + (Nibble - p)
  <2>1. p * q = p * q1 + p /\ p * q1 \in Nat BY <1>2, <1>5
  <2>2. d \in Nat /\ p * q = d + 1 BY <1>2, <2>1
  <2> HIDE DEF d
  <2>3. (p * Nibble) * q = Nibble * (p * q) BY <1>2
  <2>4. Nibble * (p * q) = Nibble * d + Nibble /\ Nibble * d \in Nat BY <1>2, <2>2
  <2> QED BY <1>1, <1>2, <1>3, <2>2, <2>3, <2>4
<1> HIDE DEF d
<1>7. Nibble - p \in 0 .. Nibble - 1 /\ Nibble - p # 0 BY <1>1
<1>8. h % Nibble = Nibble - p BY <1>6, <1>7, Remainder
<1> DEFINE n == Nibble \div 2
<1>9. n \in Nat \ {0} /\ Nibble = 2 * n BY Even
<1> HIDE DEF n
<1>10. n * d \in Nat /\ Nibble * d = 2 * (n * d) BY <1>6, <1>9
<1>11. p = 1 => h % 2 = 1 BY <1>6, <1>9, <1>10
<1>12. ASSUME p # 1 PROVE h % 2 = 0 /\ ~Steady(h)
  <2>1. p % 2 = 0 BY <1>1, <1>12
  <2>2. h % 2 = 0 BY <1>1, <1>2, <1>6, <1>9, <1>10, <2>1
  <2>3. Nibble - p # Nibble - 1 BY <1>1, <1>12
  <2> QED BY <1>7, <1>8, <2>2, <2>3 DEF Steady, Ones
<1> QED BY <1>7, <1>8, <1>11, <1>12

(* A history that falls goes on falling, until it has an edge, with every  *)
(* reading but one that bounces.                                           *)
LEMMA Falling ==
    ASSUME NEW h \in Nat, NEW raw \in {0, 1}, NEW p, FallsBy(h, p),
           Steady(h) \/ raw = h % 2,
           (2 * h + raw) % (Nibble * Nibble) \notin Edges
    PROVE  \E p1 \in 1 .. Nibble - 1 : FallsBy((2 * h + raw) % (Nibble * Nibble), p1)
<1> USE ControlsAssumption
<1> DEFINE M == Nibble * Nibble
           x == 2 * h + raw
           new == x % M
           c == x \div M
<1>1. p \in 1 .. Nibble - 1 /\ Nibble % p = 0 /\ (p = 1 \/ p % 2 = 0) BY DEF FallsBy
<1>2. p \in Nat \ {0} /\ Nibble \in Nat \ {0} /\ p * Nibble \in Nat \ {0} BY <1>1
<1>3. PICK q \in Nat : h + p = (p * Nibble) * q
  <2>1. (h + p) % (p * Nibble) = 0 /\ h + p \in Nat BY <1>2 DEF FallsBy
  <2> QED BY <1>2, <2>1, Divides
<1>4. M \in Nat \ {0} /\ x \in Nat OBVIOUS
<1>5. new \in 0 .. M - 1 /\ c \in Nat /\ x = M * c + new
  <2> HIDE DEF M, x
  <2>1. x % M \in 0 .. M - 1 BY <1>4
  <2>2. x \div M \in Nat /\ x = M * (x \div M) + (x % M) BY <1>4
  <2> QED BY <2>1, <2>2
<1>9. new \notin Edges OBVIOUS
<1> SUFFICES \E p1 \in 1 .. Nibble - 1 : FallsBy(new, p1) OBVIOUS
<1> HIDE DEF new, c
(* It is a multiple of what the zeros are a part of.                       *)
<1>6. ASSUME NEW u \in 1 .. Nibble - 1, Nibble % u = 0, u = 1 \/ u % 2 = 0,
             NEW v \in Nat, x + u = (u * Nibble) * v
      PROVE  \E p1 \in 1 .. Nibble - 1 : FallsBy(new, p1)
  <2>1. PICK m \in Nat : Nibble = u * m
    <3>1. u \in Nat \ {0} BY <1>6
    <3> QED BY <1>2, <1>6, <3>1, Divides
  <2>2. M * c = (u * Nibble) * (m * c)
    <3>1. M = (u * Nibble) * m BY <1>6, <2>1
    <3> QED BY <1>5, <1>6, <2>1, <3>1
  <2> DEFINE w == u * Nibble
             y == m * c
  <2>3. w \in Nat \ {0} /\ y \in Nat BY <1>5, <1>6, <2>1
  <2>4. new + u = w * v - w * y /\ new + u \in Nat BY <1>4, <1>5, <1>6, <2>2
  <2> HIDE DEF w, y
  <2>5. v >= y
    <3> SUFFICES ASSUME v < y PROVE FALSE BY <1>6, <2>3
    <3>1. y - v - 1 \in Nat /\ y = v + 1 + (y - v - 1) BY <1>6, <2>3
    <3>2. PICK e \in Nat : y = v + 1 + e BY <3>1
    <3>3. w * y = w * v + w + w * e /\ w * e \in Nat /\ w * v \in Nat BY <1>6, <2>3, <3>2
    <3> QED BY <2>3, <2>4, <3>3
  <2>6. v - y \in Nat /\ new + u = w * (v - y) BY <1>6, <2>3, <2>4, <2>5
  <2>7. (new + u) % w = 0 BY <2>3, <2>4, <2>6, Divides
  <2>8. FallsBy(new, u) BY <1>6, <2>7 DEF FallsBy, w
  <2> QED BY <1>6, <2>8
<1>7. CASE raw = 1
  <2>1. p = 1 BY <1>7, LowerHalf
  <2> DEFINE v == 2 * q
  <2>2. x + p = (p * Nibble) * v /\ v \in Nat BY <1>2, <1>3, <1>7, <2>1
  <2> HIDE DEF v, x
  <2> QED BY <1>1, <1>6, <2>2
<1>8. CASE raw = 0
  <2>1. Nibble % (2 * p) = 0 /\ 2 * p \in Nat \ {0} BY <1>1, <1>2
  <2>2. x + 2 * p = (2 * p * Nibble) * q
    <3>1. x + 2 * p = 2 * (h + p) BY <1>2, <1>8
    <3>2. 2 * ((p * Nibble) * q) = (2 * p * Nibble) * q BY <1>2
    <3> QED BY <1>3, <3>1, <3>2
  <2>3. PICK m \in Nat : Nibble = 2 * p * m BY <1>2, <2>1, Divides
  <2>4. m # 0 BY <1>2, <2>1, <2>3
  <2>5. Nibble >= 2 * p
    <3>1. m - 1 \in Nat /\ m = 1 + (m - 1) BY <2>4
    <3>2. PICK e \in Nat : m = 1 + e BY <3>1
    <3>3. 2 * p * m = 2 * p + 2 * p * e /\ 2 * p * e \in Nat BY <1>2, <3>2
    <3> QED BY <1>2, <2>1, <2>3, <3>3
  <2>6. CASE 2 * p # Nibble
    <3> DEFINE u == 2 * p
    <3>1. u \in 1 .. Nibble - 1 BY <2>1, <2>5, <2>6
    <3>2. u % 2 = 0 BY <1>2
    <3>3. Nibble % u = 0 /\ x + u = (u * Nibble) * q BY <2>1, <2>2
    <3> HIDE DEF u, x
    <3> QED BY <1>6, <3>1, <3>2, <3>3
(* Half of it are zeros.                                                   *)
  <2>7. ASSUME 2 * p = Nibble PROVE new = Ones * Nibble
    <3>1. x + Nibble = M * q BY <2>2, <2>7
    <3>2. Nibble < M BY ONLY ControlsAssumption
    <3> HIDE DEF M, x
    <3>3. M * c + new + Nibble = M * q BY <1>5, <3>1
    <3>4. q = c + 1
      <4>1. ASSUME q <= c PROVE FALSE
        <5>1. c - q \in Nat /\ c = q + (c - q) BY <1>5, <4>1
        <5>2. PICK e \in Nat : c = q + e BY <5>1
        <5>3. M * c = M * q + M * e /\ M * e \in Nat /\ M * q \in Nat BY <1>4, <5>2
        <5> QED BY <1>2, <1>5, <3>3, <5>3
      <4>2. ASSUME q > c + 1 PROVE FALSE
        <5>1. q - c - 2 \in Nat /\ q = c + 2 + (q - c - 2) BY <1>5, <4>2
        <5>2. PICK e \in Nat : q = c + 2 + e BY <5>1
        <5>3. M * q = M * c + 2 * M + M * e /\ M * e \in Nat /\ M * c \in Nat BY <1>4, <1>5, <5>2
        <5> QED BY <1>2, <1>4, <1>5, <3>2, <3>3, <5>3
      <4> QED BY <1>5, <4>1, <4>2
    <3>5. M * q = M * c + M /\ M * c \in Nat BY <1>4, <1>5, <3>4
    <3>6. new = M - Nibble BY <1>2, <1>4, <1>5, <3>3, <3>5
    <3> QED BY <3>6 DEF M, Ones
  <2> QED BY <1>9, <2>6, <2>7 DEF Edges
<1> QED BY <1>7, <1>8

(* What a reading of the lines does to the filters.                        *)
LEMMA Feed ==
    ASSUME TypeOK, NEW raw \in [Keys -> {0, 1}], feed(raw)
    PROVE  /\ history_' \in [Keys -> 0 .. Nibble * Nibble - 1]
           /\ state_' \in [Keys -> {0, 1}] /\ bounced' \in [Keys -> BOOLEAN]
           /\ press' \in [Keys -> {"none", "new", "done", "woke", "again"}]
           /\ \A k \in Keys :
                 \/ history_'[k] \in Edges /\ state_'[k] = 1 /\ press'[k] = "new"
                 \/ history_'[k] \in Edges /\ state_'[k] = 0 /\ press'[k] = "none"
                 \/ state_'[k] = state_[k] /\ press'[k] = press[k]
<1> DEFINE new == [k \in Keys |-> (2 * history_[k] + raw[k]) % (Nibble * Nibble)]
<1>1. ASSUME NEW k \in Keys
      PROVE  /\ new[k] \in 0 .. Nibble * Nibble - 1
             /\ new[k] = Ones => raw[k] = 1
             /\ new[k] = Ones * Nibble => raw[k] = 0
  <2>1. history_[k] \in Nat /\ raw[k] \in {0, 1}
    <3>1. \A i \in 0 .. Nibble * Nibble - 1 : i \in Nat BY ControlsAssumption
    <3> QED BY <3>1 DEF TypeOK
  <2>2. new[k] = (2 * history_[k] + raw[k]) % (Nibble * Nibble) OBVIOUS
  <2> QED BY <2>1, <2>2, Shift
<1>2. /\ history_' = new
      /\ state_' = [k \in Keys |-> IF new[k] \in Edges THEN raw[k] ELSE state_[k]]
      /\ bounced' = [k \in Keys |->
             new[k] \notin Edges /\ (bounced[k] \/ ~(Steady(history_[k]) \/ raw[k] = history_[k] % 2))]
      /\ press' = [k \in Keys |-> CASE new[k] = Ones -> "new"
                                    [] new[k] = Ones * Nibble -> "none"
                                    [] OTHER -> press[k]]
  BY DEF feed
<1>3. new \in [Keys -> 0 .. Nibble * Nibble - 1] BY <1>1
<1> HIDE DEF new
<1>4. state_' \in [Keys -> {0, 1}] BY <1>2 DEF TypeOK
<1>5. bounced' \in [Keys -> BOOLEAN] BY <1>2
<1>6. press' \in [Keys -> {"none", "new", "done", "woke", "again"}] BY <1>2 DEF TypeOK
<1>7. ASSUME NEW k \in Keys
      PROVE  \/ history_'[k] \in Edges /\ state_'[k] = 1 /\ press'[k] = "new"
             \/ history_'[k] \in Edges /\ state_'[k] = 0 /\ press'[k] = "none"
             \/ state_'[k] = state_[k] /\ press'[k] = press[k]
  BY <1>1, <1>2 DEF Edges
<1> QED BY <1>2, <1>3, <1>4, <1>5, <1>6, <1>7

(* The places of a round.                                                  *)
LEMMA Places ==
    /\ DOMAIN Following = {"queues", "rtc", "switches", "input"}
    /\ Following["queues"] = "rtc" /\ Following["rtc"] = "switches"
    /\ Following["switches"] = "input" /\ Following["input"] = "wait"
  BY DEF Following

(* What a tick of the interrupt does to the events, and leaves alone.      *)
LEMMA Flags ==
    ASSUME TypeOK, Tick
    PROVE  \E raw \in [Keys -> {0, 1}], flagged \in BOOLEAN :
              /\ feed(raw)
              /\ (\E k \in Keys : history_'[k] \in Edges) => flagged
              /\ events' = (events \/ flagged)
              /\ disturbed' = ((disturbed \/ flagged) /\ \E k \in Keys : press'[k] = "woke")
              /\ UNCHANGED <<round, place, in_key_event, display_sleep, countdown>>
  BY DEF Tick

(* Every step keeps the types.                                             *)
LEMMA TypeStep ==
    ASSUME TypeOK, [Next]_vars
    PROVE  TypeOK'
<1> USE Places, ControlsAssumption DEF filters, countdown
<1>1. CASE Tick
  <2>1. PICK raw \in [Keys -> {0, 1}], flagged \in BOOLEAN :
              /\ feed(raw)
              /\ events' = (events \/ flagged)
              /\ disturbed' = ((disturbed \/ flagged) /\ \E k \in Keys : press'[k] = "woke")
              /\ UNCHANGED <<round, place, in_key_event, display_sleep, countdown>>
    BY <1>1, Flags
  <2>2. events' \in BOOLEAN /\ disturbed' \in BOOLEAN BY <2>1
  <2>3. /\ history_' \in [Keys -> 0 .. Nibble * Nibble - 1]
        /\ state_' \in [Keys -> {0, 1}] /\ bounced' \in [Keys -> BOOLEAN]
        /\ press' \in [Keys -> {"none", "new", "done", "woke", "again"}]
    BY <2>1, Feed
  <2> QED BY <2>1, <2>2, <2>3 DEF TypeOK
<1>2. CASE Wait BY <1>2 DEF Wait, TypeOK
<1>3. CASE HandleQueues BY <1>3 DEF HandleQueues, At, TypeOK
<1>4. CASE HandleRtcTick
  <2>1. bl_tick_counter' \in 0 .. BlModulus - 1
    <3>1. (bl_tick_counter + 1) % BlModulus \in 0 .. BlModulus - 1 BY DEF TypeOK
    <3> QED BY <1>4, <3>1 DEF HandleRtcTick, TypeOK
  <2>2. display_sleep' \in BOOLEAN BY <1>4 DEF HandleRtcTick, TypeOK
  <2>3. idle' \in 0 .. BlModulus BY <1>4 DEF HandleRtcTick, TypeOK
  <2> QED BY <1>4, <2>1, <2>2, <2>3 DEF HandleRtcTick, At, TypeOK
<1>5. CASE Ignore BY <1>5 DEF Ignore, HandleSwitches, At, InputHandled, TypeOK
<1>6. CASE Wake
  <2>1. in_key_event' \in BOOLEAN /\ display_sleep' \in BOOLEAN /\ disturbed' \in BOOLEAN
    BY <1>6 DEF Wake, TypeOK
  <2>2. press' \in [Keys -> {"none", "new", "done", "woke", "again"}] BY <1>6 DEF Wake, TypeOK
  <2>3. bl_tick_counter' \in 0 .. BlModulus - 1 /\ idle' \in 0 .. BlModulus /\ timer' = timer
    BY <1>6 DEF Wake, HandleSwitches, InputHandled
  <2> QED BY <1>6, <2>1, <2>2, <2>3 DEF Wake, HandleSwitches, At, TypeOK
<1>7. CASE Deliver BY <1>7 DEF Deliver, HandleSwitches, At, InputHandled, Effect, TypeOK
<1>8. CASE HandleInput BY <1>8 DEF HandleInput, At, InputHandled, Effect, TypeOK
<1>9. ASSUME NEW here \in DOMAIN Following, Skip(here) PROVE TypeOK'
  BY <1>9 DEF Skip, At, TypeOK
<1>10. CASE UNCHANGED vars BY <1>10 DEF vars, TypeOK
<1> QED BY <1>1, <1>2, <1>3, <1>4, <1>5, <1>6, <1>7, <1>8, <1>9, <1>10 DEF Next, EventLoop

(* Every step keeps the count of the idle ticks.                           *)
LEMMA TimerStep ==
    ASSUME TypeOK, TimerInv, [Next]_vars
    PROVE  TimerInv'
<1> USE ControlsAssumption DEF filters, countdown
<1>0. ASSUME UNCHANGED <<display_sleep, countdown>> PROVE TimerInv'
  BY <1>0 DEF TimerInv
<1>11. ASSUME InputHandled, timer' \in Timers PROVE TimerInv'
  BY <1>11 DEF InputHandled, TimerInv
<1>1. CASE Tick BY <1>1, <1>0 DEF Tick
<1>2. CASE Wait BY <1>2, <1>0 DEF Wait
<1>3. CASE HandleQueues BY <1>3 DEF HandleQueues, TimerInv
<1>4. CASE HandleRtcTick
  <2>1. SUFFICES ASSUME timer \in 1 .. BlModulus - 1
        PROVE IF idle' <= timer THEN bl_tick_counter' = idle'
              ELSE bl_tick_counter' = timer /\ display_sleep'
    BY <1>4 DEF HandleRtcTick, TimerInv
  <2>2. CASE bl_tick_counter = timer
    <3>1. bl_tick_counter' = timer /\ display_sleep' BY <1>4, <2>1, <2>2 DEF HandleRtcTick
    <3>2. ~(idle' <= timer) BY <1>4, <2>1, <2>2 DEF HandleRtcTick, TimerInv, TypeOK
    <3> QED BY <3>1, <3>2
  <2>3. CASE bl_tick_counter # timer
    <3>1. idle < timer /\ bl_tick_counter = idle BY <2>1, <2>3 DEF TimerInv, TypeOK
    <3>2. idle' = idle + 1 /\ bl_tick_counter' = (idle + 1) % BlModulus
      BY <1>4, <2>1, <2>3, <3>1 DEF HandleRtcTick, TypeOK
    <3>3. (idle + 1) % BlModulus = idle + 1 BY <2>1, <3>1 DEF TypeOK
    <3> QED BY <2>1, <3>1, <3>2, <3>3 DEF TypeOK
  <2> QED BY <2>2, <2>3
<1>5. CASE Ignore BY <1>5, <1>11 DEF Ignore, HandleSwitches, TypeOK
<1>6. CASE Wake BY <1>6, <1>11 DEF Wake, HandleSwitches, TypeOK
<1>7. CASE Deliver BY <1>7, <1>11 DEF Deliver, HandleSwitches, Effect, TypeOK
<1>8. CASE HandleInput BY <1>8, <1>11 DEF HandleInput, Effect
<1>9. ASSUME NEW here \in DOMAIN Following, Skip(here) PROVE TimerInv'
  BY <1>9, <1>0 DEF Skip, At
<1>10. CASE UNCHANGED vars BY <1>10, <1>0 DEF vars
<1> QED BY <1>1, <1>2, <1>3, <1>4, <1>5, <1>6, <1>7, <1>8, <1>9, <1>10 DEF Next, EventLoop

(* Every step keeps a key event's end in sight.                            *)
LEMMA KeyStep ==
    ASSUME TypeOK, KeyInv, [Next]_vars
    PROVE  KeyInv'
<1> USE Places DEF filters, countdown
<1>0. ASSUME UNCHANGED <<state_, in_key_event>>, Pending => Pending' PROVE KeyInv'
  BY <1>0 DEF KeyInv, Held
<1>1. CASE Tick
  <2>1. PICK raw \in [Keys -> {0, 1}], flagged \in BOOLEAN :
              /\ feed(raw)
              /\ (\E k \in Keys : history_'[k] \in Edges) => flagged
              /\ events' = (events \/ flagged)
              /\ disturbed' = ((disturbed \/ flagged) /\ \E k \in Keys : press'[k] = "woke")
              /\ UNCHANGED <<round, place, in_key_event, display_sleep, countdown>>
    BY <1>1, Flags
  <2>2. \A k \in Keys :
           \/ history_'[k] \in Edges /\ state_'[k] = 1 /\ press'[k] = "new"
           \/ history_'[k] \in Edges /\ state_'[k] = 0 /\ press'[k] = "none"
           \/ state_'[k] = state_[k] /\ press'[k] = press[k]
    BY <2>1, Feed
  <2>3. events' <=> events \/ flagged BY Zenon, <2>1
  <2>4. Pending => Pending' BY Zenon, <2>1, <2>3 DEF Pending
  <2>5. Held # {} => Held' # {} \/ Pending'
    <3> SUFFICES ASSUME NEW k \in Held PROVE k \in Held' \/ Pending' OBVIOUS
    <3>1. CASE history_'[k] \in Edges
      <4>1. flagged BY <2>1, <3>1 DEF Held
      <4> QED BY <2>3, <4>1 DEF Pending
    <3>2. CASE state_'[k] = state_[k] BY <3>2 DEF Held
    <3> QED BY <2>2, <3>1, <3>2 DEF Held
  <2> QED BY <2>1, <2>4, <2>5 DEF KeyInv
<1>2. CASE Wait BY <1>2, <1>0 DEF Wait, Pending, TypeOK
<1>3. CASE HandleQueues BY <1>3, <1>0 DEF HandleQueues, At, Pending, TypeOK
<1>4. CASE HandleRtcTick BY <1>4, <1>0 DEF HandleRtcTick, At, Pending, TypeOK
<1>5. CASE Ignore
  <2>1. Held # {} /\ Held' = Held BY <1>5 DEF Ignore, HandleSwitches, Held
  <2> QED BY <2>1 DEF KeyInv
<1>6. CASE Wake BY <1>6 DEF Wake, KeyInv
<1>7. CASE Deliver
  <2>1. Held' = Held /\ in_key_event' = (Held # {}) BY <1>7 DEF Deliver, HandleSwitches, Held
  <2> QED BY <2>1 DEF KeyInv
<1>8. CASE HandleInput BY <1>8, <1>0 DEF HandleInput, At, InputHandled, Effect, Pending, TypeOK
<1>9. ASSUME NEW here \in DOMAIN Following, Skip(here) PROVE KeyInv'
  BY <1>9, <1>0 DEF Skip, At, Pending, TypeOK
<1>10. CASE UNCHANGED vars BY <1>10, <1>0 DEF vars, Pending, TypeOK
<1> QED BY <1>1, <1>2, <1>3, <1>4, <1>5, <1>6, <1>7, <1>8, <1>9, <1>10 DEF Next, EventLoop

(* Every step keeps what became of a press: one that was an event is one   *)
(* until the release, and one that woke the display has left no flag.      *)
LEMMA PressStep ==
    ASSUME TypeOK, PressInv, [Next]_vars
    PROVE  PressInv'
<1> USE Places DEF filters, countdown
<1>0. ASSUME UNCHANGED <<state_, press, disturbed, in_key_event>>, Pending' => Pending
      PROVE  PressInv'
  BY <1>0 DEF PressInv, Held
<1>1. CASE Tick
  <2>1. PICK raw \in [Keys -> {0, 1}], flagged \in BOOLEAN :
              /\ feed(raw)
              /\ (\E k \in Keys : history_'[k] \in Edges) => flagged
              /\ events' = (events \/ flagged)
              /\ disturbed' = ((disturbed \/ flagged) /\ \E k \in Keys : press'[k] = "woke")
              /\ UNCHANGED <<round, place, in_key_event, display_sleep, countdown>>
    BY <1>1, Flags
  <2>2. \A k \in Keys :
           \/ history_'[k] \in Edges /\ state_'[k] = 1 /\ press'[k] = "new"
           \/ history_'[k] \in Edges /\ state_'[k] = 0 /\ press'[k] = "none"
           \/ state_'[k] = state_[k] /\ press'[k] = press[k]
    BY <2>1, Feed
  <2>3. (events' <=> events \/ flagged) /\ in_key_event' = in_key_event
    <3>1. events' = (events \/ flagged) /\ in_key_event' = in_key_event BY Zenon, <2>1
    <3> QED BY Zenon, <3>1
  <2>4. disturbed' <=> (disturbed \/ flagged) /\ \E k \in Keys : press'[k] = "woke"
    BY Zenon, <2>1
  <2>5. round' = round /\ place' = place BY <2>1
  <2> SUFFICES ASSUME NEW k \in Keys
               PROVE  /\ k \in Held' <=> press'[k] # "none"
                      /\ press'[k] = "done" => in_key_event'
                      /\ press'[k] = "woke" /\ ~disturbed' => ~Pending'
    BY DEF PressInv
  <2>6. k \in Held' <=> press'[k] # "none" BY <2>2 DEF Held, PressInv
  <2>7. press'[k] \in {"done", "woke"} => press'[k] = press[k] BY <2>2
  <2>8. press'[k] = "done" => in_key_event' BY Zenon, <2>3, <2>7 DEF PressInv
  <2>9. press'[k] = "woke" /\ ~disturbed' => ~Pending'
    <3> SUFFICES ASSUME press'[k] = "woke", ~disturbed' PROVE ~Pending' OBVIOUS
    <3>1. ~disturbed /\ ~flagged BY <2>4
    <3>2. ~Pending BY <2>7, <3>1 DEF PressInv
    <3> QED BY Zenon, <2>3, <2>5, <3>1, <3>2 DEF Pending
  <2> QED BY <2>6, <2>8, <2>9
<1>2. CASE Wait BY <1>2, <1>0 DEF Wait, Pending, TypeOK
<1>3. CASE HandleQueues BY <1>3, <1>0 DEF HandleQueues, At, Pending, TypeOK
<1>4. CASE HandleRtcTick BY <1>4, <1>0 DEF HandleRtcTick, At, Pending, TypeOK
<1>5. CASE Ignore
  <2>1. UNCHANGED <<state_, press, disturbed, in_key_event>> BY <1>5 DEF Ignore, HandleSwitches
  <2>2. Pending BY <1>5 DEF Ignore, HandleSwitches, At, Pending
  <2> QED BY <1>0, <2>1, <2>2
<1>6. CASE Wake
  <2>1. /\ Held' = Held /\ ~in_key_event' /\ events' = events /\ place' = "input"
        /\ press' = [k \in Keys |-> IF k \in Held THEN "woke" ELSE press[k]]
        /\ disturbed' = (IF Held = {} THEN disturbed ELSE events)
    BY <1>6 DEF Wake, HandleSwitches, At, Held
  <2>2. Pending' = events BY <2>1 DEF Pending, TypeOK
  <2> SUFFICES ASSUME NEW k \in Keys
               PROVE  /\ k \in Held' <=> press'[k] # "none"
                      /\ press'[k] = "done" => in_key_event'
                      /\ press'[k] = "woke" /\ ~disturbed' => ~Pending'
    BY DEF PressInv
  <2>3. CASE k \in Held
    <3>1. press'[k] = "woke" /\ disturbed' = events BY <2>1, <2>3
    <3> QED BY <2>1, <2>2, <2>3, <3>1
  <2>4. CASE k \notin Held
    <3>1. press'[k] = "none" BY <2>1, <2>4 DEF PressInv
    <3> QED BY <2>1, <2>4, <3>1
  <2> QED BY <2>3, <2>4
<1>7. CASE Deliver
  <2>1. /\ Held' = Held /\ in_key_event' = (Held # {})
        /\ press' = [k \in Keys |->
             CASE k \notin Held -> press[k]
               [] press[k] = "new" \/ (press[k] = "woke" /\ disturbed) -> "done"
               [] OTHER -> "again"]
    BY <1>7 DEF Deliver, HandleSwitches, Held
  <2> SUFFICES ASSUME NEW k \in Keys
               PROVE  /\ k \in Held' <=> press'[k] # "none"
                      /\ press'[k] = "done" => in_key_event'
                      /\ press'[k] = "woke" /\ ~disturbed' => ~Pending'
    BY DEF PressInv
  <2>2. CASE k \in Held
    <3>1. press'[k] \in {"done", "again"} BY <2>1, <2>2
    <3>2. in_key_event' BY <2>1, <2>2
    <3> QED BY <2>1, <2>2, <3>1, <3>2
  <2>3. CASE k \notin Held
    <3>1. press'[k] = "none" BY <2>1, <2>3 DEF PressInv
    <3> QED BY <2>1, <2>3, <3>1
  <2> QED BY <2>2, <2>3
<1>8. CASE HandleInput BY <1>8, <1>0 DEF HandleInput, At, InputHandled, Effect, Pending, TypeOK
<1>9. ASSUME NEW here \in DOMAIN Following, Skip(here) PROVE PressInv'
  BY <1>9, <1>0 DEF Skip, At, Pending, TypeOK
<1>10. CASE UNCHANGED vars BY <1>10, <1>0 DEF vars, Pending, TypeOK
<1> QED BY <1>1, <1>2, <1>3, <1>4, <1>5, <1>6, <1>7, <1>8, <1>9, <1>10 DEF Next, EventLoop

(* Every step keeps the edge of a release in sight.                        *)
LEMMA ReleaseStep ==
    ASSUME TypeOK, ReleaseInv, [Next]_vars
    PROVE  ReleaseInv'
<1> USE DEF filters, countdown
<1>0. ASSUME UNCHANGED filters PROVE ReleaseInv'
  <2>1. history_' = history_ /\ bounced' = bounced /\ Held' = Held BY <1>0 DEF Held
  <2> QED BY <2>1 DEF ReleaseInv
<1>1. CASE Tick
  <2>1. PICK raw \in [Keys -> {0, 1}] : feed(raw) BY <1>1, Flags
  <2> DEFINE new == [k \in Keys |-> (2 * history_[k] + raw[k]) % (Nibble * Nibble)]
  <2>2. /\ history_' = new
        /\ state_' = [k \in Keys |-> IF new[k] \in Edges THEN raw[k] ELSE state_[k]]
        /\ bounced' = [k \in Keys |->
             new[k] \notin Edges /\ (bounced[k] \/ ~(Steady(history_[k]) \/ raw[k] = history_[k] % 2))]
    BY <2>1 DEF feed
  <2> SUFFICES ASSUME NEW k \in Keys, state_'[k] = 1, ~bounced'[k]
               PROVE  \E p \in 1 .. Nibble - 1 : FallsBy(new[k], p)
    BY <2>2 DEF ReleaseInv, Held
  <2>3. history_[k] \in Nat /\ raw[k] \in {0, 1}
    <3>1. \A i \in 0 .. Nibble * Nibble - 1 : i \in Nat BY ControlsAssumption
    <3> QED BY <3>1 DEF TypeOK
  <2>4. new[k] = (2 * history_[k] + raw[k]) % (Nibble * Nibble) OBVIOUS
  <2>5. CASE new[k] \in Edges
    <3>1. raw[k] = 1 BY <2>2, <2>5
    <3>2. new[k] = Ones BY <2>3, <2>4, <2>5, <3>1, Shift DEF Edges
    <3>3. FallsBy(Ones, 1)
      <4>1. (Ones + 1) % (1 * Nibble) = 0
        <5>1. Ones + 1 = Nibble * 1 /\ 1 * Nibble = Nibble BY ControlsAssumption DEF Ones
        <5> QED BY <5>1, ControlsAssumption, Divides
      <4>2. 1 \in 1 .. Nibble - 1 /\ Nibble % 1 = 0 BY ControlsAssumption
      <4> QED BY <4>1, <4>2 DEF FallsBy
    <3> QED BY <3>2, <3>3 DEF FallsBy
  <2>6. CASE new[k] \notin Edges
    <3>1. k \in Held /\ ~bounced[k] /\ (Steady(history_[k]) \/ raw[k] = history_[k] % 2)
      BY <2>2, <2>6 DEF Held
    <3>2. PICK p : FallsBy(history_[k], p) BY <3>1 DEF ReleaseInv
    <3> HIDE DEF new
    <3> QED BY <2>3, <2>4, <2>6, <3>1, <3>2, Falling
  <2> QED BY <2>5, <2>6
<1>2. CASE EventLoop
  BY <1>2, <1>0 DEF EventLoop, Wait, HandleQueues, HandleRtcTick, Ignore, Wake, Deliver,
     HandleSwitches, HandleInput, Skip
<1>3. CASE UNCHANGED vars BY <1>3, <1>0 DEF vars
<1> QED BY <1>1, <1>2, <1>3 DEF Next

(* No step makes a key event of a press a second time.                     *)
LEMMA OnceStep ==
    ASSUME TypeOK, PressInv, KeyOnce, [Next]_vars
    PROVE  KeyOnce'
<1> USE DEF filters, countdown, KeyOnce
<1>1. CASE Tick
  <2>1. PICK raw \in [Keys -> {0, 1}], flagged \in BOOLEAN :
              /\ feed(raw)
              /\ (\E k \in Keys : history_'[k] \in Edges) => flagged
              /\ events' = (events \/ flagged)
              /\ disturbed' = ((disturbed \/ flagged) /\ \E k \in Keys : press'[k] = "woke")
              /\ UNCHANGED <<round, place, in_key_event, display_sleep, countdown>>
    BY <1>1, Flags
  <2>2. \A k \in Keys :
           \/ history_'[k] \in Edges /\ state_'[k] = 1 /\ press'[k] = "new"
           \/ history_'[k] \in Edges /\ state_'[k] = 0 /\ press'[k] = "none"
           \/ state_'[k] = state_[k] /\ press'[k] = press[k]
    BY <2>1, Feed
  <2> QED BY <2>2
<1>2. CASE Wait BY <1>2 DEF Wait
<1>3. CASE HandleQueues BY <1>3 DEF HandleQueues, At
<1>4. CASE HandleRtcTick BY <1>4 DEF HandleRtcTick, At
<1>5. CASE Ignore BY <1>5 DEF Ignore, HandleSwitches, At, InputHandled
<1>6. CASE Wake BY <1>6 DEF Wake
<1>7. CASE Deliver
  <2>1. press' = [k \in Keys |->
             CASE k \notin Held -> press[k]
               [] press[k] = "new" \/ (press[k] = "woke" /\ disturbed) -> "done"
               [] OTHER -> "again"]
    BY <1>7 DEF Deliver
  <2>2. Pending /\ (in_key_event => Held = {})
    BY <1>7 DEF Deliver, HandleSwitches, At, Pending
  <2> SUFFICES ASSUME NEW k \in Keys PROVE press'[k] # "again" OBVIOUS
  <2>3. CASE k \in Held
    <3>1. press[k] \in {"new", "woke"} BY <2>2, <2>3 DEF PressInv, TypeOK
    <3>2. press[k] = "woke" => disturbed BY <2>2 DEF PressInv
    <3> QED BY <2>1, <2>3, <3>1, <3>2
  <2>4. CASE k \notin Held BY <2>1, <2>4
  <2> QED BY <2>3, <2>4
<1>8. CASE HandleInput BY <1>8 DEF HandleInput, At, InputHandled, Effect
<1>9. ASSUME NEW here \in DOMAIN Following, Skip(here) PROVE KeyOnce'
  BY <1>9 DEF Skip, At
<1>10. CASE UNCHANGED vars BY <1>10 DEF vars
<1> QED BY <1>1, <1>2, <1>3, <1>4, <1>5, <1>6, <1>7, <1>8, <1>9, <1>10 DEF Next, EventLoop

-----------------------------------------------------------------------------
(* No key is down, and nothing is counted.                                 *)
LEMMA InitInv == Init => IInv
<1> SUFFICES ASSUME Init PROVE IInv OBVIOUS
<1> USE ControlsAssumption
<1>1. Held = {} /\ ~Pending BY DEF Init, Held, Pending
<1>2. timer \in Timers /\ 0 \in 0 .. Nibble * Nibble - 1 /\ 0 \in 0 .. BlModulus - 1
      /\ 0 \in 0 .. BlModulus
  BY DEF Init
<1>3. TypeOK BY <1>2 DEF Init, TypeOK
<1>4. PressInv BY <1>1 DEF Init, PressInv
<1>5. KeyInv BY DEF Init, KeyInv
<1>6. TimerInv BY <1>2 DEF Init, TimerInv
<1>7. KeyOnce BY DEF Init, KeyOnce
<1>8. ReleaseInv BY <1>1 DEF ReleaseInv
<1> QED BY <1>3, <1>4, <1>5, <1>6, <1>7, <1>8 DEF IInv

(* A press is one key event at most, a key event is never stuck without a  *)
(* key held or a release to handle, and the idle ticks are counted right,  *)
(* however the interrupt and the event loop interleave.                    *)
THEOREM Invariance == Spec => []IInv
<1>1. IInv /\ [Next]_vars => IInv'
  <2> SUFFICES ASSUME IInv, [Next]_vars PROVE IInv' OBVIOUS
  <2>1. TypeOK /\ KeyOnce /\ PressInv /\ KeyInv /\ TimerInv /\ ReleaseInv BY DEF IInv
  <2>2. TypeOK' BY <2>1, TypeStep
  <2>3. KeyOnce' BY <2>1, OnceStep
  <2>4. PressInv' BY <2>1, PressStep
  <2>5. KeyInv' BY <2>1, KeyStep
  <2>6. TimerInv' BY <2>1, TimerStep
  <2>7. ReleaseInv' BY <2>1, ReleaseStep
  <2> QED BY <2>2, <2>3, <2>4, <2>5, <2>6, <2>7 DEF IInv
<1> QED BY <1>1, InitInv, PTL DEF Spec

(* The keys do not get stuck: a key whose line is low, and has not bounced *)
(* since its press, has had its release, and a key event is over when all  *)
(* keys are released and nothing is pending.                               *)
THEOREM KeysReleased == Spec => []KeyReleased
<1>1. IInv => KeyReleased
  <2> SUFFICES ASSUME IInv, \A k \in Keys : history_[k] % Nibble = 0 /\ ~bounced[k], ~Pending
               PROVE  ~in_key_event
    BY DEF KeyReleased
  <2>1. ASSUME NEW k \in Held PROVE FALSE
    <3>1. k \in Keys BY <2>1 DEF Held
    <3>2. PICK p : FallsBy(history_[k], p) BY <2>1, <3>1 DEF IInv, ReleaseInv
    <3>3. history_[k] \in Nat
      <4>1. \A i \in 0 .. Nibble * Nibble - 1 : i \in Nat BY ControlsAssumption
      <4> QED BY <3>1, <4>1 DEF IInv, TypeOK
    <3> QED BY <3>1, <3>2, <3>3, LowerHalf
  <2> QED BY <2>1 DEF IInv, KeyInv
<1> QED BY <1>1, Invariance, PTL DEF Spec

(* The display goes to sleep with the tick after timer idle ones, never    *)
(* earlier, and stays awake for ever with a timer beyond the counter.      *)
THEOREM SleepOnTime == Spec => SleepsOnTime
<1> DEFINE A == place = "rtc" /\ place' = "switches" =>
                  (display_sleep' <=> \/ display_sleep
                                      \/ timer \in 1 .. BlModulus - 1 /\ idle' > timer)
<1>1. IInv /\ [Next]_vars => A
  <2> SUFFICES ASSUME IInv, [Next]_vars, place = "rtc", place' = "switches"
               PROVE  display_sleep' <=> \/ display_sleep
                                         \/ timer \in 1 .. BlModulus - 1 /\ idle' > timer
    OBVIOUS
  <2>1. TypeOK /\ TimerInv BY DEF IInv
  <2>2. HandleRtcTick \/ Skip("rtc")
    BY <2>1, Places DEF Next, EventLoop, vars, Tick, Wait, HandleQueues, Ignore, Wake, Deliver,
       HandleSwitches, HandleInput, Skip, At
  <2>3. CASE Skip("rtc")
    <3>1. UNCHANGED <<display_sleep, timer, idle>> BY <2>3 DEF Skip, countdown
    <3>2. timer \in 1 .. BlModulus - 1 /\ idle > timer => display_sleep
      BY <2>1, ControlsAssumption DEF TimerInv, TypeOK
    <3> QED BY <3>1, <3>2
  <2>4. CASE HandleRtcTick /\ timer # 0 /\ bl_tick_counter = timer
    <3>1. display_sleep' BY <2>4 DEF HandleRtcTick
    <3>2. timer \in 1 .. BlModulus - 1 BY <2>1, <2>4, ControlsAssumption DEF TypeOK
    <3>3. idle >= timer /\ timer < BlModulus BY <2>1, <2>4, <3>2, ControlsAssumption DEF TimerInv, TypeOK
    <3>4. idle' > timer BY <2>1, <2>4, <3>2, <3>3, ControlsAssumption DEF HandleRtcTick, TypeOK
    <3> QED BY <3>1, <3>2, <3>4
  <2>5. CASE HandleRtcTick /\ ~(timer # 0 /\ bl_tick_counter = timer)
    <3>1. display_sleep' = display_sleep BY <2>5 DEF HandleRtcTick
    <3>2. ASSUME timer \in 1 .. BlModulus - 1 PROVE ~(idle' > timer)
      <4>1. bl_tick_counter # timer BY <2>5, <3>2
      <4>2. idle < timer BY <2>1, <3>2, <4>1, ControlsAssumption DEF TimerInv, TypeOK
      <4>3. idle' = idle + 1 BY <2>1, <2>5, <3>2, <4>2, ControlsAssumption DEF HandleRtcTick, TypeOK
      <4> QED BY <2>1, <3>2, <4>2, <4>3, ControlsAssumption DEF TypeOK
    <3> QED BY Zenon, <3>1, <3>2
  <2> QED BY <2>2, <2>3, <2>4, <2>5
<1> QED BY <1>1, Invariance, PTL DEF Spec, SleepsOnTime

=============================================================================

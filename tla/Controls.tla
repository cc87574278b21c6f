------------------------------ MODULE Controls ------------------------------
(***************************************************************************)
(* Keys and the display: from the 1 kHz interrupt that debounces them to   *)
(* the key events the focused widget gets and the sleep of the display.    *)
(*                                                                         *)
(* The interrupt (irq_controls.cpp, debounce.cpp) shifts every line into   *)
(* the history of its filter and flags the event loop when any filter has  *)
(* seen an edge.  The event loop (event_m0.cpp) takes the flags at the     *)
(* beginning of a round and looks at the filters' states when it handles   *)
(* the switches, by when they may have changed again.                      *)
(*                                                                         *)
(* The encoder's two lines are debounced and flag the same event as the    *)
(* keys; here their edges come at any time, as do touches, ticks of the    *)
(* real-time clock and messages.                                           *)
(***************************************************************************)
EXTENDS Naturals

CONSTANTS
    Keys,           \* the five navigation switches
    Nibble,         \* values of half a history, 2^4
    BlModulus,      \* values of the 8-bit bl_tick_counter, 256
    Timers          \* timer_seconds, from 0 (never) on

(* Nibble is a power of two.                                               *)
ASSUME ControlsAssumption ==
    /\ Nibble \in Nat \ {0, 1} /\ BlModulus \in Nat \ {0}
    /\ \A p \in 1 .. Nibble - 1 : Nibble % p = 0 => Nibble % (2 * p) = 0
    /\ Timers \subseteq Nat /\ 0 \in Timers

VARIABLES
    history_,   \* Debounce::history_ of each key, one bit for each reading
    state_,     \* Debounce::state_
    bounced,    \* since its last edge a line changed before it was steady
    press,      \* what became of the press the filter has seen, if any
    disturbed,  \* since a key woke the display, more edges have been flagged
    events,     \* EVT_MASK_SWITCHES is pending for the event loop
    round,      \* it is one of the events of the round it is in
    place,      \* where it is in this round
    in_key_event,
    display_sleep,
    bl_tick_counter,
    timer,      \* config_backlight_timer()
    idle        \* ticks since the last input the event loop has handled

filters == <<history_, state_, bounced>>
countdown == <<bl_tick_counter, timer, idle>>
vars == <<filters, press, disturbed, events, round, place, in_key_event, display_sleep, countdown>>

Init ==
    /\ history_ = [k \in Keys |-> 0]
    /\ state_ = [k \in Keys |-> 0] /\ bounced = [k \in Keys |-> FALSE]
    /\ press = [k \in Keys |-> "none"] /\ disturbed = FALSE
    /\ events = FALSE /\ round = FALSE /\ place = "wait"
    /\ in_key_event = FALSE /\ display_sleep = FALSE
    /\ bl_tick_counter = 0 /\ timer \in Timers /\ idle = 0

-----------------------------------------------------------------------------
(* Debounce::feed(): a line that was steady at one level, and now is at    *)
(* the other, has an edge (0b00001111, 0b11110000).                        *)
Ones == Nibble - 1
Edges == {Ones, Ones * Nibble}

Steady(history) == history % Nibble \in {0, Ones}

feed(raw) ==
    LET new == [k \in Keys |-> (2 * history_[k] + raw[k]) % (Nibble * Nibble)]
    IN  /\ history_' = new
        /\ state_' = [k \in Keys |-> IF new[k] \in Edges THEN raw[k] ELSE state_[k]]
        /\ bounced' = [k \in Keys |->
               new[k] \notin Edges /\ (bounced[k] \/ ~(Steady(history_[k]) \/ raw[k] = history_[k] % 2))]
        /\ press' = [k \in Keys |-> CASE new[k] = Ones -> "new"
                                      [] new[k] = Ones * Nibble -> "none"
                                      [] OTHER -> press[k]]

(* timer0_callback(): an edge of any line flags the event loop.            *)
Tick ==
    \E raw \in [Keys -> {0, 1}], turned \in BOOLEAN :
        /\ feed(raw)
        /\ LET flagged == turned \/ \E k \in Keys : history_'[k] \in Edges
           IN  /\ events' = (events \/ flagged)
               /\ disturbed' = ((disturbed \/ flagged) /\ \E k \in Keys : press'[k] = "woke")
        /\ UNCHANGED <<round, place, in_key_event, display_sleep, countdown>>

-----------------------------------------------------------------------------
Following == [queues |-> "rtc", rtc |-> "switches", switches |-> "input",
              input |-> "wait"]

At(here) == place = here /\ place' = Following[here]

(* wait(): a round begins, for one of these events or for another one.     *)
Wait ==
    /\ place = "wait" /\ place' = "queues"
    /\ round' = events /\ events' = FALSE
    /\ UNCHANGED <<filters, press, disturbed, in_key_event, display_sleep, countdown>>

(* Nothing to do here in this round.                                       *)
Skip(here) ==
    /\ At(here)
    /\ here = "switches" => ~round
    /\ UNCHANGED <<filters, press, disturbed, events, round, in_key_event, display_sleep, countdown>>

(* A message of one of the queues has the radio transmit, in stealth mode. *)
HandleQueues ==
    /\ At("queues")
    /\ display_sleep' = TRUE
    /\ UNCHANGED <<filters, press, disturbed, events, round, in_key_event, countdown>>

(* A key, the encoder or a touch starts the count again, and the handler   *)
(* of the view it goes to may put the display to sleep or set the timer.   *)
InputHandled == bl_tick_counter' = 0 /\ idle' = 0

Effect == display_sleep' \in BOOLEAN /\ timer' \in Timers

(* Mutant of HandleRtcTick: it counts before it compares.                  *)
HandleRtcTick_early ==
    /\ At("rtc")
    /\ bl_tick_counter' = IF timer = 0 \/ bl_tick_counter = timer THEN bl_tick_counter
                          ELSE (bl_tick_counter + 1) % BlModulus
    /\ display_sleep' = (display_sleep \/ (timer # 0 /\ bl_tick_counter' = timer))
    /\ idle' = IF idle < BlModulus THEN idle + 1 ELSE idle
    /\ UNCHANGED <<filters, press, disturbed, events, round, in_key_event, timer>>

(* handle_rtc_tick().                                                      *)
HandleRtcTick ==
    /\ At("rtc")
    /\ IF timer # 0 /\ bl_tick_counter = timer
       THEN display_sleep' = TRUE /\ UNCHANGED bl_tick_counter
       ELSE /\ bl_tick_counter' = IF timer = 0 THEN bl_tick_counter
                                  ELSE (bl_tick_counter + 1) % BlModulus
            /\ UNCHANGED display_sleep
    /\ idle' = IF idle < BlModulus THEN idle + 1 ELSE idle
    /\ UNCHANGED <<filters, press, disturbed, events, round, in_key_event, timer>>

(* get_switches_state(): the filters' states now.                          *)
Held == {k \in Keys : state_[k] = 1}

(* handle_switches() begins: with all keys released a key event is over.   *)
HandleSwitches ==
    /\ At("switches") /\ round
    /\ InputHandled
    /\ UNCHANGED <<filters, events, round>>

(* During a key event further keys are ignored, and its own.               *)
Ignore ==
    /\ HandleSwitches
    /\ in_key_event /\ Held # {}
    /\ UNCHANGED <<press, disturbed, in_key_event, display_sleep, timer>>

(* Mutant of Wake: asleep, a release is not looked at.                     *)
Wake_unreleased ==
    /\ HandleSwitches
    /\ display_sleep /\ (in_key_event => Held = {})
    /\ display_sleep' = (Held = {})
    /\ press' = [k \in Keys |-> IF k \in Held THEN "woke" ELSE press[k]]
    /\ disturbed' = IF Held = {} THEN disturbed ELSE events
    /\ UNCHANGED <<in_key_event, timer>>

(* Asleep, a key wakes the display, and is no key event.                   *)
Wake ==
    /\ HandleSwitches
    /\ display_sleep /\ (in_key_event => Held = {})
    /\ in_key_event' = FALSE
    /\ display_sleep' = (Held = {})
    /\ press' = [k \in Keys |-> IF k \in Held THEN "woke" ELSE press[k]]
    /\ disturbed' = IF Held = {} THEN disturbed ELSE events
    /\ UNCHANGED timer

(* Mutant of Deliver: keys are looked at also during a key event.          *)
Deliver_busy ==
    /\ HandleSwitches
    /\ ~display_sleep
    /\ in_key_event' = (Held # {})
    /\ press' = [k \in Keys |->
           CASE k \notin Held -> press[k]
             [] press[k] = "new" \/ (press[k] = "woke" /\ disturbed) -> "done"
             [] OTHER -> "again"]
    /\ IF Held = {} THEN UNCHANGED <<display_sleep, timer>> ELSE Effect
    /\ UNCHANGED disturbed

(* Awake, every key held is an event for the focused widget.               *)
Deliver ==
    /\ HandleSwitches
    /\ ~display_sleep /\ (in_key_event => Held = {})
    /\ in_key_event' = (Held # {})
    /\ press' = [k \in Keys |->
           CASE k \notin Held -> press[k]
             [] press[k] = "new" \/ (press[k] = "woke" /\ disturbed) -> "done"
             [] OTHER -> "again"]
    /\ IF Held = {} THEN UNCHANGED <<display_sleep, timer>> ELSE Effect
    /\ UNCHANGED disturbed

(* handle_encoder(), handle_touch(): not while the display sleeps.         *)
HandleInput ==
    /\ At("input") /\ ~display_sleep
    /\ InputHandled /\ Effect
    /\ UNCHANGED <<filters, press, disturbed, events, round, in_key_event>>

EventLoop ==
    \/ Wait \/ HandleQueues \/ HandleRtcTick \/ Ignore \/ Wake \/ Deliver
    \/ HandleInput
    \/ \E here \in DOMAIN Following : Skip(here)

Next == Tick \/ EventLoop
Spec == Init /\ [][Next]_vars

-----------------------------------------------------------------------------
(* Type invariant of the filters, the event loop and the display timer.    *)
TypeOK ==
    /\ history_ \in [Keys -> 0 .. Nibble * Nibble - 1]
    /\ state_ \in [Keys -> {0, 1}] /\ bounced \in [Keys -> BOOLEAN]
    /\ press \in [Keys -> {"none", "new", "done", "woke", "again"}] /\ disturbed \in BOOLEAN
    /\ events \in BOOLEAN /\ round \in BOOLEAN
    /\ place \in {"wait", "queues", "rtc", "switches", "input"}
    /\ in_key_event \in BOOLEAN /\ display_sleep \in BOOLEAN
    /\ bl_tick_counter \in 0 .. BlModulus - 1 /\ timer \in Timers /\ idle \in 0 .. BlModulus

(* A press is a key event at most once, and a press that woke the display  *)
(* is none, unless more edges were flagged while it lasted: then the       *)
(* display is awake, no key event is on, and the key is held.              *)
KeyOnce == \A k \in Keys : press[k] # "again"

(* Edges have been flagged that handle_switches() has not looked at.       *)
Pending == events \/ (round /\ place \in {"queues", "rtc", "switches"})

(* A key that was an event is in a key event as long as it is held; one    *)
(* that woke the display waits for another flag.                           *)
PressInv ==
    \A k \in Keys :
        /\ k \in Held <=> press[k] # "none"
        /\ press[k] = "done" => in_key_event
        /\ press[k] = "woke" /\ ~disturbed => ~Pending

(* A key event ends: while it is on a key is held, or the release is yet   *)
(* to be handled.                                                          *)
KeyInv == in_key_event => Held # {} \/ Pending

(* The counter counts the idle ticks, and stops at the timer.              *)
TimerInv ==
    timer \in 1 .. BlModulus - 1 =>
        IF idle <= timer THEN bl_tick_counter = idle
        ELSE bl_tick_counter = timer /\ display_sleep

(* A history ends in ones, followed by some zeros (p = 2 ^ zeros) that do  *)
(* not fill the lower half yet.                                            *)
FallsBy(h, p) ==
    /\ p \in 1 .. Nibble - 1 /\ Nibble % p = 0 /\ (p = 1 \/ p % 2 = 0)
    /\ (h + p) % (p * Nibble) = 0

(* A key that is held, and has not bounced since the edge of its press,    *)
(* will have the edge of its release: its line is still high, or has been  *)
(* low for less than the four readings of an edge.                         *)
ReleaseInv ==
    \A k \in Held : ~bounced[k] => \E p \in 1 .. Nibble - 1 : FallsBy(history_[k], p)

IInv == TypeOK /\ KeyOnce /\ PressInv /\ KeyInv /\ TimerInv /\ ReleaseInv

(* The keys do not get stuck: when all lines have been steadily low and    *)
(* everything is handled, the key event is over, unless the release of a   *)
(* key bounced: the filter has missed that edge, and the event loop goes   *)
(* on ignoring keys until a clean release.                                 *)
KeyReleased ==
    /\ \A k \in Keys : history_[k] % Nibble = 0 /\ ~bounced[k]
    /\ ~Pending
    => ~in_key_event

(* The display is put to sleep by the tick that follows timer ticks        *)
(* without input, not earlier, and not later.  A timer that the 8-bit      *)
(* counter does not reach (300 and 600 seconds) never does.                *)
SleepsOnTime ==
    [][place = "rtc" /\ place' = "switches" =>
          (display_sleep' <=> \/ display_sleep
                              \/ timer \in 1 .. BlModulus - 1 /\ idle' > timer)]_vars
=============================================================================

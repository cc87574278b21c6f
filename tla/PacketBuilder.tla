---------------------------- MODULE PacketBuilder ----------------------------
(***************************************************************************)
(* From symbols to packets: the NRZI decoder and the packet builder of the *)
(* AIS receiver (baseband/symbol_coding.hpp, packet_builder.hpp,           *)
(* proc_ais.hpp) and the lengths the application takes a message by        *)
(* (common/ais_packet.cpp), against a transmitter of the radio protocol.   *)
(*                                                                         *)
(* A frame is training, a flag, data with a 0 stuffed after every Ones     *)
(* ones, and a flag.  The builder has no other notion of a frame than the  *)
(* last bits: it tests every bit for the preamble, which may have an       *)
(* error, or, in a payload, for a stuffed bit and for the flag.            *)
(***************************************************************************)
EXTENDS Integers, FiniteSets, Sequences

CONSTANTS
    Ones,           \* ones before a stuffed bit, 5
    Training,       \* bits of training in the preamble pattern, 8
    Distance,       \* bits of the preamble that may be wrong, 1
    Capacity,       \* of a packet, 2560
    MaxData, Noise, Errors,  \* bounds for the model: bits of data in a frame,
                    \* symbols between frames, and errors, in a behaviour
    None

(* Three ones tell a flag from training even with a wrong bit, and a frame *)
(* fits into a packet with its flag.                                       *)
ASSUME PacketAssumption ==
    /\ Ones \in Nat /\ Ones >= 3 /\ Training \in Nat \ {0} /\ Training % 2 = 0
    /\ Distance \in {0, 1}
    /\ {MaxData, Noise, Errors} \subseteq Nat
    /\ Capacity \in Nat /\ MaxData + Ones + 2 < Capacity
    /\ None \notin Seq({0, 1})

VARIABLES
    last,       \* NRZIDecoder::last
    history,    \* BitHistory: as many bits as the longest pattern
    state,      \* PacketBuilder::state
    packet,     \* its bits
    handed,     \* the last packet handed over since the last frame began
    level,      \* the level of the transmitter's line
    tx, at,     \* what it is sending, and how many bits of that it has sent
    data,       \* the data of the last frame, as far as they have been sent
    run,        \* the ones at their end that have no 0 stuffed behind them
    clean,      \* the last frame has had no error yet,
    heard,      \* the builder waited for a preamble when it was sent,
    follows,    \* another one without error came immediately before, and was
                \* heard or did not end like a preamble
    noise, errors   \* used of the bounds

builder == <<last, history, state, packet>>
frame == <<data, run, follows>>
packetvars == <<builder, handed, level, tx, at, frame, clean, heard, noise, errors>>

-----------------------------------------------------------------------------
(* The patterns of proc_ais.hpp.                                           *)
Repeat(bit, n) == [i \in 1 .. n |-> bit]
flag == <<0>> \o Repeat(1, Ones + 1) \o <<0>>
unstuffing == Repeat(1, Ones) \o <<0>>
training == [i \in 1 .. Training |-> (i + 1) % 2]
preamble == training \o flag

(* BitPattern: the last bits, but for some of them.                        *)
Matches(bits, pattern, distance) ==
    LET first == Len(bits) - Len(pattern)
    IN  Cardinality({i \in DOMAIN pattern : bits[first + i] # pattern[i]}) <= distance

PacketInit ==
    /\ last = 0 /\ history = Repeat(0, Len(preamble))
    /\ state = "Preamble" /\ packet = << >> /\ handed = None
    /\ level \in {0, 1} /\ tx = "idle" /\ at = 0 /\ data = << >> /\ run = 0
    /\ clean = FALSE /\ heard = FALSE /\ follows = FALSE
    /\ noise = 0 /\ errors = 0

-----------------------------------------------------------------------------
(* Mutant of reset_state: the packet's size is left as it is.              *)
reset_state_kept == UNCHANGED packet /\ state' = "Preamble"

(* A new packet.                                                           *)
reset_state == packet' = << >> /\ state' = "Preamble"

(* Packet::add().                                                          *)
Added(bit) == IF Len(packet) < Capacity THEN Append(packet, bit) ELSE packet

(* Mutant of Payload: the bit after Ones ones is dropped, whatever it is.  *)
Payload_any(bit) ==
    LET taken == IF Matches(history, Repeat(1, Ones), 0) THEN packet ELSE Added(bit)
    IN  IF Matches(history', flag, 0)
        THEN handed' = taken /\ reset_state
        ELSE /\ handed' = handed
             /\ IF Len(taken) >= Capacity THEN reset_state
                                          ELSE packet' = taken /\ UNCHANGED state

(* A bit of a payload: it is dropped if stuffed, it may end the packet, or *)
(* fill it.                                                                *)
Payload(bit) ==
    LET taken == IF Matches(history', unstuffing, 0) THEN packet ELSE Added(bit)
    IN  IF Matches(history', flag, 0)
        THEN handed' = taken /\ reset_state
        ELSE /\ handed' = handed
             /\ IF Len(taken) >= Capacity THEN reset_state
                                          ELSE packet' = taken /\ UNCHANGED state

(* PacketBuilder::execute().                                               *)
execute(bit) ==
    /\ history' = Append(Tail(history), bit)
    /\ IF state = "Payload" THEN Payload(bit)
       ELSE /\ state' = IF Matches(history', preamble, Distance) THEN "Payload" ELSE state
            /\ UNCHANGED <<packet, handed>>

(* consume_symbol(): a 1 is a symbol like the last one.                    *)
consume_symbol(symbol) ==
    /\ last' = symbol
    /\ execute(IF symbol = last THEN 1 ELSE 0)

-----------------------------------------------------------------------------
(* The transmitter: a bit is sent, a 0 by changing the level; the symbol   *)
(* may be mistaken.                                                        *)
Send(bit) ==
    /\ level' = IF bit = 0 THEN 1 - level ELSE level
    /\ \/ consume_symbol(level') /\ UNCHANGED <<clean, errors>>
       \/ /\ errors < Errors /\ errors' = errors + 1
          /\ consume_symbol(1 - level') /\ clean' = FALSE
    /\ UNCHANGED noise

(* A frame begins, ...                                                     *)
Begin ==
    /\ tx = "idle" /\ tx' = "lead" /\ at' = 0
    /\ data' = << >> /\ run' = 0
    /\ follows' = (clean /\ (heard \/ ~Matches(history, preamble, Distance)))
    /\ clean' = TRUE /\ heard' = FALSE /\ handed' = None
    /\ UNCHANGED <<builder, level, noise, errors>>

(* ... with more training than the pattern asks for, ...                   *)
lead == <<0, 1>> \o preamble

SendLead ==
    /\ tx = "lead"
    /\ Send(lead[at + 1])
    /\ IF at + 1 = Len(lead)
       THEN tx' = "data" /\ at' = 0 /\ heard' = (state = "Preamble")
       ELSE at' = at + 1 /\ UNCHANGED <<tx, heard>>
    /\ UNCHANGED frame

(* ... any data, ...                                                       *)
SendData ==
    /\ tx = "data" /\ run < Ones /\ Len(data) < MaxData
    /\ \E bit \in {0, 1} :
          /\ Send(bit)
          /\ data' = Append(data, bit)
          /\ run' = IF bit = 1 THEN run + 1 ELSE 0
    /\ UNCHANGED <<tx, at, heard, follows>>

(* ... a 0 after every run of ones in them, ...                            *)
SendStuffed ==
    /\ tx = "data" /\ run = Ones
    /\ Send(0)
    /\ run' = 0
    /\ UNCHANGED <<tx, at, data, heard, follows>>

(* ... and a flag.                                                         *)
SendFlag ==
    /\ tx = "flag" \/ (tx = "data" /\ run < Ones)
    /\ Send(flag[at + 1])
    /\ at' = at + 1
    /\ tx' = IF at + 1 = Len(flag) THEN "idle" ELSE "flag"
    /\ UNCHANGED <<frame, heard>>

(* Between two frames: anything.                                           *)
Silence ==
    /\ tx = "idle" /\ noise < Noise
    /\ noise' = noise + 1
    /\ \E symbol \in {0, 1} : consume_symbol(symbol)
    /\ clean' = FALSE
    /\ UNCHANGED <<level, tx, at, frame, heard, errors>>

PacketNext == Begin \/ SendLead \/ SendData \/ SendStuffed \/ SendFlag \/ Silence
PacketSpec == PacketInit /\ [][PacketNext]_packetvars

-----------------------------------------------------------------------------
(* ais::Packet::data_and_fcs_length(): the flag is in the packet, but for  *)
(* its last bit, which looked like a stuffed one.                          *)
data_and_fcs_length(bits) == Len(bits) - (Ones + 2)

Delivered ==
    /\ handed # None
    /\ SubSeq(handed, 1, data_and_fcs_length(handed)) = data
    /\ state = "Preamble" /\ packet = << >>

Sent == tx = "idle" /\ clean

(* Every frame received without error is handed over as it was sent, if    *)
(* the builder was waiting when its preamble ended.                        *)
HeardIsDelivered == Sent /\ heard => Delivered

(* What makes the builder miss a frame, an error in the flag before or in  *)
(* its preamble, does not last: of two frames in a row without error the   *)
(* second is delivered whatever happened before, unless the builder missed *)
(* the first and the last bits of that one looked like a preamble.         *)
NextIsDelivered == Sent /\ follows => Delivered
=============================================================================

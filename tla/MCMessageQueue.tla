--------------------------- MODULE MCMessageQueue ---------------------------
(* MessageQueue for TLC: a 3-unit record and a 2-unit one in a ring of 7,   *)
(* so that the queue holds at most three records and can be full for one   *)
(* writer and not for the other.                                           *)
EXTENDS MessageQueue

CONSTANTS baseband, rssi

MCRecordBytes == [w \in Writers |-> IF w = baseband THEN 3 ELSE 2]
=============================================================================

---------------------------- MODULE DapSequence ----------------------------
(* The raw sequences: dap_swd_seqout and dap_swd_seqin (cmsis-dap/swd.c)    *)
(* and dap_jtag_raw (jtag.c), clock by clock, with the bit counts their     *)
(* callers in dap_main.c make of the length field of a command.  The host's *)
(* bits are known by their numbers, from 1, those after the last one in its *)
(* last byte included; a bit the target sends by the clock that reads it.   *)
(* Zero is a bit that is neither.                                           *)
EXTENDS Naturals, Sequences, SequencesExt

CONSTANT BitFields    \* values of the length field

ASSUME SequenceAssumption == BitFields \subseteq 0..255

VARIABLES
    order,    \* the command, its port and its length field
    shift,    \* bytes done, clocks of this byte, the shift register
    driven,     \* what the probe drove at each clock, 0 if nothing
    stored       \* bytes stored
sequenceVars == <<order, shift, driven, stored>>

(* A length of zero is the longest one.  DAP_SWJ_Sequence has a byte for    *)
(* it, the other two have six bits; over JTAG the buffers have 64 bits.     *)
Asked(o) == IF o.field # 0 THEN o.field ELSE IF o.command = "swj" THEN 256 ELSE 64
BitLen(o) == IF o.command = "swj" /\ o.port = "jtag" THEN Min({Asked(o), 64}) ELSE Asked(o)
BytesOf(bits) == (bits + 7) \div 8

Orders ==
    [command : {"swj"}, port : {"swd", "jtag"}, field : BitFields]
    \cup [command : {"out", "in"}, port : {"swd"}, field : BitFields \cap 0..63]
    \cup [command : {"raw"}, port : {"jtag"}, field : BitFields \cap 0..63]

Zeros(n) == [i \in 1..n |-> 0]

SequenceInit ==
    /\ order \in Orders
    /\ shift = [bytes |-> 0, clocks |-> 0, reg |-> Zeros(8)]
    /\ driven = <<>> /\ stored = <<>>

(* The other parts are looked at.                                           *)
SequenceQuiet ==
    /\ order = [command |-> "in", port |-> "swd", field |-> 8]
    /\ shift = [bytes |-> 1, clocks |-> 0, reg |-> Zeros(8)]
    /\ driven = Zeros(8) /\ stored = <<[i \in 1..8 |-> i]>>

Whole == shift.bytes < BitLen(order) \div 8
Rest == BitLen(order) % 8
AtRest == shift.bytes = BitLen(order) \div 8 /\ Rest # 0
Reads == order.command \in {"in", "raw"}
ByteAt(n) == [i \in 1..8 |-> 8 * n + i]

(* SPI: a whole byte, lowest bit first.  While it reads, the probe's data   *)
(* pin is an analog input and what the controller sends goes nowhere.       *)
SpiByte ==
    /\ order.port = "swd" /\ Whole
    /\ driven' = driven \o (IF Reads THEN Zeros(8) ELSE ByteAt(shift.bytes))
    /\ stored' = IF Reads THEN Append(stored, ByteAt(shift.bytes)) ELSE stored
    /\ shift' = [shift EXCEPT !.bytes = @ + 1]
    /\ UNCHANGED order

(* byte >>= 1, then the new bit at the top.                                 *)
ShiftedIn(reg, bit) == Append(Tail(reg), bit)
ShiftRight(reg, n) == SubSeq(reg, n + 1, 8) \o Zeros(n)

(* swd_write_io, swd_read_io, jtag_rw: one clock.                           *)
BitClock ==
    /\ AtRest \/ (order.port = "jtag" /\ Whole)
    /\ shift.clocks < (IF Whole THEN 8 ELSE Rest)
    /\ LET clock == Len(driven) + 1
           fresh == ~Whole /\ shift.clocks = 0      \* the tail starts from zero
       IN
         /\ driven' = Append(driven, IF order.command = "in" THEN 0
                                 ELSE 8 * shift.bytes + shift.clocks + 1)
         /\ shift' = [shift EXCEPT !.clocks = @ + 1,
                        !.reg = ShiftedIn(IF fresh THEN Zeros(8) ELSE @, clock)]
    /\ UNCHANGED <<order, stored>>

(* The byte is complete; that of the tail goes to the low end.              *)
StoredTailUnshifted == shift.reg
StoredByte == IF Whole THEN shift.reg ELSE ShiftRight(shift.reg, 8 - Rest)
ByteDone ==
    /\ Whole \/ AtRest
    /\ shift.clocks = (IF Whole THEN 8 ELSE Rest)
    /\ stored' = IF Reads THEN Append(stored, StoredByte) ELSE stored
    /\ shift' = [shift EXCEPT !.bytes = @ + 1, !.clocks = 0]
    /\ UNCHANGED <<order, driven>>

SequenceNext == SpiByte \/ BitClock \/ ByteDone

----------------------------------------------------------------------------
(* A sequence has exactly the clocks the host asked for, each of its bits   *)
(* is on the wire at its own clock, and of a read each bit of the answer is *)
(* the one of its clock, with zeros above the last, wherever the length     *)
(* falls between whole bytes and single clocks.  The exception is a         *)
(* DAP_SWJ_Sequence of more than 64 bits over JTAG, of which the first 64   *)
(* are driven.                                                              *)
SequenceExact ==
    LET n == IF order.command = "swj" /\ order.port = "jtag" /\ Asked(order) > 64 THEN 64
             ELSE Asked(order)
    IN ~(Whole \/ AtRest) =>
         /\ Len(driven) = n
         /\ \A c \in 1..n : driven[c] = IF order.command = "in" THEN 0 ELSE c
         /\ Reads => FlattenSeq(stored) = [c \in 1..8 * BytesOf(n) |-> IF c <= n THEN c ELSE 0]
=============================================================================

------------------------------ MODULE UsbBulk ------------------------------
(* Bulk transfers: one IN and one OUT endpoint of usb_dc_usbhs.c, between   *)
(* a client, which starts a transfer when the one before has ended, and a   *)
(* host.  The acknowledge of any packet may get lost.  SET_CONFIGURATION,   *)
(* SET_FEATURE and CLEAR_FEATURE of ENDPOINT_HALT and a reset of the bus    *)
(* come at any time between two packets.  The endpoints share nothing but   *)
(* that, so one of them is used at a time.                                  *)
(*                                                                          *)
(* A stream is the sequence of the bytes of its messages, each message      *)
(* followed by End.                                                         *)
EXTENDS Integers, Sequences, SequencesExt

CONSTANTS
    Packet,    \* the packet size of both endpoints
    Room,      \* length of the client's reads, a multiple of Packet
    Messages   \* messages in a stream

ASSUME BulkAssumption == Packet \in Nat \ {0} /\ Room \in Nat \ {0} /\ Room % Packet = 0 /\ Messages \in Nat

VARIABLES
    in,      \* the IN endpoint: g_ch32_usbhs_udc.in_ep, epx_tx_data_toggle, its register
    out,     \* the OUT endpoint: g_ch32_usbhs_udc.out_ep and its register
    writes,  \* the client's messages to the host, and whether one is not done
    reads,   \* the messages the client was called back for
    peer,    \* the host: its toggles and streams
    sound,   \* the host has sent nothing that puts the toggles out of step
    used     \* the endpoint that is used
bulkVars == <<in, out, writes, reads, peer, sound, used>>

End == 0
Least(a, b) == IF a < b THEN a ELSE b
Count(stream) == Len(SelectSeq(stream, LAMBDA b : b = End))
(* The next message of n bytes: a byte is its place in the stream.          *)
Message(stream, n) == [i \in 1..n + 1 |-> IF i = n + 1 THEN End ELSE Len(stream) + i]

NoIn == [enabled |-> FALSE, tx |-> "nak", toggle |-> 0, soft |-> 0, txLen |-> 0, at |-> 0, len |-> 0, actual |-> 0]
NoOut == [enabled |-> FALSE, rx |-> "nak", toggle |-> 0, auto |-> TRUE, len |-> 0, actual |-> 0,
          armed |-> FALSE, buf |-> <<>>]
NoPeer == [in |-> 0, out |-> 0, got |-> <<>>, meant |-> <<>>, acked |-> 0, filled |-> 0]

BulkInit ==
    /\ in = NoIn /\ out = NoOut /\ writes = [stream |-> <<>>, busy |-> FALSE] /\ reads = <<>>
    /\ peer = NoPeer /\ sound = [in |-> TRUE, out |-> TRUE] /\ used \in {"in", "out"}
BulkQuiet == BulkInit /\ used = "in"

----------------------------------------------------------------------------
(* usbd_ep_start_write of n bytes from position at.                         *)
BulkWrite(e, at, n) ==
    IF ~e.enabled THEN e
    ELSE [e EXCEPT !.len = n, !.actual = 0, !.at = at, !.txLen = Least(n, Packet),
                   !.tx = "ack", !.toggle = e.soft]

ClientWrites(n) ==
    /\ ~writes.busy /\ Count(writes.stream) < Messages
    /\ in' = BulkWrite(in, Len(writes.stream), n)
    /\ writes' = [stream |-> writes.stream \o Message(writes.stream, n), busy |-> TRUE]
    /\ UNCHANGED <<out, reads, peer, sound>>

(* The interrupt for an IN packet the host acknowledged: the next packet of *)
(* the transfer, or the callback, which ends a transfer of full packets     *)
(* with an empty one (dap_in_callback, usbd_cdc_acm_bulk_in).               *)
BulkInDone ==
    LET e == [in EXCEPT !.tx = "nak", !.toggle = 0, !.soft = 1 - @]
        rest == in.len - Packet
        total == in.actual + in.len
        ended == [e EXCEPT !.actual = total, !.len = 0]
    IN IF in.len > Packet
       THEN /\ in' = [e EXCEPT !.at = @ + Packet, !.len = rest, !.actual = @ + Packet,
                               !.txLen = Least(rest, Packet), !.tx = "ack", !.toggle = e.soft]
            /\ UNCHANGED writes
       ELSE IF total % Packet = 0 /\ total > 0
       THEN in' = BulkWrite(ended, in.at, 0) /\ UNCHANGED writes
       ELSE in' = ended /\ writes' = [writes EXCEPT !.busy = FALSE]

(* The host takes a packet with the toggle it expects, and forgets another. *)
HostTakes(lost) ==
    /\ in.tx = "ack"
    /\ LET bytes == SubSeq(writes.stream, in.at + 1, in.at + in.txLen)
           whole == IF in.txLen < Packet THEN Append(bytes, End) ELSE bytes
       IN peer' = IF in.toggle = peer.in
                  THEN [peer EXCEPT !.in = 1 - @, !.got = @ \o whole] ELSE peer
    /\ IF lost THEN UNCHANGED <<in, writes>> ELSE BulkInDone
    /\ UNCHANGED <<out, reads, sound>>

----------------------------------------------------------------------------
(* usbd_ep_start_read of Room bytes; no read is started during another.     *)
ClientReads ==
    /\ out.enabled /\ ~out.armed /\ Count(reads) < Messages
    /\ out' = [out EXCEPT !.len = Room, !.actual = 0, !.buf = <<>>, !.rx = "ack", !.armed = TRUE]
    /\ UNCHANGED <<in, writes, reads, peer, sound>>

(* The interrupt for an OUT packet.  With the wrong toggle it does nothing, *)
(* and the packet has been acknowledged.  The controller steps the toggle   *)
(* as long as AUTOTOG is on.                                                *)
AnyTurn(toggle) == TRUE
InTurn(toggle) == out.toggle = toggle
BulkOutDone(toggle, bytes) ==
    LET data == IF Last(bytes) = End THEN Front(bytes) ELSE bytes
        n == Len(data)
        e == [out EXCEPT !.rx = "nak", !.toggle = IF out.auto THEN 1 - @ ELSE @,
                         !.actual = @ + n, !.len = @ - n,
                         !.buf = SubSeq(@, 1, out.actual) \o data]
    IN IF ~InTurn(toggle) THEN UNCHANGED <<out, reads>>
       ELSE IF n < Packet \/ e.len = 0
       THEN /\ out' = [e EXCEPT !.armed = FALSE, !.buf = <<>>]
            /\ reads' = reads \o Append(e.buf, End)
       ELSE out' = [e EXCEPT !.rx = "ack"] /\ UNCHANGED reads

(* The host begins a message when the one before is acknowledged.  A full   *)
(* packet that does not fill the client's buffer is followed by another, if *)
(* need be an empty one.  (After CLEAR_FEATURE the endpoint receives with   *)
(* no read started; that is not followed.)                                  *)
HostBegins(n) ==
    /\ out.enabled /\ peer.acked = Len(peer.meant) /\ Count(peer.meant) < Messages
    /\ peer' = [peer EXCEPT !.meant = @ \o Message(@, n)]
    /\ UNCHANGED <<in, out, writes, reads, sound>>

NextPacket ==
    LET rest == Len(peer.meant) - peer.acked - 1
        full == rest > Packet \/ (rest = Packet /\ peer.filled + Packet < Room)
    IN SubSeq(peer.meant, peer.acked + 1, IF full THEN peer.acked + Packet ELSE Len(peer.meant))
HostGives(lost) ==
    /\ out.rx = "ack" /\ out.armed /\ peer.acked < Len(peer.meant)
    /\ BulkOutDone(peer.out, NextPacket)
    /\ peer' = IF lost THEN peer
               ELSE [peer EXCEPT !.out = 1 - @, !.acked = @ + Len(NextPacket),
                                 !.filled = IF Last(NextPacket) = End THEN 0 ELSE @ + Packet]
    /\ UNCHANGED <<in, writes, sound>>

----------------------------------------------------------------------------
(* The streams of the client and the host begin anew.                       *)
Anew ==
    /\ writes' = [writes EXCEPT !.stream = <<>>] /\ reads' = <<>> /\ peer' = NoPeer

(* SET_CONFIGURATION: usbd_ep_open of both endpoints.                       *)
BulkConfigure ==
    /\ in' = [in EXCEPT !.enabled = TRUE, !.tx = "nak", !.toggle = 0]
    /\ out' = [out EXCEPT !.enabled = TRUE, !.rx = "nak", !.toggle = 0, !.auto = TRUE, !.armed = FALSE]
    /\ sound' = [sound EXCEPT !.in = @ /\ (in.soft = 0 \/ ~in.enabled)]
    /\ Anew

(* The interrupt of a reset of the bus.                                     *)
BulkReset ==
    /\ in' = NoIn /\ out' = NoOut
    /\ sound' = [in |-> TRUE, out |-> TRUE]
    /\ Anew

(* usbd_ep_set_stall and usbd_ep_clear_stall.                               *)
SetHalt(dir) ==
    /\ in.enabled
    /\ in' = IF dir = "in" THEN [in EXCEPT !.tx = "stall"] ELSE in
    /\ out' = IF dir = "out" THEN [out EXCEPT !.rx = "stall"] ELSE out
    /\ UNCHANGED <<writes, reads, peer, sound>>
ClearHalt(dir) ==
    /\ in.enabled
    /\ in' = IF dir = "in" THEN [in EXCEPT !.tx = "nak", !.toggle = 0] ELSE in
    /\ out' = IF dir = "out" THEN [out EXCEPT !.rx = "ack", !.toggle = 0, !.auto = FALSE] ELSE out
    /\ peer' = [peer EXCEPT ![dir] = 0]
    /\ sound' = [sound EXCEPT ![dir] = @ /\ dir = "in" /\ in.soft = 0]
    /\ UNCHANGED <<writes, reads>>

BulkNext ==
    /\ UNCHANGED used
    /\ \/ used = "in" /\ (\E n \in 0..Room : ClientWrites(n))
       \/ used = "in" /\ (\E lost \in BOOLEAN : HostTakes(lost))
       \/ used = "out" /\ (ClientReads \/ \E n \in 0..Room : HostBegins(n))
       \/ used = "out" /\ (\E lost \in BOOLEAN : HostGives(lost))
       \/ BulkConfigure \/ BulkReset \/ SetHalt(used) \/ ClearHalt(used)

----------------------------------------------------------------------------
(* Neither direction loses, repeats or merges bytes or messages, whichever  *)
(* acknowledges get lost and wherever the packets end: the host has a       *)
(* prefix of what the client wrote, and all of it when the client is told   *)
(* that the write is done; the client has a prefix of what the host means   *)
(* to send, and with what is in the buffer all the host holds delivered.    *)
(* Excepted is what the driver does to the toggles: of the IN endpoint, if  *)
(* CLEAR_FEATURE or a further SET_CONFIGURATION comes when the next packet  *)
(* is a DATA1, since epx_tx_data_toggle stays; and of the OUT endpoint      *)
(* after any CLEAR_FEATURE, since it turns AUTOTOG off.                     *)
BulkExact ==
    /\ sound.in =>
         /\ IsPrefix(peer.got, writes.stream)
         /\ ~writes.busy => peer.got = writes.stream
    /\ sound.out =>
         /\ IsPrefix(reads, peer.meant)
         /\ IsPrefix(SubSeq(peer.meant, 1, peer.acked), reads \o out.buf)
=============================================================================

--------------------------- MODULE CdcUsartToUsb ---------------------------
(***************************************************************************)
(* The serial to USB direction of the CDC ACM port (application/           *)
(* usb_main.c): a circular DMA channel stores what the USART receives      *)
(* straight into the buffer of a ring, one thread moves the write index    *)
(* after it, and another sends the ring's bytes to the host.               *)
(*                                                                         *)
(*   USART -DMA-> ring -sem-> usart_cdc_rev_thread (the write index)       *)
(*        -sem-> usb_cdc_usart2usb_thread --IN--> host                     *)
(*                                                                         *)
(* usart_cdc_rev_thread (priority 3) preempts usb_cdc_usart2usb_thread     *)
(* (priority 5) between any two of its instructions, and the interrupts    *)
(* preempt both.  The threads share the ring without a lock, so each       *)
(* access to its indices that a compiler may keep apart is a step of its   *)
(* own: a build that joins two of them just runs them in one go.           *)
(***************************************************************************)
EXTENDS RingOps, RtCompletion

CONSTANTS
  PacketSize,  (* DAP_PACKET_SIZE, the most the thread sends at once       *)
  IndexSpan,   (* 2^31: an index is a bit-field of 31 bits                 *)
  MaxBytes,    (* bound: bytes on the serial line                          *)
  MaxChanges   (* bound: changes of the line coding                        *)

ASSUME PacketAssumption == PacketSize \in 1 .. Size
ASSUME SpanAssumption == IndexSpan \in Nat /\ IndexSpan >= 2 * Size
ASSUME BoundAssumption == MaxBytes \in Nat /\ MaxChanges \in Nat
ASSUME BytesAssumption == 0 .. MaxBytes \subseteq Values

VARIABLES
  rb,           (* rb_usart2usb; its bytes are numbered as they come        *)
  count,        (* CNTR of the RX channel: bytes up to the end of the ring  *)
  pending,      (* interrupts of the channel and the USART not yet served   *)
  revSem,       (* usart_rev_sem: something was received                    *)
  emptySem,     (* usart_empty_sem: the write index moved                   *)
  remaining,    (* remaining_cnt: CNTR as the thread last accounted for it  *)
  send,         (* send_completion                                          *)
  revPc, counter, recvLen,   (* usart_cdc_rev_thread                        *)
  u2uPc, status, getLen,     (* usb_cdc_usart2usb_thread, and the locals of *)
                             (* rt_ringbuffer_get while it runs             *)
  sendBuf,      (* usb_cdc_send_buff                                        *)
  inArmed,      (* what CDC_IN_EP sends on the next IN token                *)
  received,     (* how many bytes came over the line                        *)
  delivered,    (* the bytes the host has read                              *)
  changes       (* how often the host changed the line coding               *)

revVars  == <<revPc, counter, recvLen>>
getVars  == <<status, getLen>>
u2uVars  == <<u2uPc, getVars, sendBuf>>
hostVars == <<delivered, changes>>
vars == <<rb, count, pending, revSem, emptySem, remaining, send, revVars,
          u2uVars, inArmed, received, hostVars>>

(* What CDC_IN_EP is armed with: usb_cdc_send_buff or a zero-length packet. *)
InStates == {"idle", "data", "zlp"}

Init ==
  /\ rb = [buf |-> [k \in Index |-> 0], ri |-> 0, rm |-> 0, wi |-> 0, wm |-> 0]
  /\ count = Size /\ pending = {}
  /\ revSem = 0 /\ emptySem = 0 /\ remaining = 0 /\ send = Fresh
  /\ revPc = "take" /\ counter = 0 /\ recvLen = 0
  /\ u2uPc = "look" /\ status = "empty" /\ getLen = 0 /\ sendBuf = << >>
  /\ inArmed = "idle" /\ received = 0 /\ delivered = << >> /\ changes = 0

-----------------------------------------------------------------------------
(* The hardware and its interrupts                                         *)

(* The channel stores a byte and goes round; half way and at the end it    *)
(* raises an interrupt, and so does the USART when the line falls silent.  *)
RxByte ==
  /\ received < MaxBytes
  /\ received' = received + 1
  /\ rb' = [rb EXCEPT !.buf[Size - count] = received + 1]
  /\ count' = IF count = 1 THEN Size ELSE count - 1
  /\ pending' = (pending \ {"silence"}) \cup {"busy"}
                 \cup (IF count' = Size \div 2 THEN {"half"} ELSE {})
                 \cup (IF count' = Size THEN {"full"} ELSE {})
  /\ UNCHANGED <<revSem, emptySem, remaining, send, revVars, u2uVars, inArmed,
                 hostVars>>

RxSilence ==
  /\ "busy" \in pending
  /\ pending' = (pending \ {"busy"}) \cup {"silence"}
  /\ UNCHANGED <<rb, count, revSem, emptySem, remaining, send, revVars, u2uVars,
                 inArmed, received, hostVars>>

(* variant: the idle interrupt is not enabled *)
UsartIrqForgotten ==
  /\ "silence" \in pending
  /\ pending' = pending \ {"silence"}
  /\ UNCHANGED <<rb, count, revSem, emptySem, remaining, send, revVars, u2uVars,
                 inArmed, received, hostVars>>

(* USART_IRQ_HANDLE *)
UsartIrq ==
  /\ "silence" \in pending
  /\ pending' = pending \ {"silence"}
  /\ revSem' = revSem + 1
  /\ UNCHANGED <<rb, count, emptySem, remaining, send, revVars, u2uVars, inArmed,
                 received, hostVars>>

(* USART_DMA_RX_HANDLE *)
DmaRxIrq ==
  /\ {"half", "full"} \cap pending # {}
  /\ revSem' = revSem + (IF {"half", "full"} \subseteq pending THEN 2 ELSE 1)
  /\ pending' = pending \ {"half", "full"}
  /\ UNCHANGED <<rb, count, emptySem, remaining, send, revVars, u2uVars, inArmed,
                 received, hostVars>>

-----------------------------------------------------------------------------
(* usart_cdc_rev_thread                                                    *)

(* rt_sem_take(usart_rev_sem, RT_WAITING_FOREVER) *)
RevTake ==
  /\ revPc = "take" /\ revSem > 0
  /\ revSem' = revSem - 1
  /\ revPc' = "count"
  /\ UNCHANGED <<rb, count, pending, emptySem, remaining, send, counter, recvLen,
                 u2uVars, inArmed, received, hostVars>>

(* USART_DMA_RX_GET_NUM *)
RevCount ==
  /\ revPc = "count"
  /\ counter' = count
  /\ revPc' = "compare"
  /\ UNCHANGED <<rb, count, pending, revSem, emptySem, remaining, send, recvLen,
                 u2uVars, inArmed, received, hostVars>>

(* variant: the lap around the end of the buffer is not counted *)
LapLenForgotten(last, now) == IF now <= last THEN last - now ELSE now - last

(* How far the channel has come since CNTR was last: less than a lap. *)
LapLen(last, now) == IF now <= last THEN last - now ELSE Size + last - now

RevCompare ==
  /\ revPc = "compare"
  /\ recvLen' = LapLen(remaining, counter)
  /\ IF recvLen' = 0
       THEN revPc' = "take" /\ UNCHANGED remaining
       ELSE revPc' = "update" /\ remaining' = counter
  /\ UNCHANGED <<rb, count, pending, revSem, emptySem, send, counter, u2uVars,
                 inArmed, received, hostVars>>

(* rt_update_write_index, with the interrupts off *)
RevUpdate ==
  /\ revPc = "update"
  /\ rb' = UpdateWriteIndex(rb, recvLen)
  /\ revPc' = "signal"
  /\ UNCHANGED <<count, pending, revSem, emptySem, remaining, send, counter,
                 recvLen, u2uVars, inArmed, received, hostVars>>

(* rt_sem_release(usart_empty_sem) *)
RevSignal ==
  /\ revPc = "signal"
  /\ emptySem' = emptySem + 1
  /\ revPc' = "take"
  /\ UNCHANGED <<rb, count, pending, revSem, remaining, send, counter, recvLen,
                 u2uVars, inArmed, received, hostVars>>

-----------------------------------------------------------------------------
(* usb_cdc_usart2usb_thread, which runs while usart_cdc_rev_thread waits   *)

Idle2Rev == revPc = "take" /\ revSem = 0

(* rt_ringbuffer_data_len(rb_usart2usb) == 0: the thread waits only when   *)
(* it saw an empty ring, whatever it would see on a second look.           *)
U2uLook ==
  /\ u2uPc = "look" /\ Idle2Rev
  /\ u2uPc' = IF DataLen(rb) = 0 THEN "take" ELSE "get"
  /\ UNCHANGED <<rb, count, pending, revSem, emptySem, remaining, send, revVars,
                 getVars, sendBuf, inArmed, received, hostVars>>

(* rt_sem_take(usart_empty_sem, RT_WAITING_FOREVER) *)
U2uTake ==
  /\ u2uPc = "take" /\ Idle2Rev
  /\ emptySem > 0 /\ emptySem' = emptySem - 1
  /\ u2uPc' = "look"
  /\ UNCHANGED <<rb, count, pending, revSem, remaining, send, revVars, getVars,
                 sendBuf, inArmed, received, hostVars>>

(* rt_ringbuffer_get: rt_ringbuffer_status ...                             *)
U2uStatus ==
  /\ u2uPc = "get" /\ Idle2Rev
  /\ status' = CASE IsEmpty(rb) -> "empty" [] IsFull(rb) -> "full"
                 [] OTHER -> "half"
  /\ u2uPc' = "length"
  /\ UNCHANGED <<rb, count, pending, revSem, emptySem, remaining, send, revVars,
                 getLen, sendBuf, inArmed, received, hostVars>>

(* ... the rest of rt_ringbuffer_data_len, on the indices of now ...       *)
U2uLength ==
  /\ u2uPc = "length" /\ Idle2Rev
  /\ getLen' = Smaller(PacketSize,
                  CASE status = "empty" -> 0
                    [] status = "full"  -> Size
                    [] rb.wi > rb.ri    -> rb.wi - rb.ri
                    [] OTHER            -> Size - (rb.ri - rb.wi))
  /\ u2uPc' = "copy"
  /\ UNCHANGED <<rb, count, pending, revSem, emptySem, remaining, send, revVars,
                 status, sendBuf, inArmed, received, hostVars>>

(* ... the copy, and the index.  When it reaches the end the mirror bit    *)
(* flips first.                                                            *)
U2uCopy ==
  /\ u2uPc = "copy" /\ Idle2Rev
  /\ sendBuf' = CopyOut(rb, getLen)
  /\ IF Size - rb.ri > getLen
       THEN rb' = MoveRead(rb, getLen) /\ u2uPc' = "init"
       ELSE rb' = [rb EXCEPT !.rm = Flip(rb.rm)] /\ u2uPc' = "index"
  /\ status' = "empty" /\ getLen' = 0
  /\ UNCHANGED <<count, pending, revSem, emptySem, remaining, send, revVars,
                 inArmed, received, hostVars>>

U2uIndex ==
  /\ u2uPc = "index" /\ Idle2Rev
  /\ rb' = [rb EXCEPT !.ri = (Len(sendBuf) - (Size - rb.ri)) % IndexSpan]
  /\ u2uPc' = "init"
  /\ UNCHANGED <<count, pending, revSem, emptySem, remaining, send, revVars,
                 getVars, sendBuf, inArmed, received, hostVars>>

(* rt_completion_init(&send_completion) *)
U2uInit ==
  /\ u2uPc = "init" /\ Idle2Rev
  /\ send' = Fresh
  /\ u2uPc' = "write"
  /\ UNCHANGED <<rb, count, pending, revSem, emptySem, remaining, revVars, getVars,
                 sendBuf, inArmed, received, hostVars>>

(* usbd_ep_start_write(CDC_IN_EP, usb_cdc_send_buff, len) *)
U2uWrite ==
  /\ u2uPc = "write" /\ Idle2Rev
  /\ inArmed' = "data"
  /\ u2uPc' = "wait"
  /\ UNCHANGED <<rb, count, pending, revSem, emptySem, remaining, send, revVars,
                 getVars, sendBuf, received, hostVars>>

(* variant: the buffer is filled again while the host still reads it *)
U2uWaitReturnsAtOnce ==
  /\ u2uPc = "wait" /\ Idle2Rev
  /\ send' = Consume(send) /\ u2uPc' = "look"
  /\ UNCHANGED <<rb, count, pending, revSem, emptySem, remaining, revVars, getVars,
                 sendBuf, inArmed, received, hostVars>>

(* rt_completion_wait(&send_completion, RT_WAITING_FOREVER) *)
U2uWait ==
  /\ u2uPc = "wait" /\ Idle2Rev
  /\ IF send.done THEN send' = Consume(send) /\ u2uPc' = "look"
                  ELSE send' = Suspend(send) /\ u2uPc' = "suspended"
  /\ UNCHANGED <<rb, count, pending, revSem, emptySem, remaining, revVars, getVars,
                 sendBuf, inArmed, received, hostVars>>

U2uWoken ==
  /\ u2uPc = "woken" /\ Idle2Rev
  /\ send' = Consume(send)
  /\ u2uPc' = "look"
  /\ UNCHANGED <<rb, count, pending, revSem, emptySem, remaining, revVars, getVars,
                 sendBuf, inArmed, received, hostVars>>

-----------------------------------------------------------------------------
(* The host                                                                *)

(* variant: the transfer is over before its zero-length packet went out *)
HostInDoneEarly ==
  /\ inArmed # "idle"
  /\ delivered' = IF inArmed = "data" THEN delivered \o sendBuf ELSE delivered
  /\ inArmed' = IF inArmed = "data" /\ Len(sendBuf) = PacketSize
                  THEN "zlp" ELSE "idle"
  /\ send' = Complete(send)
  /\ u2uPc' = IF Resumes(send) THEN "woken" ELSE u2uPc
  /\ UNCHANGED <<rb, count, pending, revSem, emptySem, remaining, revVars, getVars,
                 sendBuf, received, changes>>

(* The host has read a packet: usbd_cdc_acm_bulk_in follows a full one     *)
(* with a zero-length packet, and completes the transfer after any other.  *)
HostIn ==
  /\ inArmed # "idle"
  /\ delivered' = IF inArmed = "data" THEN delivered \o sendBuf ELSE delivered
  /\ IF inArmed = "data" /\ Len(sendBuf) = PacketSize
       THEN inArmed' = "zlp" /\ UNCHANGED <<send, u2uPc>>
       ELSE /\ inArmed' = "idle"
            /\ send' = Complete(send)
            /\ u2uPc' = IF Resumes(send) THEN "woken" ELSE u2uPc
  /\ UNCHANGED <<rb, count, pending, revSem, emptySem, remaining, revVars, getVars,
                 sendBuf, received, changes>>

(* usbd_cdc_acm_set_line_coding, in the interrupt of endpoint 0, for       *)
(* settings that differ.  A thread that waits for a semaphore is resumed   *)
(* with an error and asks again; a thread that waits for the completion is *)
(* forgotten; dma_param_config sets the channel back to the start.         *)
SetLineCoding ==
  /\ changes < MaxChanges
  /\ changes' = changes + 1
  /\ remaining' = 0
  /\ send' = Fresh
  /\ revSem' = 0 /\ emptySem' = 0
  /\ u2uPc' = IF u2uPc = "take" THEN "look" ELSE u2uPc
  /\ rb' = Reset(rb)
  /\ count' = Size
  /\ UNCHANGED <<pending, revVars, getVars, sendBuf, inArmed, received, delivered>>

-----------------------------------------------------------------------------
(* How many bytes usb_cdc_usart2usb_thread took from the ring, and how far *)
(* the channel is ahead of the write index.                                *)
InHand == IF u2uPc \in {"init", "write"} \/ inArmed = "data"
            THEN Len(sendBuf) ELSE 0
Outstanding == received - Len(delivered) - InHand
Unaccounted == Distance(rb.wi, Size - count)

(* usart_cdc_rev_thread runs at least once while the channel goes round,   *)
(* and the host keeps up with the line.                                    *)
NotLapped == Unaccounted + 1 < Size
KeepsUp   == Outstanding < Size

Irqs      == UsartIrq \/ DmaRxIrq
RevThread == RevTake \/ RevCount \/ RevCompare \/ RevUpdate \/ RevSignal
U2uThread == U2uLook \/ U2uTake \/ U2uStatus \/ U2uLength \/ U2uCopy
             \/ U2uIndex \/ U2uInit \/ U2uWrite \/ U2uWait \/ U2uWoken
Others    == RxSilence \/ Irqs \/ RevThread \/ U2uThread \/ HostIn

(* The port while the host keeps up; bytes of the line are not followed    *)
(* any more once its coding has changed, which forgets those in the ring.  *)
Next == (NotLapped /\ KeepsUp /\ changes = 0 /\ RxByte) \/ Others \/ SetLineCoding
Spec == Init /\ [][Next]_vars

(* The line falls silent when no byte comes any more; the host polls the   *)
(* endpoint; a thread runs when those above it wait.                       *)
Fairness   == WF_vars(RxSilence) /\ WF_vars(Irqs) /\ WF_vars(RevThread)
              /\ WF_vars(U2uThread) /\ WF_vars(HostIn)
FairSpec   == Spec /\ Fairness

-----------------------------------------------------------------------------
(* Properties                                                              *)

(* As long as the line coding stays as it is, the host reads the bytes of  *)
(* the line as they came: none lost, none twice, none from a part of the   *)
(* ring the channel has not reached, or has reached again                  *)
(* (usb_main.c:524-535, 561).                                              *)
DeliveredInOrder == changes = 0 => \A i \in 1 .. Len(delivered) : delivered[i] = i

(* The indices and CNTR agree on where every byte is, until the line       *)
(* coding changes: what came and has not been taken is between the indices *)
(* or between the write index and the channel (usb_main.c:524-535).        *)
NothingLost ==
  changes = 0 /\ u2uPc # "index" => Outstanding = DataLen(rb) + Unaccounted

(* usb_cdc_send_buff and CDC_IN_EP belong to one transfer until its last   *)
(* packet, the zero-length one included, is on its way, also across a      *)
(* change of the line coding, which initialises the completion of the      *)
(* transfer (usb_main.c:355-366, 561-566 and 739).                         *)
BufferExclusive == inArmed # "idle" => u2uPc \in {"wait", "suspended"}

(* The host catches up with the line unless the line coding changes: every *)
(* byte gets there, also the last ones before a silence, which raise no    *)
(* interrupt of the channel (usb_main.c:255-281).                          *)
AllDelivered == received > Len(delivered) ~> changes > 0 \/ received = Len(delivered)
=============================================================================

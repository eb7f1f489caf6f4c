--------------------------- MODULE CdcUsbToUsart ---------------------------
(***************************************************************************)
(* The USB to serial direction of the CDC ACM port (application/           *)
(* usb_main.c): packets of the host go through usb_cdc_rev_buff into a     *)
(* ring buffer, and a DMA channel sends them from the ring to the USART.   *)
(*                                                                         *)
(*   host --OUT--> usbd_cdc_acm_bulk_out -sem-> usb_cdc_rev_thread         *)
(*        -ring-> usb_cdc_usb2usart_thread -DMA-> USART                    *)
(*                                                                         *)
(* usb_cdc_usb2usart_thread (priority 3) preempts usb_cdc_rev_thread       *)
(* (priority 5) between any two of its instructions, and the interrupts    *)
(* preempt both.  The two threads share the ring without a lock: what a    *)
(* preemption inside rt_ringbuffer_data_len or rt_ringbuffer_put can see   *)
(* is up to the compiler, so Piecemeal says what it did.                   *)
(***************************************************************************)
EXTENDS RingOps, RtCompletion

CONSTANTS
  PacketSize,  (* DAP_PACKET_SIZE, the most an OUT packet holds            *)
  Piecemeal,   (* the build loads the ring's indices once more after       *)
               (* rt_ringbuffer_status, and stores the mirror bit before   *)
               (* the index                                                *)
  IndexSpan,   (* 2^31: an index is a bit-field of 31 bits                 *)
  MaxPackets,  (* bound: OUT packets of the host                           *)
  MaxChanges   (* bound: changes of the line coding                        *)

ASSUME PacketAssumption == PacketSize \in 1 .. Size
ASSUME BuildAssumption == Piecemeal \in BOOLEAN
ASSUME SpanAssumption == IndexSpan \in Nat /\ IndexSpan >= 2 * Size
ASSUME BoundAssumption == MaxPackets \in Nat /\ MaxChanges \in Nat
ASSUME BytesAssumption == 0 .. MaxPackets * PacketSize \subseteq Values

VARIABLES
  rb,           (* rb_usb2usart; its bytes are numbered as they come        *)
  revSem,       (* usb_revs_sem: a packet is in usb_cdc_rev_buff            *)
  readySem,     (* usb_reve_sem: a packet is in the ring                    *)
  full,         (* full_completion                                          *)
  tx,           (* send_completion                                          *)
  revPc, revBuf, seen,     (* usb_cdc_rev_thread, usb_cdc_rev_buff, and the *)
                           (* ring as rt_ringbuffer_status saw it           *)
  u2uPc, u2uPtr, u2uLen,   (* usb_cdc_usb2usart_thread                      *)
  outArmed,     (* CDC_OUT_EP answers ACK                                   *)
  dma,          (* the TX channel: where it reads, how many bytes are left  *)
  packets,      (* how many packets the host has sent                       *)
  received,     (* how many bytes they held                                 *)
  written,      (* the bytes that went out to the USART                     *)
  changes       (* how often the host changed the line coding               *)

revVars  == <<revPc, revBuf, seen>>
u2uVars  == <<u2uPc, u2uPtr, u2uLen>>
hostVars == <<packets, received, changes>>
vars == <<rb, revSem, readySem, full, tx, revVars, u2uVars, outArmed, dma,
          hostVars, written>>

DmaIdle == [on |-> FALSE, ptr |-> 0, left |-> 0]

Init ==
  /\ rb = [buf |-> [k \in Index |-> 0], ri |-> 0, rm |-> 0, wi |-> 0, wm |-> 0]
  /\ revSem = 0 /\ readySem = 0 /\ full = Fresh /\ tx = Fresh
  /\ revPc = "take" /\ revBuf = << >> /\ seen = rb
  /\ u2uPc = "look" /\ u2uPtr = 0 /\ u2uLen = 0
  /\ outArmed = TRUE /\ dma = DmaIdle
  /\ packets = 0 /\ received = 0 /\ changes = 0
  /\ written = << >>

-----------------------------------------------------------------------------
(* usb_cdc_rev_thread, which runs while usb_cdc_usb2usart_thread waits     *)

Idle2Usart == \/ u2uPc = "take" /\ readySem = 0
              \/ u2uPc = "suspended"

(* rt_sem_take(usb_revs_sem, RT_WAITING_FOREVER) *)
RevTake ==
  /\ revPc = "take" /\ Idle2Usart
  /\ revSem > 0 /\ revSem' = revSem - 1
  /\ revPc' = "check"
  /\ UNCHANGED <<rb, readySem, full, tx, revBuf, seen, u2uVars, outArmed, dma,
                 hostVars, written>>

(* rt_ringbuffer_status, the first half of rt_ringbuffer_data_len, which   *)
(* both the test for space and rt_ringbuffer_put call                      *)
RevLook ==
  /\ revPc \in {"check", "put"} /\ Idle2Usart
  /\ seen' = rb
  /\ revPc' = IF revPc = "check" THEN "measure" ELSE "copy"
  /\ UNCHANGED <<rb, revSem, readySem, full, tx, revBuf, u2uVars, outArmed,
                 dma, hostVars, written>>

(* ... and the second half, on the indices seen or on those of now *)
SpaceSeen ==
  CASE IsEmpty(seen) -> Size
    [] IsFull(seen)  -> 0
    [] OTHER         -> LET r == IF Piecemeal THEN rb ELSE seen
                        IN IF r.wi > r.ri THEN Size - (r.wi - r.ri)
                                          ELSE r.ri - r.wi

(* variant: the packet is put whatever the space *)
RevMeasureSkipped ==
  /\ revPc = "measure" /\ Idle2Usart
  /\ revPc' = "put"
  /\ UNCHANGED <<rb, revSem, readySem, full, tx, revBuf, seen, u2uVars,
                 outArmed, dma, hostVars, written>>

(* rt_ringbuffer_space_len(rb_usb2usart) < DAP_PACKET_SIZE *)
RevMeasure ==
  /\ revPc = "measure" /\ Idle2Usart
  /\ revPc' = IF SpaceSeen < PacketSize THEN "init" ELSE "put"
  /\ UNCHANGED <<rb, revSem, readySem, full, tx, revBuf, seen, u2uVars,
                 outArmed, dma, hostVars, written>>

(* rt_completion_init(&full_completion) *)
RevInit ==
  /\ revPc = "init" /\ Idle2Usart
  /\ full' = Fresh
  /\ revPc' = "wait"
  /\ UNCHANGED <<rb, revSem, readySem, tx, revBuf, seen, u2uVars, outArmed,
                 dma, hostVars, written>>

(* rt_completion_wait(&full_completion, RT_WAITING_FOREVER) *)
RevWait ==
  /\ revPc = "wait" /\ Idle2Usart
  /\ IF full.done THEN full' = Consume(full) /\ revPc' = "put"
                  ELSE full' = Suspend(full) /\ revPc' = "suspended"
  /\ UNCHANGED <<rb, revSem, readySem, tx, revBuf, seen, u2uVars, outArmed,
                 dma, hostVars, written>>

RevWoken ==
  /\ revPc = "woken" /\ Idle2Usart
  /\ full' = Consume(full)
  /\ revPc' = "put"
  /\ UNCHANGED <<rb, revSem, readySem, tx, revBuf, seen, u2uVars, outArmed,
                 dma, hostVars, written>>

(* rt_ringbuffer_put copies what fits, then moves the index or takes it    *)
(* around the end; the index is loaded again after the copy.               *)
PutCount == Smaller(SpaceSeen, Len(revBuf))

RevCopy ==
  /\ revPc = "copy" /\ Idle2Usart
  /\ LET n     == PutCount
         w     == CopyIn(rb, revBuf, n)
         wraps == Size - rb.wi <= n
     IN /\ revBuf' = SubSeq(revBuf, 1, n)
        /\ revPc' = IF wraps THEN "wrap" ELSE "move"
        /\ rb' = IF wraps /\ Piecemeal THEN [w EXCEPT !.wm = Flip(w.wm)] ELSE w
  /\ UNCHANGED <<revSem, readySem, full, tx, seen, u2uVars, outArmed, dma,
                 hostVars, written>>

RevIndex ==
  /\ revPc \in {"move", "wrap"} /\ Idle2Usart
  /\ rb' = IF revPc = "move"
             THEN [rb EXCEPT !.wi = rb.wi + Len(revBuf)]
             ELSE [rb EXCEPT !.wi = (Len(revBuf) - (Size - rb.wi)) % IndexSpan,
                             !.wm = IF Piecemeal THEN rb.wm ELSE Flip(rb.wm)]
  /\ revPc' = "arm"
  /\ UNCHANGED <<revSem, readySem, full, tx, revBuf, seen, u2uVars, outArmed,
                 dma, hostVars, written>>

(* usbd_ep_start_read(CDC_OUT_EP, usb_cdc_rev_buff, DAP_PACKET_SIZE) *)
RevArm ==
  /\ revPc = "arm" /\ Idle2Usart
  /\ outArmed' = TRUE
  /\ revPc' = "signal"
  /\ UNCHANGED <<rb, revSem, readySem, full, tx, revBuf, seen, u2uVars, dma,
                 hostVars, written>>

(* variant: the other thread is not told *)
RevSignalForgotten ==
  /\ revPc = "signal" /\ Idle2Usart
  /\ revPc' = "take"
  /\ UNCHANGED <<rb, revSem, readySem, full, tx, revBuf, seen, u2uVars,
                 outArmed, dma, hostVars, written>>

(* rt_sem_release(usb_reve_sem) *)
RevSignal ==
  /\ revPc = "signal" /\ Idle2Usart
  /\ readySem' = readySem + 1
  /\ revPc' = "take"
  /\ UNCHANGED <<rb, revSem, full, tx, revBuf, seen, u2uVars, outArmed, dma,
                 hostVars, written>>

-----------------------------------------------------------------------------
(* usb_cdc_usb2usart_thread                                                *)

(* rt_get_linear_buffer *)
U2uLook ==
  /\ u2uPc = "look"
  /\ IF DataLen(rb) = 0
       THEN u2uPc' = "take" /\ UNCHANGED <<u2uPtr, u2uLen>>
       ELSE u2uPc' = "init" /\ u2uPtr' = rb.ri /\ u2uLen' = LinearLen(rb)
  /\ UNCHANGED <<rb, revSem, readySem, full, tx, revVars, outArmed, dma,
                 hostVars, written>>

(* rt_sem_take(usb_reve_sem, RT_WAITING_FOREVER) *)
U2uTake ==
  /\ u2uPc = "take" /\ readySem > 0
  /\ readySem' = readySem - 1
  /\ u2uPc' = "look"
  /\ UNCHANGED <<rb, revSem, full, tx, revVars, u2uPtr, u2uLen, outArmed, dma,
                 hostVars, written>>

(* rt_completion_init(&send_completion) *)
U2uInit ==
  /\ u2uPc = "init"
  /\ tx' = Fresh
  /\ u2uPc' = "start"
  /\ UNCHANGED <<rb, revSem, readySem, full, revVars, u2uPtr, u2uLen, outArmed,
                 dma, hostVars, written>>

(* usart_send_bydma *)
U2uStart ==
  /\ u2uPc = "start"
  /\ dma' = [on |-> TRUE, ptr |-> u2uPtr, left |-> u2uLen]
  /\ u2uPc' = "wait"
  /\ UNCHANGED <<rb, revSem, readySem, full, tx, revVars, u2uPtr, u2uLen,
                 outArmed, hostVars, written>>

(* variant: the bytes are given back while the channel still reads them *)
U2uWaitReturnsAtOnce ==
  /\ u2uPc = "wait"
  /\ tx' = Consume(tx) /\ u2uPc' = "update"
  /\ UNCHANGED <<rb, revSem, readySem, full, revVars, u2uPtr, u2uLen, outArmed,
                 dma, hostVars, written>>

(* rt_completion_wait(&send_completion, RT_WAITING_FOREVER) *)
U2uWait ==
  /\ u2uPc = "wait"
  /\ IF tx.done THEN tx' = Consume(tx) /\ u2uPc' = "update"
                ELSE tx' = Suspend(tx) /\ u2uPc' = "suspended"
  /\ UNCHANGED <<rb, revSem, readySem, full, revVars, u2uPtr, u2uLen, outArmed,
                 dma, hostVars, written>>

U2uWoken ==
  /\ u2uPc = "woken"
  /\ tx' = Consume(tx)
  /\ u2uPc' = "update"
  /\ UNCHANGED <<rb, revSem, readySem, full, revVars, u2uPtr, u2uLen, outArmed,
                 dma, hostVars, written>>

(* rt_update_read_index *)
U2uUpdate ==
  /\ u2uPc = "update"
  /\ rb' = UpdateReadIndex(rb, u2uLen)
  /\ u2uPc' = "signal"
  /\ UNCHANGED <<revSem, readySem, full, tx, revVars, u2uPtr, u2uLen, outArmed,
                 dma, hostVars, written>>

(* rt_completion_done(&full_completion), when a packet fits again *)
U2uSignal ==
  /\ u2uPc = "signal"
  /\ IF SpaceLen(rb) >= PacketSize
       THEN /\ full' = Complete(full)
            /\ revPc' = IF Resumes(full) THEN "woken" ELSE revPc
       ELSE UNCHANGED <<full, revPc>>
  /\ u2uPc' = "look"
  /\ UNCHANGED <<rb, revSem, readySem, tx, revBuf, seen, u2uPtr, u2uLen,
                 outArmed, dma, hostVars, written>>

-----------------------------------------------------------------------------
(* The interrupts and the hardware                                         *)

(* The channel moves a byte from the ring to the USART. *)
DmaByte ==
  /\ dma.on /\ dma.left > 0
  /\ written' = Append(written, rb.buf[dma.ptr])
  /\ dma' = [dma EXCEPT !.ptr = Wrap(dma.ptr, 1), !.left = dma.left - 1]
  /\ UNCHANGED <<rb, revSem, readySem, full, tx, revVars, u2uVars, outArmed,
                 hostVars>>

(* USART_DMA_TX_HANDLE *)
DmaDone ==
  /\ dma.on /\ dma.left = 0
  /\ dma' = DmaIdle
  /\ tx' = Complete(tx)
  /\ u2uPc' = IF Resumes(tx) THEN "woken" ELSE u2uPc
  /\ UNCHANGED <<rb, revSem, readySem, full, revVars, u2uPtr, u2uLen, outArmed,
                 hostVars, written>>

(* An OUT packet is in usb_cdc_rev_buff: usbd_cdc_acm_bulk_out *)
HostPacket ==
  /\ outArmed /\ packets < MaxPackets
  /\ \E n \in 1 .. PacketSize :
       /\ revBuf' = [i \in 1 .. n |-> received + i]
       /\ received' = received + n
  /\ packets' = packets + 1
  /\ outArmed' = FALSE
  /\ revSem' = revSem + 1
  /\ UNCHANGED <<rb, readySem, full, tx, revPc, seen, u2uVars, dma, changes,
                 written>>

(* usbd_cdc_acm_set_line_coding, in the interrupt of endpoint 0, for       *)
(* settings that differ.  A thread that waits for a semaphore is resumed   *)
(* with an error and asks again; a thread that waits for a completion is   *)
(* forgotten; dma_param_config leaves the channel disabled.                *)
SetLineCoding ==
  /\ changes < MaxChanges
  /\ changes' = changes + 1
  /\ revBuf' = IF revPc \in {"copy", "move", "wrap"} THEN revBuf ELSE << >>
  /\ tx' = Fresh /\ full' = Fresh
  /\ revSem' = 0 /\ readySem' = 0
  /\ u2uPc' = IF u2uPc = "take" THEN "look" ELSE u2uPc
  /\ rb' = Reset(rb)
  /\ dma' = DmaIdle
  /\ UNCHANGED <<revPc, seen, u2uPtr, u2uLen, outArmed, packets, received,
                 written>>

-----------------------------------------------------------------------------
RevThread == RevTake \/ RevLook \/ RevMeasure \/ RevInit \/ RevWait \/ RevWoken
             \/ RevCopy \/ RevIndex \/ RevArm \/ RevSignal
U2uThread == U2uLook \/ U2uTake \/ U2uInit \/ U2uStart \/ U2uWait \/ U2uWoken
             \/ U2uUpdate \/ U2uSignal
Usart     == DmaByte \/ DmaDone

(* The port with its line coding set once. *)
Next == RevThread \/ U2uThread \/ Usart \/ HostPacket
Spec == Init /\ [][Next]_vars

(* The port under a host that changes the line coding. *)
NextCoding == Next \/ SetLineCoding
SpecCoding == Init /\ [][NextCoding]_vars

(* A byte takes the USART a bounded time, in which both threads run until  *)
(* they wait.                                                              *)
Fairness   == WF_vars(RevThread) /\ WF_vars(U2uThread) /\ WF_vars(Usart)
FairSpec   == Spec /\ Fairness

-----------------------------------------------------------------------------
(* Properties                                                              *)

(* The bytes go out as they came in: none twice, none out of order, none   *)
(* overwritten in the ring while the channel reads it (usb_main.c:464-500).*)
SentInOrder == \A i \in 1 .. Len(written) : written[i] = i

(* How many bytes the read index has passed: all that went out, but for    *)
(* the piece the thread has not accounted for.                             *)
InPiece == IF u2uPc \in {"wait", "suspended", "woken", "update"}
             THEN u2uLen - dma.left ELSE 0
Waiting == IF revSem > 0 \/ revPc \notin {"take", "arm", "signal"}
             THEN Len(revBuf) ELSE 0

(* Between the packet in the buffer, the ring and the wire no byte is      *)
(* lost: the wait for space leaves room for the whole packet               *)
(* (usb_main.c:464-469).                                                   *)
NothingDropped ==
  received = Len(written) - InPiece + DataLen(rb) + Waiting

(* "the pointers point either to the normal or to the mirrored buffer"     *)
(* (ringbuffer.h:26): an index never leaves the buffer.                    *)
IndexInBuffer == rb.wi \in Index

(* What is in the ring goes out to the USART. *)
RingDrains == DataLen(rb) > 0 ~> DataLen(rb) = 0

(* "USB to serial data buffer full status synchronization flag"            *)
(* (usb_main.c:54): the wait ends when the ring has room for a packet.     *)
FullWaitEnds ==
  (revPc = "suspended" /\ SpaceLen(rb) >= PacketSize) ~> revPc # "suspended"
=============================================================================

----------------------------- MODULE RingBuffer -----------------------------
(***************************************************************************)
(* One ring buffer under every sequence of calls its owner may make, and a *)
(* DMA channel that stores bytes into its free part.                       *)
(***************************************************************************)
EXTENDS RingOps

CONSTANT Packets   (* the sequences of bytes callers put                   *)

ASSUME PacketsAssumption == Packets \subseteq Seq(Values)

VARIABLES
  rb,      (* the ring buffer object                                       *)
  out,     (* the bytes the last reading call returned                     *)
  call     (* what the last call does to the queue of bytes                *)

ringVars == <<rb, out, call>>

(* rt_ringbuffer_init; the memory is whatever it was *)
RingInit ==
  /\ rb \in [buf : [Index -> Values], ri : {0}, rm : {0}, wi : {0}, wm : {0}]
  /\ out = << >> /\ call = "clear"

(* Another part is looked at.                                              *)
RingQuiet ==
  /\ rb = [buf |-> [i \in Index |-> CHOOSE v \in Values : TRUE],
           ri |-> 0, rm |-> 0, wi |-> 0, wm |-> 0]
  /\ out = << >> /\ call = "clear"

Store(op, rb2) == rb' = rb2 /\ call' = op /\ UNCHANGED out
Read(n, rb2) == rb' = rb2 /\ call' = "take" /\ out' = CopyOut(rb, n)

DoPut == \E d \in Packets : Store("put", Put(rb, d))
DoPutForce == \E d \in Packets : Store("putForce", PutForce(rb, d))
DoPutChar == \E v \in Values : Store("put", PutChar(rb, v))
DoPutCharForce == \E v \in Values : Store("putForce", PutCharForce(rb, v))

DoGet == \E n \in 0 .. Size + 1 : Read(GetLen(rb, n), Get(rb, n))
DoGetChar == Read(GetLen(rb, 1), GetChar(rb))
DoPeek == Read(LinearLen(rb), Peek(rb))

(* rt_get_linear_buffer, the DMA transfer of what it names, and            *)
(* rt_update_read_index with the length transferred                        *)
DoSendLinear == Read(LinearLen(rb), UpdateReadIndex(rb, LinearLen(rb)))

(* the DMA channel stores a byte ahead of write_index ... *)
DoDmaStore ==
  \E k \in Index, v \in Values :
    /\ Distance(rb.wi, k) < SpaceLen(rb)
    /\ rb' = [rb EXCEPT !.buf[k] = v]
    /\ UNCHANGED <<out, call>>

(* ... and rt_update_write_index takes in what it stored *)
DoCommit == \E n \in 0 .. Size : Store("commit", UpdateWriteIndex(rb, n))

DoReset == Store("clear", Reset(rb))

RingNext ==
  \/ DoPut \/ DoPutForce \/ DoPutChar \/ DoPutCharForce
  \/ DoGet \/ DoGetChar \/ DoPeek \/ DoSendLinear
  \/ DoDmaStore \/ DoCommit \/ DoReset

RingSpec == RingInit /\ [][RingNext]_ringVars

-----------------------------------------------------------------------------
(* The indices stay inside the buffer. *)
TypeOK ==
  /\ rb \in Ring /\ out \in Seq(Values)
  /\ call \in {"put", "putForce", "commit", "take", "clear"}

(* "you can see this as if the buffer adds a virtual mirror"               *)
(* (ringbuffer.h:25): the write index is never behind the read index on    *)
(* the same side, nor more than one lap ahead on the other.                *)
MirrorInv == Mirrored(rb)

(* Every call does to the bytes in the ring what it would do to a bounded  *)
(* queue: nothing is lost, repeated or reordered, only what does not fit   *)
(* is dropped, and a read returns the oldest bytes.                        *)
Fifo == INSTANCE BoundedFifo WITH
          Capacity <- Size, queue <- Contents(rb)
FifoSpec == Fifo!Spec
=============================================================================

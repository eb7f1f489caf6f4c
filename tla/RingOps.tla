------------------------------ MODULE RingOps ------------------------------
(***************************************************************************)
(* The mirrored ring buffer of rt-thread/ipc/ringbuffer.c, and the three   *)
(* operations application/usb_main.c adds to it, as operators on a record. *)
(* Two indices run over the buffer; each has a mirror bit that flips when  *)
(* it passes the end, so that equal indices mean empty on the same side of *)
(* the mirror and full on different sides.                                 *)
(***************************************************************************)
EXTENDS Integers, Sequences

CONSTANTS
  Size,     (* buffer_size                                                 *)
  Values    (* the bytes                                                   *)

ASSUME SizeAssumption == Size \in Nat \ {0}

Index == 0 .. Size - 1

Ring == [buf : [Index -> Values], ri : Index, rm : {0, 1},
         wi : Index, wm : {0, 1}]

(* The write index is never behind the read index on the same side of the  *)
(* mirror, nor more than one lap ahead on the other.                       *)
Mirrored(rb) == IF rb.rm = rb.wm THEN rb.ri <= rb.wi ELSE rb.wi <= rb.ri

Smaller(a, b) == IF a < b THEN a ELSE b
Flip(m) == 1 - m

(* rt_ringbuffer_status *)
IsEmpty(rb) == rb.ri = rb.wi /\ rb.rm = rb.wm
IsFull(rb)  == rb.ri = rb.wi /\ rb.rm # rb.wm

DataLen(rb) ==
  CASE IsEmpty(rb)                -> 0
    [] IsFull(rb)                 -> Size
    [] rb.ri < rb.wi              -> rb.wi - rb.ri
    [] OTHER                      -> Size - (rb.ri - rb.wi)

SpaceLen(rb) == Size - DataLen(rb)

(* The position n places after index i, and the distance from i to k, both *)
(* around the end of the buffer.                                           *)
Wrap(i, n)     == IF i + n < Size THEN i + n ELSE i + n - Size
Distance(i, k) == IF k >= i THEN k - i ELSE k - i + Size

(* What the ring holds, oldest byte first. *)
Contents(rb) == [i \in 1 .. DataLen(rb) |-> rb.buf[Wrap(rb.ri, i - 1)]]

(* The one or two rt_memcpy calls that write data[1..n] from write_index. *)
CopyIn(rb, data, n) ==
  [rb EXCEPT !.buf = [k \in Index |->
     IF Distance(rb.wi, k) < n THEN data[Distance(rb.wi, k) + 1] ELSE rb.buf[k]]]

(* The one or two rt_memcpy calls that read n bytes from read_index. *)
CopyOut(rb, n) == [i \in 1 .. n |-> rb.buf[Wrap(rb.ri, i - 1)]]

(* variant: the mirror bit is forgotten when the end is reached exactly *)
MoveWriteOffByOne(rb, n) ==
  IF Size - rb.wi > n
    THEN [rb EXCEPT !.wi = rb.wi + n]
    ELSE [rb EXCEPT !.wi = n - (Size - rb.wi),
                    !.wm = IF n = Size - rb.wi THEN rb.wm ELSE Flip(rb.wm)]

(* Moving an index past the end takes it to the other side of the mirror.  *)
MoveWrite(rb, n) ==
  IF Size - rb.wi > n
    THEN [rb EXCEPT !.wi = rb.wi + n]
    ELSE [rb EXCEPT !.wi = n - (Size - rb.wi), !.wm = Flip(rb.wm)]

MoveRead(rb, n) ==
  IF Size - rb.ri > n
    THEN [rb EXCEPT !.ri = rb.ri + n]
    ELSE [rb EXCEPT !.ri = n - (Size - rb.ri), !.rm = Flip(rb.rm)]

-----------------------------------------------------------------------------
(* rt_ringbuffer_put: what does not fit is dropped. *)
PutLen(rb, data) == Smaller(SpaceLen(rb), Len(data))
Put(rb, data) ==
  MoveWrite(CopyIn(rb, data, PutLen(rb, data)), PutLen(rb, data))

(* rt_ringbuffer_get *)
GetLen(rb, length) == Smaller(DataLen(rb), length)
Get(rb, length) == MoveRead(rb, GetLen(rb, length))

(* rt_ringbuffer_put_force: the newest bytes stay, the oldest go. *)
Newest(data) == IF Len(data) > Size
                  THEN SubSeq(data, Len(data) - Size + 1, Len(data)) ELSE data

(* variant: the read index follows, its mirror bit does not *)
PutForceKeepsMirror(rb, data) ==
  LET d == Newest(data)
      w == MoveWrite(CopyIn(rb, d, Len(d)), Len(d))
  IN IF Len(d) <= SpaceLen(rb) THEN w ELSE [w EXCEPT !.ri = w.wi]

PutForce(rb, data) ==
  LET d == Newest(data)
      w == MoveWrite(CopyIn(rb, d, Len(d)), Len(d))
      wrapped == Size - rb.wi <= Len(d)
  IN IF Len(d) <= SpaceLen(rb) THEN w
     ELSE [w EXCEPT !.ri = w.wi,
                    !.rm = IF wrapped /\ w.wi <= rb.ri THEN Flip(rb.rm) ELSE rb.rm]

(* rt_ringbuffer_peek gives the bytes up to the end of the buffer, and     *)
(* takes them out of the ring.                                             *)
LinearLen(rb) == Smaller(Size - rb.ri, DataLen(rb))
Peek(rb) == MoveRead(rb, LinearLen(rb))

(* rt_ringbuffer_putchar, rt_ringbuffer_putchar_force, rt_ringbuffer_getchar *)
PutChar(rb, ch) ==
  IF SpaceLen(rb) = 0 THEN rb ELSE MoveWrite(CopyIn(rb, <<ch>>, 1), 1)

PutCharForce(rb, ch) ==
  LET w == MoveWrite(CopyIn(rb, <<ch>>, 1), 1)
  IN IF ~IsFull(rb) THEN w
     ELSE [w EXCEPT !.ri = w.wi,
                    !.rm = IF rb.wi = Size - 1 THEN Flip(rb.rm) ELSE rb.rm]

GetChar(rb) == IF DataLen(rb) = 0 THEN rb ELSE MoveRead(rb, 1)

(* rt_ringbuffer_reset leaves the bytes where they are. *)
Reset(rb) == [rb EXCEPT !.ri = 0, !.rm = 0, !.wi = 0, !.wm = 0]

-----------------------------------------------------------------------------
(* application/usb_main.c: data moved by DMA, only the indices change.     *)

(* rt_update_read_index: at most to the end of the buffer. *)
UpdateReadIndex(rb, n) ==
  LET r == Smaller(n, DataLen(rb))
  IN IF Size - rb.ri > r THEN MoveRead(rb, r) ELSE MoveRead(rb, Size - rb.ri)

(* rt_update_write_index: what does not fit is dropped from the count. *)
UpdateWriteIndex(rb, n) == MoveWrite(rb, Smaller(SpaceLen(rb), n))
=============================================================================

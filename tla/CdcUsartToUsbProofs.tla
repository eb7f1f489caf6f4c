------------------------ MODULE CdcUsartToUsbProofs ------------------------
(***************************************************************************)
(* Proofs about CdcUsartToUsb for every size of the ring and of a packet   *)
(* and any number of bytes: the packet buffer has one owner, and until the *)
(* line coding changes no byte is lost and none overtakes another.         *)
(***************************************************************************)
EXTENDS CdcUsartToUsb, RingOpsProofs

-----------------------------------------------------------------------------
(* The packet buffer.  The completion stays undone until the last packet   *)
(* of the transfer is on its way, so the wait for it does not end before.  *)

SendInv ==
  /\ send \in Completion /\ inArmed \in InStates
  /\ u2uPc \in {"look", "take", "get", "length", "copy", "index", "init", "write",
                "wait", "suspended", "woken"}
  /\ BufferExclusive
  /\ inArmed # "idle" \/ u2uPc = "write" => ~send.done
  /\ send.waiter => u2uPc = "suspended"

-----------------------------------------------------------------------------
(* The bytes.  All of this holds until the line coding changes.            *)

(* Where the channel is when CNTR is n; remaining_cnt starts with 0, which *)
(* stands for the same place as Size.                                      *)
Place(n) == IF n = 0 THEN 0 ELSE Size - n

(* The ring as it is once the read index has followed its mirror bit. *)
Settled == IF u2uPc = "index" THEN [rb EXCEPT !.rm = Flip(rb.rm)] ELSE rb

RangesOK ==
  /\ rb \in Ring /\ Valid(Settled)
  /\ count \in 1 .. Size /\ remaining \in 0 .. Size /\ counter \in 0 .. Size
  /\ revPc \in {"take", "count", "compare", "update", "signal"}
  /\ sendBuf \in Seq(Nat) /\ received \in 0 .. MaxBytes /\ delivered \in Seq(Nat)

(* How many bytes were taken from the ring, and how many follow them from  *)
(* the read index to the channel.                                          *)
TakenOut == Len(delivered) + InHand
Ahead    == DataLen(Settled) + Unaccounted

(* They are those that have come and were not taken, one after another,    *)
(* and the channel is less than a lap ahead of either index.               *)
BytesAhead ==
  /\ received = TakenOut + Ahead
  /\ Ahead <= Size /\ Unaccounted < Size
  /\ \A i \in 1 .. Ahead : rb.buf[Wrap(rb.ri, i - 1)] = TakenOut + i

(* remaining_cnt is the write index in the channel's terms, but for the    *)
(* bytes the thread is about to add, and a CNTR it has read lies between   *)
(* the write index and the channel.                                        *)
RevFollows ==
  /\ revPc # "update" => rb.wi = Place(remaining)
  /\ revPc = "update" => /\ recvLen \in 1 .. Unaccounted
                         /\ Wrap(rb.wi, recvLen) = Place(remaining)
  /\ revPc = "compare" => /\ counter \in 1 .. Size
                          /\ Distance(rb.wi, Place(counter)) <= Unaccounted

(* Nobody else takes bytes, so the ring does not get emptier between the   *)
(* status, the length and the copy of rt_ringbuffer_get.                   *)
GetInStep ==
  /\ u2uPc \in {"get", "length", "copy"} => DataLen(rb) > 0
  /\ u2uPc = "length" => /\ status # "empty"
                         /\ status = "full" => DataLen(rb) = Size
  /\ u2uPc = "copy" => getLen \in 1 .. DataLen(rb)
  /\ u2uPc = "index" => /\ Len(sendBuf) \in 1 .. DataLen(Settled)
                        /\ Len(sendBuf) >= Size - rb.ri

(* The packet buffer holds the bytes that follow those the host has.       *)
BufferHolds ==
  u2uPc \in {"index", "init", "write"} \/ inArmed = "data" =>
    \A i \in 1 .. Len(sendBuf) : sendBuf[i] = Len(delivered) + i

HostInOrder == \A i \in 1 .. Len(delivered) : delivered[i] = i

LineInv == /\ RangesOK /\ BytesAhead /\ RevFollows /\ GetInStep
           /\ BufferHolds /\ HostInOrder

SerialInv == SendInv /\ changes \in Nat /\ (changes = 0 => LineInv)

-----------------------------------------------------------------------------
(* The packet buffer has one owner.                                        *)

LEMMA InitSend == Init => SendInv
BY DEF Init, SendInv, BufferExclusive, InStates, Completion, Fresh

LEMMA NextSend == SendInv /\ [Next]_vars => SendInv'
<1> SUFFICES ASSUME SendInv, [Next]_vars PROVE SendInv' OBVIOUS
<1>. USE DEF SendInv, BufferExclusive, InStates, Completion
<1>1. CASE UNCHANGED <<send, inArmed, u2uPc>> BY <1>1
<1>2. CASE U2uLook \/ U2uTake \/ U2uStatus \/ U2uLength \/ U2uCopy \/ U2uIndex
  <2>1. /\ UNCHANGED <<send, inArmed>>
        /\ u2uPc \in {"look", "take", "get", "length", "copy", "index"}
        /\ u2uPc' \in {"look", "take", "get", "length", "copy", "index", "init"}
    BY <1>2 DEF U2uLook, U2uTake, U2uStatus, U2uLength, U2uCopy, U2uIndex
  <2>. QED BY <2>1
<1>3. CASE U2uInit BY <1>3 DEF U2uInit, Fresh
<1>4. CASE U2uWrite BY <1>4 DEF U2uWrite
<1>5. CASE U2uWait BY <1>5 DEF U2uWait, Consume, Suspend
<1>6. CASE U2uWoken BY <1>6 DEF U2uWoken, Consume
<1>7. CASE HostIn
  <2>1. CASE inArmed = "data" /\ Len(sendBuf) = PacketSize BY <1>7, <2>1 DEF HostIn
  <2>2. CASE ~(inArmed = "data" /\ Len(sendBuf) = PacketSize)
    <3>1. ~send.done /\ u2uPc \in {"wait", "suspended"} BY <1>7 DEF HostIn
    <3>2. send' = [done |-> TRUE, waiter |-> FALSE] /\ inArmed' = "idle"
      BY <1>7, <2>2, <3>1 DEF HostIn, Complete
    <3>3. u2uPc' \in {"wait", "suspended", "woken"} BY <1>7, <2>2, <3>1 DEF HostIn
    <3>. QED BY <3>2, <3>3
  <2>. QED BY <2>1, <2>2
<1>8. CASE SetLineCoding BY <1>8 DEF SetLineCoding, Fresh
<1>9. [Next]_vars => \/ UNCHANGED <<send, inArmed, u2uPc>> \/ U2uThread \/ HostIn
                     \/ SetLineCoding
  BY DEF Next, Others, RxByte, RxSilence, Irqs, UsartIrq, DmaRxIrq, RevThread, RevTake,
     RevCount, RevCompare, RevUpdate, RevSignal, vars, u2uVars
<1>. QED BY <1>1, <1>2, <1>3, <1>4, <1>5, <1>6, <1>7, <1>8, <1>9 DEF U2uThread

(* usb_cdc_send_buff is the controller's until the transfer is over, under *)
(* any changes of the line coding (usb_main.c:355-366, 561-566 and 739).   *)
THEOREM BufferIsExclusive == Spec => []BufferExclusive
<1>1. SendInv => BufferExclusive BY DEF SendInv
<1>. QED BY <1>1, InitSend, NextSend, PTL DEF Spec

-----------------------------------------------------------------------------
(* Places and distances.                                                   *)

LEMMA Sizes ==
  /\ Size \in Nat \ {0} /\ PacketSize \in 1 .. Size
  /\ MaxBytes \in Nat /\ IndexSpan \in Nat /\ Size < IndexSpan
BY SizeAssumption, PacketAssumption, BoundAssumption, SpanAssumption

LEMMA DistanceOf ==
  ASSUME NEW a \in Index, NEW k \in Index
  PROVE  Distance(a, k) \in 0 .. Size - 1 /\ Wrap(a, Distance(a, k)) = k
<1>. Size \in Nat \ {0} /\ a \in 0 .. Size - 1 /\ k \in 0 .. Size - 1
  BY Sizes DEF Index
<1>1. CASE k >= a BY <1>1 DEF Distance, Wrap
<1>2. CASE ~(k >= a) BY <1>2 DEF Distance, Wrap
<1>. QED BY <1>1, <1>2

LEMMA DistanceBack ==
  ASSUME NEW a \in Index, NEW n \in 0 .. Size - 1
  PROVE  Distance(a, Wrap(a, n)) = n
BY Sizes DEF Index, Distance, Wrap

(* The channel goes on by one byte. *)
LEMMA DistanceNext ==
  ASSUME NEW a \in Index, NEW k \in Index, Distance(a, k) + 1 < Size
  PROVE  Distance(a, Wrap(k, 1)) = Distance(a, k) + 1
<1>. Size \in Nat \ {0} /\ a \in 0 .. Size - 1 /\ k \in 0 .. Size - 1
  BY Sizes DEF Index
<1>1. CASE k >= a BY <1>1 DEF Distance, Wrap
<1>2. CASE ~(k >= a) BY <1>2 DEF Distance, Wrap
<1>. QED BY <1>1, <1>2

(* The write index follows by n bytes. *)
LEMMA DistanceAfter ==
  ASSUME NEW a \in Index, NEW k \in Index, NEW n \in 0 .. Distance(a, k)
  PROVE  Distance(Wrap(a, n), k) = Distance(a, k) - n
<1>. Size \in Nat \ {0} /\ a \in 0 .. Size - 1 /\ k \in 0 .. Size - 1
  BY Sizes DEF Index
<1>1. CASE k >= a BY <1>1 DEF Distance, Wrap
<1>2. CASE ~(k >= a) BY <1>2 DEF Distance, Wrap
<1>. QED BY <1>1, <1>2

(* What the thread makes of two values of CNTR is how far the channel went *)
(* between them.                                                           *)
LEMMA LapIsDistance ==
  ASSUME NEW last \in 0 .. Size, NEW now \in 1 .. Size
  PROVE  /\ Place(last) \in Index /\ Place(now) \in Index
         /\ LapLen(last, now) = Distance(Place(last), Place(now))
BY Sizes DEF Place, Index, LapLen, Distance

-----------------------------------------------------------------------------
(* What the invariant says of the ring, and of the channel's place.        *)

LEMMA Facts ==
  ASSUME RangesOK, BytesAhead
  PROVE  /\ DataLen(Settled) \in 0 .. Size /\ SpaceLen(Settled) \in 0 .. Size
         /\ DataLen(Settled) + SpaceLen(Settled) = Size
         /\ rb.ri \in Index /\ rb.wi \in Index /\ Size - count \in Index
         /\ Settled.ri = rb.ri /\ Settled.wi = rb.wi /\ Settled.buf = rb.buf
         /\ Unaccounted \in 0 .. Size - 1 /\ Ahead \in 0 .. Size
         /\ Len(delivered) \in Nat /\ InHand \in Nat /\ received \in Nat
         /\ Size \in Nat \ {0}
<1>1. Valid(Settled) /\ count \in 1 .. Size /\ Size \in Nat \ {0} BY Sizes DEF RangesOK
<1>2. /\ DataLen(Settled) \in 0 .. Size /\ SpaceLen(Settled) \in 0 .. Size
      /\ DataLen(Settled) + SpaceLen(Settled) = Size
  BY <1>1, Lengths
<1>3. Settled.ri = rb.ri /\ Settled.wi = rb.wi /\ Settled.buf = rb.buf
  <2>1. CASE u2uPc = "index"
    <3>1. Settled = [rb EXCEPT !.rm = Flip(rb.rm)] BY <2>1 DEF Settled
    <3>2. "ri" # "rm" /\ "wi" # "rm" /\ "buf" # "rm" OBVIOUS
    <3>. QED BY <3>1, <3>2
  <2>2. CASE u2uPc # "index" BY <2>2 DEF Settled
  <2>. QED BY <2>1, <2>2
<1>4. rb.ri \in Index /\ rb.wi \in Index /\ Size - count \in Index
  <2>1. Settled.ri \in Index /\ Settled.wi \in Index BY <1>1 DEF Valid, Ring
  <2>. QED BY <1>1, <1>3, <2>1 DEF Index
<1>5. Unaccounted \in 0 .. Size - 1 BY <1>4, DistanceOf DEF Unaccounted
<1>6. Ahead \in 0 .. Size BY <1>1, <1>2, <1>5 DEF Ahead, BytesAhead
<1>7. Len(delivered) \in Nat /\ InHand \in Nat /\ received \in Nat
  BY Sizes DEF RangesOK, InHand
<1>. QED BY <1>1, <1>2, <1>3, <1>4, <1>5, <1>6, <1>7

LEMMA InitLine == Init => SerialInv
<1> SUFFICES ASSUME Init PROVE SerialInv OBVIOUS
<1>1. /\ Settled = rb /\ rb.ri = 0 /\ rb.rm = 0 /\ rb.wi = 0 /\ rb.wm = 0
      /\ Valid(rb)
  <2>1. 0 \in Values BY Sizes, BytesAssumption
  <2>2. [k \in Index |-> 0] \in [Index -> Values] /\ 0 \in Index
    BY <2>1, Sizes DEF Index
  <2>3. /\ rb.ri = 0 /\ rb.rm = 0 /\ rb.wi = 0 /\ rb.wm = 0 /\ rb \in Ring
    BY <2>2 DEF Init, Ring
  <2>. QED BY <2>3 DEF Init, Settled, Valid, Mirrored
<1>2. DataLen(Settled) = 0 BY <1>1, Lengths
<1>3. Unaccounted = 0 /\ Ahead = 0 /\ TakenOut = 0
  <2>1. Unaccounted = 0 BY <1>1, Sizes DEF Init, Unaccounted, Distance
  <2>. QED BY <1>2, <2>1 DEF Init, Ahead, TakenOut, InHand
<1>4. RangesOK BY <1>1, Sizes DEF Init, RangesOK, Valid
<1>5. BytesAhead BY <1>3, Sizes DEF Init, BytesAhead
<1>6. RevFollows BY <1>1, Sizes DEF Init, RevFollows, Place
<1>7. GetInStep /\ BufferHolds /\ HostInOrder
  BY DEF Init, GetInStep, BufferHolds, HostInOrder
<1>. QED BY <1>4, <1>5, <1>6, <1>7, InitSend DEF Init, SerialInv, LineInv

-----------------------------------------------------------------------------
(* The interrupts, and the steps of usart_cdc_rev_thread.                  *)

(* What the conjuncts about the ring and the sending thread depend on.     *)
LEMMA SenderSame ==
  ASSUME LineInv,
         UNCHANGED <<rb, count, received, u2uPc, status, getLen, sendBuf, inArmed,
                     delivered>>
  PROVE  BytesAhead' /\ GetInStep' /\ BufferHolds' /\ HostInOrder' /\ Valid(Settled)'
<1>1. Settled' = Settled /\ InHand' = InHand /\ Unaccounted' = Unaccounted
  BY DEF Settled, InHand, Unaccounted
<1>2. DataLen(Settled)' = DataLen(Settled) /\ (Valid(Settled)' <=> Valid(Settled))
  BY <1>1
<1>3. BytesAhead'
  BY <1>1, <1>2 DEF LineInv, BytesAhead, TakenOut, Ahead
<1>4. GetInStep'
  <2>1. DataLen(rb)' = DataLen(rb) OBVIOUS
  <2>. QED BY <1>2, <2>1 DEF LineInv, GetInStep
<1>. QED BY <1>2, <1>3, <1>4 DEF LineInv, BufferHolds, HostInOrder, RangesOK

LEMMA RevQuietStep ==
  ASSUME LineInv, RxSilence \/ Irqs \/ RevTake \/ RevCount \/ RevSignal
  PROVE  LineInv'
<1>0. RangesOK /\ BytesAhead /\ RevFollows BY DEF LineInv
<1>1. UNCHANGED <<rb, count, received, u2uPc, status, getLen, sendBuf, inArmed,
                  delivered, remaining, recvLen>>
  BY DEF RxSilence, Irqs, UsartIrq, DmaRxIrq, RevTake, RevCount, RevSignal, revVars,
     u2uVars, getVars, hostVars
<1>2. BytesAhead' /\ GetInStep' /\ BufferHolds' /\ HostInOrder' /\ Valid(Settled)'
  BY <1>1, SenderSame
<1>3. CASE RxSilence \/ Irqs \/ RevTake \/ RevSignal
  <2>1. /\ counter' = counter
        /\ revPc' = revPc \/ (revPc \in {"take", "signal"} /\ revPc' \in {"count", "take"})
    BY <1>3 DEF RxSilence, Irqs, UsartIrq, DmaRxIrq, RevTake, RevSignal, revVars
  <2>2. RangesOK' BY <1>0, <1>1, <1>2, <2>1 DEF RangesOK
  <2>3. RevFollows' BY <1>0, <1>1, <2>1 DEF RevFollows, Unaccounted
  <2>. QED BY <1>2, <2>2, <2>3 DEF LineInv
<1>4. CASE RevCount
  <2>1. counter' = count /\ revPc = "count" /\ revPc' = "compare" BY <1>4 DEF RevCount
  <2>2. count \in 1 .. Size BY <1>0 DEF RangesOK
  <2>3. RangesOK' BY <1>0, <1>1, <1>2, <2>1, <2>2 DEF RangesOK
  <2>4. Place(count) = Size - count BY <2>2, Sizes DEF Place
  <2>5. Unaccounted \in 0 .. Size - 1 BY <1>0, Facts
  <2>6. RevFollows' BY <1>0, <1>1, <2>1, <2>2, <2>4, <2>5 DEF RevFollows, Unaccounted
  <2>. QED BY <1>2, <2>3, <2>6 DEF LineInv
<1>. QED BY <1>3, <1>4

LEMMA RevCompareStep ==
  ASSUME LineInv, RevCompare PROVE LineInv'
<1>0. RangesOK /\ BytesAhead /\ RevFollows BY DEF LineInv
<1>1. /\ UNCHANGED <<rb, count, received, u2uPc, status, getLen, sendBuf, inArmed,
                     delivered, counter>>
      /\ revPc = "compare" /\ recvLen' = LapLen(remaining, counter)
  BY DEF RevCompare, u2uVars, getVars, hostVars
<1>2. BytesAhead' /\ GetInStep' /\ BufferHolds' /\ HostInOrder' /\ Valid(Settled)'
  BY <1>1, SenderSame
<1>3. /\ rb.wi = Place(remaining) /\ counter \in 1 .. Size
      /\ Distance(rb.wi, Place(counter)) <= Unaccounted
      /\ remaining \in 0 .. Size
  BY <1>0, <1>1 DEF RevFollows, RangesOK
<1>4. /\ recvLen' = Distance(rb.wi, Place(counter))
      /\ rb.wi \in Index /\ Place(counter) \in Index
  BY <1>1, <1>3, LapIsDistance
<1>5. recvLen' \in 0 .. Size - 1 /\ Wrap(rb.wi, recvLen') = Place(counter)
  BY <1>4, DistanceOf
<1>6. CASE recvLen' = 0
  <2>1. revPc' = "take" /\ remaining' = remaining BY <1>6 DEF RevCompare
  <2>2. RangesOK' BY <1>0, <1>1, <1>2, <2>1 DEF RangesOK
  <2>3. RevFollows' BY <1>1, <1>3, <2>1 DEF RevFollows
  <2>. QED BY <1>2, <2>2, <2>3 DEF LineInv
<1>7. CASE recvLen' # 0
  <2>1. revPc' = "update" /\ remaining' = counter BY <1>7 DEF RevCompare
  <2>2. RangesOK' BY <1>0, <1>1, <1>2, <2>1 DEF RangesOK
  <2>3. Unaccounted \in 0 .. Size - 1 BY <1>0, Facts
  <2>4. recvLen' \in 1 .. Unaccounted BY <1>3, <1>4, <1>5, <1>7, <2>3, Sizes
  <2>5. RevFollows' BY <1>1, <1>5, <2>1, <2>4 DEF RevFollows, Unaccounted
  <2>. QED BY <1>2, <2>2, <2>5 DEF LineInv
<1>. QED BY <1>6, <1>7

(* The mirror bit decides nothing as long as the indices differ. *)
LEMMA MirrorUnseen ==
  ASSUME NEW r \in Ring, r.ri # r.wi
  PROVE  DataLen([r EXCEPT !.rm = Flip(r.rm)]) = DataLen(r)
<1> DEFINE f == [r EXCEPT !.rm = Flip(r.rm)]
<1>1. f.ri = r.ri /\ f.wi = r.wi BY DEF Ring
<1>. HIDE DEF f
<1>2. /\ ~IsEmpty(r) /\ ~IsFull(r) /\ ~IsEmpty(f) /\ ~IsFull(f)
  BY <1>1 DEF IsEmpty, IsFull
<1>3. DataLen(f) = DataLen(r) BY <1>1, <1>2 DEF DataLen
<1>. QED BY <1>3 DEF f

(* rt_update_write_index takes in bytes the channel has stored, all of     *)
(* them, whether or not the read index is on its way round the end.        *)
LEMMA RevUpdateStep ==
  ASSUME LineInv, RevUpdate PROVE LineInv'
<1>0. RangesOK /\ BytesAhead /\ RevFollows /\ GetInStep BY DEF LineInv
<1>1. /\ UNCHANGED <<count, received, u2uPc, status, getLen, sendBuf, inArmed,
                     delivered, counter, recvLen, remaining>>
      /\ revPc = "update" /\ revPc' = "signal"
      /\ rb' = MoveWrite(rb, Smaller(SpaceLen(rb), recvLen))
  BY DEF RevUpdate, UpdateWriteIndex, u2uVars, getVars, hostVars
<1> DEFINE n == recvLen
<1>2. n \in 1 .. Unaccounted /\ Wrap(rb.wi, n) = Place(remaining)
  BY <1>0, <1>1 DEF RevFollows
<1>f. /\ DataLen(Settled) \in 0 .. Size /\ SpaceLen(Settled) \in 0 .. Size
      /\ DataLen(Settled) + SpaceLen(Settled) = Size
      /\ rb.ri \in Index /\ rb.wi \in Index /\ Size - count \in Index
      /\ Settled.ri = rb.ri /\ Settled.wi = rb.wi /\ Settled.buf = rb.buf
      /\ Unaccounted \in 0 .. Size - 1 /\ Ahead \in 0 .. Size
      /\ Size \in Nat \ {0} /\ rb \in Ring /\ Valid(Settled)
  BY <1>0, Facts DEF RangesOK
<1>3. n \in 0 .. SpaceLen(Settled) BY <1>f, <1>2 DEF Ahead
<1>4. Smaller(SpaceLen(rb), n) = n
  <2>1. DataLen(rb) = DataLen(Settled)
    <3>1. CASE u2uPc # "index" BY <3>1 DEF Settled
    <3>2. CASE u2uPc = "index"
      <4>1. Settled = [rb EXCEPT !.rm = Flip(rb.rm)] BY <3>2 DEF Settled
      <4>2. DataLen(Settled) # 0 BY <1>0, <1>f, <3>2 DEF GetInStep
      <4>3. DataLen(Settled) # Size BY <1>f, <1>2, <1>3
      <4>4. Settled.ri # Settled.wi
        <5>1. /\ Settled.rm = Settled.wm => DataLen(Settled) = Settled.wi - Settled.ri
              /\ Settled.rm # Settled.wm => DataLen(Settled) = Size + Settled.wi - Settled.ri
          BY <1>f, Lengths
        <5>. QED BY <1>f, <4>2, <4>3, <5>1 DEF Index
      <4>. QED BY <1>f, <4>1, <4>4, MirrorUnseen
    <3>. QED BY <3>1, <3>2
  <2>. QED BY <1>f, <1>3, <2>1 DEF SpaceLen, Smaller
<1>5. rb' = MoveWrite(rb, n) BY <1>1, <1>4
<1>6. rb' \in Ring /\ Settled' = MoveWrite(Settled, n)
  <2>1. CASE u2uPc # "index"
    <3>1. Settled = rb /\ Settled' = rb' BY <1>1, <2>1 DEF Settled
    <3>2. Valid(MoveWrite(Settled, n)) BY <1>3, <1>f, MoveWriteValid
    <3>. QED BY <1>5, <3>1, <3>2 DEF Valid
  <2>2. CASE u2uPc = "index"
    <3>1. /\ Settled = [rb EXCEPT !.rm = Flip(rb.rm)]
          /\ Settled' = [rb' EXCEPT !.rm = Flip(rb'.rm)]
      BY <1>1, <2>2 DEF Settled
    <3>2. MoveWrite(Settled, n) \in Ring BY <1>3, <1>f, MoveWriteValid DEF Valid
    <3>3. CASE Size - rb.wi > n
      <4>1. rb' = [rb EXCEPT !.wi = rb.wi + n] BY <1>5, <3>3 DEF MoveWrite
      <4>2. MoveWrite(Settled, n) = [Settled EXCEPT !.wi = rb.wi + n]
        BY <1>f, <3>3 DEF MoveWrite
      <4>. QED BY <1>f, <3>1, <3>2, <4>1, <4>2 DEF Ring
    <3>4. CASE ~(Size - rb.wi > n)
      <4>0. Settled.wm = rb.wm BY <1>f, <3>1 DEF Ring
      <4>1. rb' = [rb EXCEPT !.wi = n - (Size - rb.wi), !.wm = Flip(rb.wm)]
        BY <1>5, <3>4 DEF MoveWrite
      <4>2. MoveWrite(Settled, n)
              = [Settled EXCEPT !.wi = n - (Size - rb.wi), !.wm = Flip(rb.wm)]
        BY <1>f, <3>4, <4>0 DEF MoveWrite
      <4>. QED BY <1>f, <3>1, <3>2, <4>1, <4>2 DEF Ring
    <3>. QED BY <3>3, <3>4
  <2>. QED BY <2>1, <2>2
<1>7. /\ Valid(Settled') /\ Settled'.buf = rb.buf /\ Settled'.ri = rb.ri
      /\ Settled'.wi = Wrap(rb.wi, n) /\ DataLen(Settled') = DataLen(Settled) + n
  BY <1>3, <1>6, <1>f, MoveWriteValid
<1>8. rb'.buf = rb.buf /\ rb'.ri = rb.ri /\ rb'.wi = Wrap(rb.wi, n)
  <2>1. Settled'.buf = rb'.buf /\ Settled'.ri = rb'.ri /\ Settled'.wi = rb'.wi
    BY <1>6 DEF Settled, Ring
  <2>. QED BY <1>7, <2>1
<1>9. Unaccounted' = Unaccounted - n
  <2>1. Distance(Wrap(rb.wi, n), Size - count) = Distance(rb.wi, Size - count) - n
    BY <1>2, <1>f, DistanceAfter DEF Unaccounted
  <2>. QED BY <1>1, <1>8, <2>1 DEF Unaccounted
<1>10. Ahead' = Ahead /\ TakenOut' = TakenOut
  BY <1>1, <1>2, <1>7, <1>9, <1>f DEF Ahead, TakenOut, InHand
<1>11. RangesOK' BY <1>0, <1>1, <1>6, <1>7 DEF RangesOK
<1>12. BytesAhead' BY <1>0, <1>1, <1>2, <1>8, <1>9, <1>10, <1>f DEF BytesAhead
<1>13. RevFollows' BY <1>1, <1>2, <1>8 DEF RevFollows
<1>14. GetInStep'
  <2>1. ASSUME u2uPc # "index" PROVE DataLen(rb') = DataLen(rb) + n /\ DataLen(rb) # Size
    <3>1. Settled = rb /\ Settled' = rb' BY <1>1, <2>1 DEF Settled
    <3>. QED BY <1>2, <1>3, <1>7, <1>f, <3>1
  <2>2. u2uPc # "index" => DataLen(rb) \in Nat BY <1>f DEF Settled
  <2>3. n \in Nat BY <1>f, <1>2
  <2>. QED BY <1>0, <1>1, <1>7, <1>8, <1>f, <2>1, <2>2, <2>3 DEF GetInStep
<1>15. BufferHolds' /\ HostInOrder' BY <1>1 DEF LineInv, BufferHolds, HostInOrder
<1>. QED BY <1>11, <1>12, <1>13, <1>14, <1>15 DEF LineInv

(* A byte goes behind the last one, where no byte is that was not taken.   *)
LEMMA RxByteStep ==
  ASSUME LineInv, NotLapped, KeepsUp, RxByte PROVE LineInv'
<1>0. RangesOK /\ BytesAhead /\ RevFollows /\ GetInStep BY DEF LineInv
<1>1. /\ UNCHANGED <<u2uPc, status, getLen, sendBuf, inArmed, delivered, revPc, counter,
                     recvLen, remaining>>
      /\ received < MaxBytes /\ received' = received + 1
      /\ rb' = [rb EXCEPT !.buf[Size - count] = received + 1]
      /\ count' = IF count = 1 THEN Size ELSE count - 1
  BY DEF RxByte, revVars, u2uVars, getVars, hostVars
<1>f. /\ DataLen(Settled) \in 0 .. Size /\ SpaceLen(Settled) \in 0 .. Size
      /\ DataLen(Settled) + SpaceLen(Settled) = Size
      /\ rb.ri \in Index /\ rb.wi \in Index /\ Size - count \in Index
      /\ Settled.ri = rb.ri /\ Settled.wi = rb.wi /\ Settled.buf = rb.buf
      /\ Unaccounted \in 0 .. Size - 1 /\ Ahead \in 0 .. Size
      /\ Len(delivered) \in Nat /\ InHand \in Nat /\ received \in Nat
      /\ Size \in Nat \ {0} /\ rb \in Ring /\ Valid(Settled) /\ count \in 1 .. Size
  BY <1>0, Facts DEF RangesOK
<1>2. /\ Unaccounted + 1 < Size /\ Ahead < Size
      /\ received = Len(delivered) + InHand + Ahead
  <2>1. received = Len(delivered) + InHand + Ahead BY <1>0 DEF BytesAhead, TakenOut
  <2>2. received - Len(delivered) - InHand < Size BY DEF KeepsUp, Outstanding
  <2>3. Unaccounted + 1 < Size BY DEF NotLapped
  <2>. QED BY <1>f, <2>1, <2>2, <2>3
<1> DEFINE p == Size - count
<1>3. Size - count' = Wrap(p, 1) /\ count' \in 1 .. Size
  <2>1. Size \in Nat \ {0} /\ count \in 1 .. Size BY <1>f
  <2>2. CASE count = 1
    <3>1. count' = Size /\ Wrap(p, 1) = 0 BY <1>1, <2>1, <2>2 DEF Wrap
    <3>. QED BY <2>1, <3>1
  <2>3. CASE count # 1
    <3>1. PICK c \in 2 .. Size : c = count BY <2>1, <2>3
    <3>2. count' = c - 1 BY <1>1, <2>3, <3>1
    <3>3. Wrap(p, 1) = Size - c + 1 BY <2>1, <3>1 DEF Wrap
    <3>. QED BY <2>1, <3>2, <3>3
  <2>. QED BY <2>2, <2>3
<1>4. Unaccounted' = Unaccounted + 1
  <2>1. /\ rb'.wi = rb.wi /\ Distance(rb.wi, p) = Unaccounted
    BY <1>1, <1>f DEF Ring, Unaccounted
  <2>2. Distance(rb.wi, Wrap(p, 1)) = Unaccounted + 1
    BY <1>2, <1>f, <2>1, DistanceNext
  <2>. QED BY <1>3, <2>1, <2>2 DEF Unaccounted
<1>5. received + 1 \in Values
  <2>1. received + 1 \in 0 .. MaxBytes
    <3>1. MaxBytes \in Nat BY Sizes
    <3>2. received \in Nat BY <1>f
    <3>. QED BY <1>1, <3>1, <3>2
  <2>. QED BY <2>1, BytesAssumption
<1>6. /\ rb' \in Ring /\ rb'.ri = rb.ri /\ rb'.wi = rb.wi
      /\ rb'.rm = rb.rm /\ rb'.wm = rb.wm
      /\ \A k \in Index : rb'.buf[k] = IF k = p THEN received + 1 ELSE rb.buf[k]
  BY <1>1, <1>5, <1>f DEF Ring
<1>7. DataLen(rb') = DataLen(rb) BY <1>6 DEF DataLen, IsEmpty, IsFull
<1>8. Valid(Settled') /\ DataLen(Settled') = DataLen(Settled)
  <2>1. /\ Settled' \in Ring /\ Settled'.ri = Settled.ri /\ Settled'.wi = Settled.wi
        /\ Settled'.rm = Settled.rm /\ Settled'.wm = Settled.wm
    <3>1. CASE u2uPc # "index" BY <1>1, <1>6, <3>1 DEF Settled
    <3>2. CASE u2uPc = "index"
      <4>1. /\ Settled = [rb EXCEPT !.rm = Flip(rb.rm)]
            /\ Settled' = [rb' EXCEPT !.rm = Flip(rb'.rm)]
        BY <1>1, <3>2 DEF Settled
      <4>2. Flip(rb.rm) \in {0, 1} BY <1>f DEF Ring, Flip
      <4>. QED BY <1>6, <1>f, <4>1, <4>2 DEF Ring
    <3>. QED BY <3>1, <3>2
  <2>2. Valid(Settled') BY <1>f, <2>1 DEF Valid, Mirrored
  <2>. QED BY <2>1, <2>2 DEF DataLen, IsEmpty, IsFull
<1>9. Ahead' = Ahead + 1 /\ InHand' = InHand /\ TakenOut' = TakenOut
  <2>1. Ahead' = DataLen(Settled) + (Unaccounted + 1) BY <1>4, <1>8 DEF Ahead
  <2>. QED BY <1>1, <1>f, <2>1 DEF Ahead, InHand, TakenOut
<1>10. p = Wrap(rb.ri, Ahead)
  <2>1. Wrap(rb.wi, Unaccounted) = p BY <1>f, DistanceOf DEF Unaccounted
  <2>2. Wrap(Settled.wi, Unaccounted) = Wrap(Settled.ri, DataLen(Settled) + Unaccounted)
    BY <1>2, <1>f, WriteEnd DEF Ahead
  <2>. QED BY <1>f, <2>1, <2>2 DEF Ahead
<1>11. ASSUME NEW i \in 1 .. Ahead + 1
       PROVE  rb'.buf[Wrap(rb.ri, i - 1)] = TakenOut + i
  <2>1. i - 1 \in 0 .. Size - 1 /\ Ahead \in 0 .. Size - 1 BY <1>2, <1>f
  <2>2. Wrap(rb.ri, i - 1) \in Index BY <1>f, <2>1, WrapInIndex
  <2>3. Distance(rb.ri, Wrap(rb.ri, i - 1)) = i - 1 /\ Distance(rb.ri, p) = Ahead
    BY <1>10, <1>f, <2>1, DistanceBack
  <2>4. CASE i = Ahead + 1
    <3>1. i - 1 = Ahead BY <1>f, <2>4
    <3>2. rb'.buf[Wrap(rb.ri, i - 1)] = received + 1 BY <1>6, <1>10, <2>2, <3>1
    <3>. QED BY <1>2, <1>f, <2>4, <3>2 DEF TakenOut
  <2>5. CASE i # Ahead + 1
    <3>1. i \in 1 .. Ahead /\ i - 1 # Ahead BY <1>f, <2>5
    <3>2. Wrap(rb.ri, i - 1) # p BY <2>3, <3>1
    <3>. QED BY <1>0, <1>6, <2>2, <3>1, <3>2 DEF BytesAhead
  <2>. QED BY <2>4, <2>5
<1>12. RangesOK'
  <2>1. received' \in 0 .. MaxBytes
    <3>1. MaxBytes \in Nat BY Sizes
    <3>2. received \in Nat BY <1>f
    <3>. QED BY <1>1, <3>1, <3>2
  <2>. QED BY <1>0, <1>1, <1>3, <1>6, <1>8, <2>1 DEF RangesOK
<1>13. BytesAhead'
  <2>1. received' = TakenOut + (Ahead + 1) /\ Ahead + 1 <= Size
    <3>1. PICK t \in Nat, a \in Nat : t = TakenOut /\ a = Ahead BY <1>f DEF TakenOut
    <3>2. received = t + a /\ a < Size BY <1>2, <3>1 DEF TakenOut
    <3>3. received' = received + 1 BY <1>1
    <3>4. Size \in Nat BY <1>f
    <3>5. received + 1 = t + (a + 1) /\ a + 1 <= Size BY <3>2, <3>4
    <3>. QED BY <3>1, <3>3, <3>5
  <2>. QED BY <1>2, <1>4, <1>6, <1>9, <1>11, <2>1 DEF BytesAhead
<1>14. RevFollows'
  <2>1. revPc = "update" => recvLen \in 1 .. Unaccounted + 1
    BY <1>0, <1>f DEF RevFollows
  <2>2. revPc = "compare" => Distance(rb.wi, Place(counter)) <= Unaccounted + 1
    <3>1. ASSUME revPc = "compare" PROVE Distance(rb.wi, Place(counter)) \in Nat
      <4>1. counter \in 1 .. Size BY <1>0, <3>1 DEF RevFollows
      <4>2. Place(counter) \in Index BY <4>1, Sizes DEF Place, Index
      <4>. QED BY <1>f, <4>2, DistanceOf
    <3>. QED BY <1>0, <1>f, <3>1 DEF RevFollows
  <2>. QED BY <1>0, <1>1, <1>4, <1>6, <2>1, <2>2 DEF RevFollows
<1>15. GetInStep' BY <1>0, <1>1, <1>6, <1>7, <1>8 DEF GetInStep
<1>16. BufferHolds' /\ HostInOrder' BY <1>1 DEF LineInv, BufferHolds, HostInOrder
<1>. QED BY <1>12, <1>13, <1>14, <1>15, <1>16 DEF LineInv

-----------------------------------------------------------------------------
(* usb_cdc_usart2usb_thread and the host.                                  *)

LEMMA U2uQuietStep ==
  ASSUME SendInv, LineInv,
         U2uLook \/ U2uTake \/ U2uStatus \/ U2uLength \/ U2uInit \/ U2uWrite \/ U2uWait
         \/ U2uWoken
  PROVE  LineInv'
<1>. USE DEF revVars, getVars, hostVars
<1>0. RangesOK /\ BytesAhead /\ RevFollows /\ GetInStep /\ BufferHolds BY DEF LineInv
<1>1. UNCHANGED <<rb, count, received, sendBuf, delivered, revPc, counter, recvLen,
                  remaining>>
  BY DEF U2uLook, U2uTake, U2uStatus, U2uLength, U2uInit, U2uWrite, U2uWait, U2uWoken
<1>2. u2uPc # "index" /\ u2uPc' # "index"
  BY DEF U2uLook, U2uTake, U2uStatus, U2uLength, U2uInit, U2uWrite, U2uWait, U2uWoken
<1>3. Settled = rb /\ Settled' = rb BY <1>1, <1>2 DEF Settled
<1>4. Unaccounted' = Unaccounted /\ Ahead' = Ahead BY <1>1, <1>3 DEF Unaccounted, Ahead
<1>5. InHand' = InHand
  BY DEF SendInv, BufferExclusive, InHand, U2uLook, U2uTake, U2uStatus, U2uLength,
     U2uInit, U2uWrite, U2uWait, U2uWoken
<1>6. RangesOK' BY <1>0, <1>1, <1>3 DEF RangesOK
<1>7. BytesAhead' BY <1>0, <1>1, <1>4, <1>5 DEF BytesAhead, TakenOut
<1>8. RevFollows' BY <1>0, <1>1, <1>4 DEF RevFollows
<1>9. BufferHolds' /\ HostInOrder'
  <2>1. HostInOrder' BY <1>1 DEF LineInv, HostInOrder
  <2>2. u2uPc' \in {"init", "write"} \/ inArmed' = "data"
          => u2uPc \in {"init", "write"} \/ inArmed = "data"
    BY DEF U2uLook, U2uTake, U2uStatus, U2uLength, U2uInit, U2uWrite, U2uWait, U2uWoken
  <2>. QED BY <1>0, <1>1, <1>2, <2>1, <2>2 DEF BufferHolds
<1>d. /\ DataLen(rb) \in 0 .. Size /\ Size \in Nat \ {0} /\ PacketSize \in 1 .. Size
      /\ rb.ri \in 0 .. Size - 1 /\ rb.wi \in 0 .. Size - 1
      /\ rb.rm = rb.wm => DataLen(rb) = rb.wi - rb.ri
      /\ rb.rm # rb.wm => DataLen(rb) = Size + rb.wi - rb.ri
  BY <1>0, <1>3, Lengths, Sizes DEF RangesOK, Valid, Ring, Index
<1>10. GetInStep'
  <2>1. CASE U2uLook BY <1>1, <1>d, <2>1 DEF U2uLook, GetInStep
  <2>2. CASE U2uStatus
    <3>1. DataLen(rb) > 0 BY <1>0, <2>2 DEF U2uStatus, GetInStep
    <3>2. ~IsEmpty(rb) /\ (IsFull(rb) => DataLen(rb) = Size)
      BY <1>d, <3>1 DEF IsEmpty, IsFull
    <3>3. status' # "empty" /\ (status' = "full" => DataLen(rb) = Size)
      <4>1. status' = CASE IsEmpty(rb) -> "empty" [] IsFull(rb) -> "full"
                        [] OTHER -> "half"
        BY <2>2 DEF U2uStatus
      <4>2. CASE IsFull(rb) BY <3>2, <4>1, <4>2
      <4>3. CASE ~IsFull(rb) BY <3>2, <4>1, <4>3
      <4>. QED BY <4>2, <4>3
    <3>. QED BY <1>1, <2>2, <3>1, <3>3 DEF U2uStatus, GetInStep
  <2>3. CASE U2uLength
    <3>1. DataLen(rb) > 0 /\ status # "empty" /\ (status = "full" => DataLen(rb) = Size)
      BY <1>0, <2>3 DEF U2uLength, GetInStep
    <3>2. getLen' = Smaller(PacketSize, DataLen(rb))
      <4>1. CASE status = "full"
        <5>1. getLen' = Smaller(PacketSize,
                  CASE status = "empty" -> 0
                    [] status = "full"  -> Size
                    [] rb.wi > rb.ri    -> rb.wi - rb.ri
                    [] OTHER            -> Size - (rb.ri - rb.wi))
          BY <2>3 DEF U2uLength
        <5>2. rb.wi = rb.ri /\ ~(rb.wi > rb.ri) BY <1>d, <3>1, <4>1
        <5>3. getLen' = Smaller(PacketSize, Size)
          <6>1. (CASE status = "empty" -> 0
                    [] status = "full"  -> Size
                    [] rb.wi > rb.ri    -> rb.wi - rb.ri
                    [] OTHER            -> Size - (rb.ri - rb.wi)) = Size
            BY <4>1, <5>2
          <6>. QED BY <5>1, <6>1
        <5>. QED BY <3>1, <4>1, <5>3
      <4>2. CASE status # "full"
        <5>1. getLen' = Smaller(PacketSize, IF rb.wi > rb.ri THEN rb.wi - rb.ri
                                            ELSE Size - (rb.ri - rb.wi))
          BY <2>3, <3>1, <4>2 DEF U2uLength
        <5>2. DataLen(rb) = IF rb.wi > rb.ri THEN rb.wi - rb.ri
                                             ELSE Size - (rb.ri - rb.wi)
          BY <1>d, <3>1
        <5>. QED BY <5>1, <5>2
      <4>. QED BY <4>1, <4>2
    <3>3. getLen' \in 1 .. DataLen(rb) BY <1>d, <3>1, <3>2 DEF Smaller
    <3>. QED BY <1>1, <2>3, <3>1, <3>3 DEF U2uLength, GetInStep
  <2>4. CASE U2uTake \/ U2uInit \/ U2uWrite \/ U2uWait \/ U2uWoken
    BY <2>4 DEF U2uTake, U2uInit, U2uWrite, U2uWait, U2uWoken, GetInStep
  <2>. QED BY <2>1, <2>2, <2>3, <2>4
<1>. QED BY <1>6, <1>7, <1>8, <1>9, <1>10 DEF LineInv

(* The oldest n bytes leave the ring and are in hand. *)
LEMMA TakeAhead ==
  ASSUME RangesOK, BytesAhead, NEW n \in 1 .. DataLen(Settled),
         UNCHANGED <<count, received, delivered>>, u2uPc' # "index",
         rb' = MoveRead(Settled, n), InHand' = InHand + n
  PROVE  /\ rb' \in Ring /\ Valid(Settled') /\ BytesAhead'
         /\ rb'.wi = rb.wi /\ Unaccounted' = Unaccounted
<1>f. /\ DataLen(Settled) \in 0 .. Size /\ rb.ri \in Index /\ rb.wi \in Index
      /\ Settled.ri = rb.ri /\ Settled.wi = rb.wi /\ Settled.buf = rb.buf
      /\ Unaccounted \in 0 .. Size - 1 /\ Ahead \in 0 .. Size
      /\ Len(delivered) \in Nat /\ InHand \in Nat /\ received \in Nat
      /\ Size \in Nat \ {0} /\ Valid(Settled)
  BY Facts DEF RangesOK
<1>1. Settled' = rb' BY DEF Settled
<1>2. /\ Valid(rb') /\ rb'.buf = rb.buf /\ rb'.ri = Wrap(rb.ri, n)
      /\ rb'.wi = rb.wi /\ DataLen(rb') = DataLen(Settled) - n
  <2>1. n \in 0 .. DataLen(Settled) BY <1>f
  <2>. QED BY <1>f, <2>1, MoveReadValid
<1>3. Unaccounted' = Unaccounted BY <1>2 DEF Unaccounted
<1>4. /\ Ahead' = Ahead - n /\ TakenOut' = TakenOut + n /\ n \in 1 .. Ahead
      /\ TakenOut \in Nat
  <2>1. Ahead' = (DataLen(Settled) - n) + Unaccounted BY <1>1, <1>2, <1>3 DEF Ahead
  <2>. QED BY <1>f, <2>1 DEF Ahead, TakenOut
<1>5. ASSUME NEW i \in 1 .. Ahead - n
      PROVE  rb.buf[Wrap(Wrap(rb.ri, n), i - 1)] = (TakenOut + n) + i
  <2>1. n + i \in 1 .. Ahead BY <1>4, <1>f
  <2>2. rb.buf[Wrap(rb.ri, (n + i) - 1)] = TakenOut + (n + i) BY <2>1 DEF BytesAhead
  <2>3. Wrap(Wrap(rb.ri, n), i - 1) = Wrap(rb.ri, (n + i) - 1)
    <3>1. /\ n \in Nat /\ i - 1 \in Nat /\ n + (i - 1) <= Size /\ n < Size
          /\ n + (i - 1) = (n + i) - 1
      BY <1>4, <1>f
    <3>. QED BY <1>f, <3>1, WrapTwice
  <2>. QED BY <1>4, <1>f, <2>2, <2>3
<1>6. BytesAhead'
  <2>1. received = TakenOut + Ahead /\ Unaccounted < Size BY DEF BytesAhead
  <2>2. received' = (TakenOut + n) + (Ahead - n) /\ Ahead - n <= Size
    BY <1>4, <1>f, <2>1
  <2>. QED BY <1>2, <1>3, <1>4, <1>5, <2>1, <2>2 DEF BytesAhead
<1>. QED BY <1>1, <1>2, <1>3, <1>6 DEF Valid

LEMMA U2uCopyStep ==
  ASSUME SendInv, LineInv, U2uCopy PROVE LineInv'
<1>. USE DEF revVars, hostVars
<1> DEFINE n == getLen
<1>0. RangesOK /\ BytesAhead /\ RevFollows /\ GetInStep BY DEF LineInv
<1>1. /\ UNCHANGED <<count, received, delivered, inArmed, revPc, counter, recvLen,
                     remaining>>
      /\ u2uPc = "copy" /\ sendBuf' = CopyOut(rb, n) /\ inArmed = "idle"
  BY DEF U2uCopy, SendInv, BufferExclusive
<1>2. Settled = rb BY <1>1 DEF Settled
<1>f. /\ DataLen(rb) \in 0 .. Size /\ rb.ri \in 0 .. Size - 1 /\ Size \in Nat \ {0}
      /\ Len(delivered) \in Nat /\ Ahead \in 0 .. Size /\ rb \in Ring /\ Valid(rb)
      /\ Unaccounted \in 0 .. Size - 1
  BY <1>0, <1>2, Facts DEF RangesOK, Index
<1>3. n \in 1 .. DataLen(rb) BY <1>0, <1>1 DEF GetInStep
<1>4. InHand = 0 /\ TakenOut = Len(delivered) BY <1>1, <1>f DEF InHand, TakenOut
<1>5. /\ sendBuf' \in Seq(Nat) /\ Len(sendBuf') = n
      /\ \A i \in 1 .. n : sendBuf'[i] = Len(delivered) + i
  <2>1. \A i \in 1 .. n : i \in 1 .. Ahead BY <1>2, <1>3, <1>f DEF Ahead
  <2>2. \A i \in 1 .. n : rb.buf[Wrap(rb.ri, i - 1)] = Len(delivered) + i
    BY <1>0, <1>4, <2>1 DEF BytesAhead
  <2>3. sendBuf' = [i \in 1 .. n |-> Len(delivered) + i] BY <1>1, <2>2 DEF CopyOut
  <2>4. n \in Nat BY <1>3, <1>f
  <2>. QED BY <1>f, <2>3, <2>4
<1>6. BufferHolds' /\ HostInOrder'
  BY <1>1, <1>5 DEF LineInv, BufferHolds, HostInOrder
<1>7. CASE Size - rb.ri > n
  <2>1. rb' = MoveRead(rb, n) /\ u2uPc' = "init" BY <1>7 DEF U2uCopy
  <2>2. InHand' = InHand + n BY <1>3, <1>4, <1>5, <1>f, <2>1 DEF InHand
  <2>3. /\ rb' \in Ring /\ Valid(Settled') /\ BytesAhead'
        /\ rb'.wi = rb.wi /\ Unaccounted' = Unaccounted
    BY <1>0, <1>1, <1>2, <1>3, <2>1, <2>2, TakeAhead
  <2>4. RangesOK' BY <1>0, <1>1, <1>5, <2>3 DEF RangesOK
  <2>5. RevFollows' BY <1>0, <1>1, <2>3 DEF RevFollows
  <2>6. GetInStep' BY <2>1 DEF GetInStep
  <2>. QED BY <1>6, <2>3, <2>4, <2>5, <2>6 DEF LineInv
<1>8. CASE ~(Size - rb.ri > n)
  <2>1. rb' = [rb EXCEPT !.rm = Flip(rb.rm)] /\ u2uPc' = "index" BY <1>8 DEF U2uCopy
  <2>2. rb.rm \in {0, 1} /\ Flip(rb.rm) \in {0, 1} /\ Flip(Flip(rb.rm)) = rb.rm
    BY <1>f DEF Ring, Flip
  <2>3. rb' \in Ring /\ rb'.buf = rb.buf /\ rb'.ri = rb.ri /\ rb'.wi = rb.wi
    BY <1>f, <2>1, <2>2 DEF Ring
  <2>4. Settled' = rb
    <3>1. Settled' = [rb' EXCEPT !.rm = Flip(rb'.rm)] BY <2>1 DEF Settled
    <3>. QED BY <1>f, <2>1, <2>2, <3>1 DEF Ring
  <2>5. InHand' = 0 BY <1>1, <2>1 DEF InHand
  <2>6. Unaccounted' = Unaccounted /\ Ahead' = Ahead /\ TakenOut' = TakenOut
    BY <1>1, <1>2, <1>4, <1>f, <2>3, <2>4, <2>5 DEF Unaccounted, Ahead, TakenOut
  <2>7. RangesOK' BY <1>0, <1>1, <1>5, <1>f, <2>3, <2>4 DEF RangesOK
  <2>8. BytesAhead' BY <1>0, <1>1, <2>3, <2>6 DEF BytesAhead
  <2>9. RevFollows' BY <1>0, <1>1, <2>3, <2>6 DEF RevFollows
  <2>10. GetInStep' BY <1>3, <1>5, <1>8, <1>f, <2>1, <2>3, <2>4 DEF GetInStep
  <2>. QED BY <1>6, <2>7, <2>8, <2>9, <2>10 DEF LineInv
<1>. QED BY <1>7, <1>8

LEMMA U2uIndexStep ==
  ASSUME SendInv, LineInv, U2uIndex PROVE LineInv'
<1>. USE DEF revVars, getVars, hostVars
<1> DEFINE n == Len(sendBuf)
<1>0. RangesOK /\ BytesAhead /\ RevFollows /\ GetInStep /\ BufferHolds BY DEF LineInv
<1>1. /\ UNCHANGED <<count, received, delivered, inArmed, sendBuf, revPc, counter,
                     recvLen, remaining>>
      /\ u2uPc = "index" /\ u2uPc' = "init" /\ inArmed = "idle"
      /\ rb' = [rb EXCEPT !.ri = (n - (Size - rb.ri)) % IndexSpan]
  BY DEF U2uIndex, SendInv, BufferExclusive
<1>f. /\ DataLen(Settled) \in 0 .. Size /\ rb.ri \in 0 .. Size - 1 /\ Size \in Nat \ {0}
      /\ rb \in Ring /\ Settled.ri = rb.ri
  BY <1>0, Facts DEF RangesOK, Index
<1>2. n \in 1 .. DataLen(Settled) /\ n >= Size - rb.ri BY <1>0, <1>1 DEF GetInStep
<1>3. rb' = MoveRead(Settled, n)
  <2>1. n - (Size - rb.ri) \in Nat /\ n - (Size - rb.ri) < IndexSpan
    BY <1>2, <1>f, Sizes
  <2>2. rb' = [rb EXCEPT !.ri = n - (Size - rb.ri)] BY <1>1, <2>1, Sizes, SmallMod
  <2>3. ~(Size - Settled.ri > n) BY <1>2, <1>f
  <2>4. MoveRead(Settled, n)
          = [Settled EXCEPT !.ri = n - (Size - rb.ri), !.rm = Flip(Settled.rm)]
    BY <1>f, <2>3 DEF MoveRead
  <2>5. Settled = [rb EXCEPT !.rm = Flip(rb.rm)] BY <1>1 DEF Settled
  <2>6. rb.rm \in {0, 1} /\ Flip(Flip(rb.rm)) = rb.rm BY <1>f DEF Ring, Flip
  <2>. QED BY <1>f, <2>2, <2>4, <2>5, <2>6 DEF Ring
<1>4. InHand' = InHand + n
  <2>1. InHand = 0 /\ InHand' = n BY <1>1 DEF InHand
  <2>. QED BY <1>2, <1>f, <2>1
<1>5. /\ rb' \in Ring /\ Valid(Settled') /\ BytesAhead'
      /\ rb'.wi = rb.wi /\ Unaccounted' = Unaccounted
  BY <1>0, <1>1, <1>2, <1>3, <1>4, TakeAhead
<1>6. RangesOK' BY <1>0, <1>1, <1>5 DEF RangesOK
<1>7. RevFollows' BY <1>0, <1>1, <1>5 DEF RevFollows
<1>8. GetInStep' BY <1>1 DEF GetInStep
<1>9. BufferHolds' /\ HostInOrder'
  BY <1>0, <1>1 DEF LineInv, BufferHolds, HostInOrder
<1>. QED BY <1>5, <1>6, <1>7, <1>8, <1>9 DEF LineInv

LEMMA HostInStep ==
  ASSUME SendInv, LineInv, HostIn PROVE LineInv'
<1>. USE DEF revVars, getVars
<1>0. RangesOK /\ BytesAhead /\ RevFollows /\ GetInStep /\ BufferHolds /\ HostInOrder
  BY DEF LineInv
<1>1. /\ UNCHANGED <<rb, count, received, sendBuf, status, getLen, revPc, counter,
                     recvLen, remaining>>
      /\ u2uPc \in {"wait", "suspended"} /\ u2uPc' \in {"wait", "suspended", "woken"}
      /\ inArmed' # "data"
      /\ delivered' = IF inArmed = "data" THEN delivered \o sendBuf ELSE delivered
  BY DEF HostIn, SendInv, BufferExclusive
<1>2. Settled = rb /\ Settled' = rb BY <1>1 DEF Settled
<1>3. Unaccounted' = Unaccounted /\ Ahead' = Ahead BY <1>1, <1>2 DEF Unaccounted, Ahead
<1>4. delivered \in Seq(Nat) /\ sendBuf \in Seq(Nat) BY <1>0 DEF RangesOK
<1>5. delivered' \in Seq(Nat) /\ TakenOut' = TakenOut /\ HostInOrder'
  <2>0. InHand' = 0 BY <1>1 DEF InHand
  <2>1. CASE inArmed = "data"
    <3>1. /\ delivered' \in Seq(Nat) /\ Len(delivered') = Len(delivered) + Len(sendBuf)
          /\ \A i \in 1 .. Len(delivered) + Len(sendBuf) :
               delivered'[i] = IF i <= Len(delivered) THEN delivered[i]
                                                     ELSE sendBuf[i - Len(delivered)]
      BY <1>1, <1>4, <2>1, CatMembers
    <3>2. InHand = Len(sendBuf) BY <2>1 DEF InHand
    <3>3. \A i \in 1 .. Len(sendBuf) : sendBuf[i] = Len(delivered) + i
      BY <1>0, <2>1 DEF BufferHolds
    <3>4. ASSUME NEW i \in 1 .. Len(delivered) + Len(sendBuf) PROVE delivered'[i] = i
      <4>1. CASE i <= Len(delivered)
        <5>1. i \in 1 .. Len(delivered) BY <1>4, <4>1
        <5>. QED BY <1>0, <3>1, <4>1, <5>1 DEF HostInOrder
      <4>2. CASE ~(i <= Len(delivered))
        <5>1. i - Len(delivered) \in 1 .. Len(sendBuf) BY <1>4, <4>2
        <5>2. delivered'[i] = sendBuf[i - Len(delivered)] BY <3>1, <4>2
        <5>3. sendBuf[i - Len(delivered)] = Len(delivered) + (i - Len(delivered))
          BY <3>3, <5>1
        <5>4. Len(delivered) + (i - Len(delivered)) = i BY <1>4
        <5>. QED BY <5>2, <5>3, <5>4
      <4>. QED BY <4>1, <4>2
    <3>. QED BY <1>4, <2>0, <3>1, <3>2, <3>4 DEF TakenOut, HostInOrder
  <2>2. CASE inArmed # "data"
    <3>1. delivered' = delivered /\ InHand = 0 BY <1>1, <2>2 DEF InHand
    <3>. QED BY <1>0, <1>4, <2>0, <3>1 DEF TakenOut, HostInOrder
  <2>. QED BY <2>1, <2>2
<1>6. RangesOK' BY <1>0, <1>1, <1>2, <1>5 DEF RangesOK
<1>7. BytesAhead' BY <1>0, <1>1, <1>3, <1>5 DEF BytesAhead
<1>8. RevFollows' BY <1>0, <1>1, <1>3 DEF RevFollows
<1>9. GetInStep' /\ BufferHolds' BY <1>1 DEF GetInStep, BufferHolds
<1>. QED BY <1>5, <1>6, <1>7, <1>8, <1>9 DEF LineInv

-----------------------------------------------------------------------------
(* All steps.                                                              *)

LEMMA NextLine == SerialInv /\ [Next]_vars => SerialInv'
<1> SUFFICES ASSUME SerialInv, [Next]_vars PROVE SerialInv' OBVIOUS
<1>0. SendInv /\ changes \in Nat /\ SendInv' BY NextSend DEF SerialInv
<1>1. CASE SetLineCoding
  <2>1. changes' = changes + 1 BY <1>1 DEF SetLineCoding
  <2>. QED BY <1>0, <2>1 DEF SerialInv
<1>2. CASE ~SetLineCoding
  <2>1. changes' = changes
    BY <1>2 DEF Next, Others, RxByte, RxSilence, Irqs, UsartIrq, DmaRxIrq, RevThread,
       RevTake, RevCount, RevCompare, RevUpdate, RevSignal, U2uThread, U2uLook, U2uTake,
       U2uStatus, U2uLength, U2uCopy, U2uIndex, U2uInit, U2uWrite, U2uWait, U2uWoken,
       HostIn, hostVars, vars
  <2>2. ASSUME changes = 0 PROVE LineInv'
    <3>0. LineInv BY <2>2 DEF SerialInv
    <3>1. CASE NotLapped /\ KeepsUp /\ RxByte BY <3>0, <3>1, RxByteStep
    <3>2. CASE RxSilence \/ Irqs \/ RevTake \/ RevCount \/ RevSignal
      BY <3>0, <3>2, RevQuietStep
    <3>3. CASE RevCompare BY <3>0, <3>3, RevCompareStep
    <3>4. CASE RevUpdate BY <3>0, <3>4, RevUpdateStep
    <3>5. CASE U2uLook \/ U2uTake \/ U2uStatus \/ U2uLength \/ U2uInit \/ U2uWrite
               \/ U2uWait \/ U2uWoken
      BY <1>0, <3>0, <3>5, U2uQuietStep
    <3>6. CASE U2uCopy BY <1>0, <3>0, <3>6, U2uCopyStep
    <3>7. CASE U2uIndex BY <1>0, <3>0, <3>7, U2uIndexStep
    <3>8. CASE HostIn BY <1>0, <3>0, <3>8, HostInStep
    <3>9. CASE UNCHANGED vars
      <4>1. UNCHANGED <<rb, count, received, u2uPc, status, getLen, sendBuf, inArmed,
                        delivered, remaining, revPc, counter, recvLen>>
        BY <3>9 DEF vars, revVars, u2uVars, getVars, hostVars
      <4>2. BytesAhead' /\ GetInStep' /\ BufferHolds' /\ HostInOrder' /\ Valid(Settled)'
        BY <3>0, <4>1, SenderSame
      <4>3. RangesOK' /\ RevFollows'
        BY <3>0, <4>1, <4>2 DEF LineInv, RangesOK, RevFollows, Unaccounted
      <4>. QED BY <4>2, <4>3 DEF LineInv
    <3>. QED BY <1>2, <3>1, <3>2, <3>3, <3>4, <3>5, <3>6, <3>7, <3>8, <3>9
         DEF Next, Others, RevThread, U2uThread
  <2>. QED BY <1>0, <2>1, <2>2 DEF SerialInv
<1>. QED BY <1>1, <1>2

(* Until the line coding changes, the host reads the bytes of the line as  *)
(* they came, although the channel writes the ring behind the threads'     *)
(* back and the threads share its indices without a lock (usb_main.c:      *)
(* 524-535, 561).                                                          *)
THEOREM BytesInOrder == Spec => []DeliveredInOrder
<1>1. SerialInv => DeliveredInOrder
  BY DEF SerialInv, LineInv, HostInOrder, DeliveredInOrder
<1>. QED BY <1>1, InitLine, NextLine, PTL DEF Spec

(* Every byte that came and is not taken is between the indices, or        *)
(* between the write index and the channel: what the thread makes of two   *)
(* values of CNTR is how far the channel went, also around the end and     *)
(* from remaining_cnt's first value (usb_main.c:524-535).                  *)
THEOREM BytesKept == Spec => []NothingLost
<1>1. SerialInv => NothingLost
  <2> SUFFICES ASSUME SerialInv, changes = 0, u2uPc # "index"
               PROVE  Outstanding = DataLen(rb) + Unaccounted
    BY DEF NothingLost
  <2>1. RangesOK /\ BytesAhead BY DEF SerialInv, LineInv
  <2>2. Settled = rb BY DEF Settled
  <2>3. /\ DataLen(rb) \in Nat /\ Unaccounted \in Nat /\ Len(delivered) \in Nat
        /\ InHand \in Nat
    BY <2>1, <2>2, Facts
  <2>4. received = (Len(delivered) + InHand) + (DataLen(rb) + Unaccounted)
    BY <2>1, <2>2 DEF BytesAhead, TakenOut, Ahead
  <2>. QED BY <2>3, <2>4 DEF Outstanding
<1>. QED BY <1>1, InitLine, NextLine, PTL DEF Spec

=============================================================================

------------------------ MODULE CdcUsbToUsartProofs ------------------------
(***************************************************************************)
(* Proofs about CdcUsbToUsart for every size of the ring and of a packet,  *)
(* and any number of packets: no byte is lost between the endpoint and the *)
(* USART, and none overtakes another.                                      *)
(***************************************************************************)
EXTENDS CdcUsbToUsart, RingOpsProofs

-----------------------------------------------------------------------------
(* The inductive invariant.                                                *)

CompletionsOK == full \in Completion /\ tx \in Completion

RangesOK ==
  /\ Valid(rb) /\ Valid(seen)
  /\ revSem \in {0, 1} /\ readySem \in Nat /\ CompletionsOK
  /\ revPc \in {"take", "check", "measure", "init", "wait", "suspended",
                "woken", "put", "copy", "move", "wrap", "arm", "signal"}
  /\ u2uPc \in {"look", "take", "init", "start", "wait", "suspended", "woken",
                "update", "signal"}
  /\ u2uPtr \in Index /\ u2uLen \in 0 .. Size
  /\ outArmed \in BOOLEAN
  /\ dma \in [on : BOOLEAN, ptr : Index, left : 0 .. Size]
  /\ packets \in 0 .. MaxPackets /\ received \in 0 .. packets * PacketSize
  /\ written \in Seq(Nat)

(* The endpoint, the semaphore and the thread share one packet buffer, and *)
(* it holds the bytes received last.                                       *)
PacketHeld ==
  /\ outArmed => revSem = 0 /\ revPc \in {"take", "signal"}
  /\ revSem # 0 => ~outArmed /\ revPc \in {"take", "signal"}
  /\ revBuf \in Seq(Nat) /\ Len(revBuf) <= PacketSize /\ Len(revBuf) <= received
  /\ \A i \in 1 .. Len(revBuf) : revBuf[i] = received - Len(revBuf) + i

(* Only the other thread takes bytes out while this one measures and       *)
(* copies, so room once seen stays.                                        *)
RoomSeen ==
  /\ full.waiter => revPc = "suspended"
  /\ \/ revPc \in {"put", "copy", "move", "wrap", "woken"}
     \/ revPc = "wait" /\ full.done
     => SpaceLen(rb) >= PacketSize
  /\ revPc \in {"measure", "copy"} => SpaceLen(seen) <= SpaceLen(rb)
  /\ revPc = "copy" => SpaceLen(seen) >= PacketSize

(* Between the copy and the index the packet lies behind the write index.  *)
CopyAhead ==
  revPc \in {"move", "wrap"} =>
    /\ (revPc = "move") = (Size - rb.wi > Len(revBuf))
    /\ \A i \in 1 .. Len(revBuf) : rb.buf[Wrap(rb.wi, i - 1)] = revBuf[i]

(* The piece the channel sends stays at the head of the ring until it went *)
(* out.                                                                    *)
PieceHeld ==
  /\ u2uPc \in {"init", "start", "wait", "suspended", "woken", "update"} =>
       /\ u2uPtr = rb.ri /\ u2uLen \in 1 .. DataLen(rb) /\ u2uLen <= Size - rb.ri
  /\ dma.on => /\ u2uPc \in {"wait", "suspended"} /\ ~tx.done
               /\ dma.left <= u2uLen /\ dma.ptr = Wrap(rb.ri, u2uLen - dma.left)
  /\ ~dma.on => dma.left = 0
  /\ tx.waiter => u2uPc = "suspended"
  /\ u2uPc = "wait" /\ ~tx.done => dma.on
  /\ u2uPc = "suspended" => dma.on /\ tx.waiter
  /\ u2uPc = "start" => ~tx.done

(* The bytes in the ring follow those that were taken out of it.           *)
TakenOut == Len(written) - InPiece

RingHolds == \A i \in 1 .. DataLen(rb) : rb.buf[Wrap(rb.ri, i - 1)] = TakenOut + i

SerialInv ==
  /\ RangesOK /\ PacketHeld /\ RoomSeen /\ CopyAhead /\ PieceHeld
  /\ NothingDropped /\ RingHolds /\ SentInOrder

-----------------------------------------------------------------------------
(* Arithmetic.                                                             *)

LEMMA Sizes ==
  /\ Size \in Nat \ {0} /\ PacketSize \in 1 .. Size
  /\ MaxPackets \in Nat /\ IndexSpan \in Nat /\ Size < IndexSpan
BY SizeAssumption, PacketAssumption, BoundAssumption, SpanAssumption

LEMMA ProductMonotone ==
  ASSUME NEW a \in Nat, NEW b \in Nat, NEW c \in Nat, a <= b
  PROVE  a * c \in Nat /\ a * c <= b * c /\ (a + 1) * c = a * c + c
OBVIOUS

(* The number of a byte is one of the bytes. *)
LEMMA BytesAreValues ==
  ASSUME RangesOK PROVE 0 .. received \subseteq Values
<1>1. packets \in Nat /\ packets <= MaxPackets /\ received \in 0 .. packets * PacketSize
  BY BoundAssumption DEF RangesOK
<1>2. packets * PacketSize \in Nat /\ packets * PacketSize <= MaxPackets * PacketSize
  BY <1>1, Sizes, ProductMonotone
<1>3. MaxPackets * PacketSize \in Nat BY Sizes
<1>. QED BY <1>1, <1>2, <1>3, BytesAssumption

(* What the conjuncts of the invariant say of the ring and of the counts. *)
LEMMA Counts ==
  ASSUME RangesOK, PacketHeld, PieceHeld
  PROVE  /\ DataLen(rb) \in 0 .. Size /\ SpaceLen(rb) \in 0 .. Size
         /\ DataLen(rb) + SpaceLen(rb) = Size
         /\ rb.ri \in Index /\ rb.wi \in Index
         /\ InPiece \in 0 .. DataLen(rb) /\ Waiting \in Nat
         /\ Len(written) \in Nat /\ received \in Nat
<1>1. Valid(rb) /\ dma.left \in 0 .. Size BY DEF RangesOK
<1>2. /\ DataLen(rb) \in 0 .. Size /\ SpaceLen(rb) \in 0 .. Size
      /\ DataLen(rb) + SpaceLen(rb) = Size
  BY <1>1, Lengths
<1>3. rb.ri \in Index /\ rb.wi \in Index BY <1>1 DEF Valid, Ring
<1>4. InPiece \in 0 .. DataLen(rb) BY <1>1, <1>2, Sizes DEF InPiece, PieceHeld
<1>5. Len(revBuf) \in Nat /\ Len(written) \in Nat BY DEF PacketHeld, RangesOK
<1>6. received \in Nat BY Sizes DEF RangesOK
<1>. QED BY <1>2, <1>3, <1>4, <1>5, <1>6 DEF Waiting

LEMMA InitSerial == Init => SerialInv
<1> SUFFICES ASSUME Init PROVE SerialInv OBVIOUS
<1>1. 0 \in Values BY Sizes, BytesAssumption
<1>2. Valid(rb) /\ DataLen(rb) = 0
  <2>1. [k \in Index |-> 0] \in [Index -> Values] /\ 0 \in Index
    BY <1>1, Sizes DEF Index
  <2>2. /\ rb.ri = 0 /\ rb.rm = 0 /\ rb.wi = 0 /\ rb.wm = 0
        /\ rb \in Ring
    BY <2>1 DEF Init, Ring
  <2>3. Valid(rb) BY <2>2 DEF Valid, Mirrored
  <2>. QED BY <2>2, <2>3, Lengths
<1>3. RangesOK
  BY <1>2, Sizes DEF Init, RangesOK, CompletionsOK, Completion, Fresh, DmaIdle, Index
<1>4. PacketHeld
  <2>1. revBuf \in Seq(Nat) /\ Len(revBuf) = 0 BY DEF Init
  <2>. QED BY <2>1, Sizes DEF Init, PacketHeld
<1>5. RoomSeen /\ CopyAhead /\ PieceHeld
  BY DEF Init, RoomSeen, CopyAhead, PieceHeld, Fresh, DmaIdle
<1>6. InPiece = 0 /\ Waiting = 0 /\ Len(written) = 0 /\ received = 0
  BY DEF Init, InPiece, Waiting
<1>7. NothingDropped /\ RingHolds /\ SentInOrder
  BY <1>2, <1>6 DEF NothingDropped, RingHolds, SentInOrder
<1>. QED BY <1>3, <1>4, <1>5, <1>7 DEF SerialInv

-----------------------------------------------------------------------------
(* The steps that leave the bytes where they are.                          *)

LEMMA BytesStay ==
  ASSUME SerialInv, UNCHANGED <<rb, received, written>>,
         Waiting' = Waiting, InPiece' = InPiece
  PROVE  NothingDropped' /\ RingHolds' /\ SentInOrder'
BY DEF SerialInv, NothingDropped, RingHolds, SentInOrder, TakenOut

(* What rt_ringbuffer_space_len made of the ring it saw. *)
LEMMA SpaceSeenIs ==
  ASSUME ~Piecemeal, Valid(seen) PROVE SpaceSeen = SpaceLen(seen)
<1>1. /\ seen.wi \in 0 .. Size - 1 /\ seen.ri \in 0 .. Size - 1 /\ Size \in Nat \ {0}
  BY Sizes DEF Valid, Ring, Index
<1>2. CASE IsEmpty(seen)
  <2>1. ~IsFull(seen) BY <1>2 DEF IsEmpty, IsFull
  <2>2. SpaceSeen = Size BY <1>2, <2>1 DEF SpaceSeen
  <2>3. DataLen(seen) = 0 BY <1>1, <1>2, Lengths DEF IsEmpty
  <2>. QED BY <1>1, <2>2, <2>3 DEF SpaceLen
<1>3. CASE IsFull(seen) /\ ~IsEmpty(seen)
  <2>1. SpaceSeen = 0 BY <1>3 DEF SpaceSeen
  <2>2. DataLen(seen) = Size BY <1>1, <1>3, Lengths DEF IsFull
  <2>. QED BY <1>1, <2>1, <2>2 DEF SpaceLen
<1>4. CASE ~IsFull(seen) /\ ~IsEmpty(seen)
  <2>1. seen.ri # seen.wi BY <1>4 DEF IsFull, IsEmpty
  <2>2. SpaceSeen = IF seen.wi > seen.ri THEN Size - (seen.wi - seen.ri)
                                         ELSE seen.ri - seen.wi
    BY <1>4 DEF SpaceSeen
  <2>3. DataLen(seen) = IF seen.ri < seen.wi THEN seen.wi - seen.ri
                                             ELSE Size - (seen.ri - seen.wi)
    BY <1>4 DEF DataLen
  <2>. QED BY <1>1, <2>1, <2>2, <2>3 DEF SpaceLen
<1>. QED BY <1>2, <1>3, <1>4

(* The receiving thread up to its copy, and after its move. *)
RevQuiet == RevTake \/ RevLook \/ RevMeasure \/ RevInit \/ RevWait \/ RevWoken
            \/ RevArm \/ RevSignal

LEMMA RevQuietStep ==
  ASSUME ~Piecemeal, SerialInv, RevQuiet PROVE SerialInv'
<1>. USE DEF hostVars, u2uVars
<1>0. RangesOK /\ PacketHeld /\ RoomSeen /\ CopyAhead /\ PieceHeld BY DEF SerialInv
<1>1. UNCHANGED <<rb, u2uPc, u2uPtr, u2uLen, tx, dma, packets, received, written, revBuf>>
  BY DEF RevQuiet, RevTake, RevLook, RevMeasure, RevInit, RevWait, RevWoken, RevArm,
     RevSignal
<1>2. PieceHeld' BY <1>0, <1>1 DEF PieceHeld
<1>3. InPiece' = InPiece BY <1>1 DEF InPiece
<1>r. SpaceSeen = SpaceLen(seen) BY <1>0, SpaceSeenIs DEF RangesOK
<1>c. /\ DataLen(rb) \in 0 .. Size /\ SpaceLen(rb) \in 0 .. Size
      /\ SpaceLen(seen) \in 0 .. Size /\ Size \in Nat /\ PacketSize \in Nat
  BY <1>0, Lengths, Sizes DEF RangesOK
<1>4. RangesOK'
  <2>1. CASE RevTake BY <1>0, <1>1, <2>1 DEF RangesOK, RevTake, CompletionsOK
  <2>2. CASE RevLook BY <1>0, <1>1, <2>2 DEF RangesOK, RevLook, CompletionsOK
  <2>3. CASE RevMeasure BY <1>0, <1>1, <2>3 DEF RangesOK, RevMeasure, CompletionsOK
  <2>4. CASE RevInit
    BY <1>0, <1>1, <2>4 DEF RangesOK, RevInit, CompletionsOK, Completion, Fresh
  <2>5. CASE RevWait
    BY <1>0, <1>1, <2>5 DEF RangesOK, RevWait, CompletionsOK, Completion, Consume, Suspend
  <2>6. CASE RevWoken
    BY <1>0, <1>1, <2>6 DEF RangesOK, RevWoken, CompletionsOK, Completion, Consume
  <2>7. CASE RevArm BY <1>0, <1>1, <2>7 DEF RangesOK, RevArm, CompletionsOK
  <2>8. CASE RevSignal BY <1>0, <1>1, <2>8 DEF RangesOK, RevSignal, CompletionsOK
  <2>. QED BY <2>1, <2>2, <2>3, <2>4, <2>5, <2>6, <2>7, <2>8 DEF RevQuiet
<1>5. PacketHeld' /\ Waiting' = Waiting
  <2>1. CASE RevTake BY <1>0, <1>1, <2>1 DEF RangesOK, PacketHeld, Waiting, RevTake
  <2>2. CASE RevLook BY <1>0, <1>1, <2>2 DEF PacketHeld, Waiting, RevLook
  <2>3. CASE RevMeasure BY <1>0, <1>1, <2>3 DEF PacketHeld, Waiting, RevMeasure
  <2>4. CASE RevInit BY <1>0, <1>1, <2>4 DEF PacketHeld, Waiting, RevInit
  <2>5. CASE RevWait BY <1>0, <1>1, <2>5 DEF PacketHeld, Waiting, RevWait
  <2>6. CASE RevWoken BY <1>0, <1>1, <2>6 DEF PacketHeld, Waiting, RevWoken
  <2>7. CASE RevArm BY <1>0, <1>1, <2>7 DEF RangesOK, PacketHeld, Waiting, RevArm
  <2>8. CASE RevSignal BY <1>0, <1>1, <2>8 DEF RangesOK, PacketHeld, Waiting, RevSignal
  <2>. QED BY <2>1, <2>2, <2>3, <2>4, <2>5, <2>6, <2>7, <2>8 DEF RevQuiet
<1>6. RoomSeen' /\ CopyAhead'
  <2>0. SpaceLen(rb)' = SpaceLen(rb) BY <1>1
  <2>1. CASE RevTake BY <1>0, <1>1, <2>0, <2>1 DEF RoomSeen, CopyAhead, RevTake
  <2>2. CASE RevLook BY <1>0, <1>1, <1>c, <2>0, <2>2 DEF RoomSeen, CopyAhead, RevLook
  <2>3. CASE RevMeasure
    BY <1>0, <1>1, <1>c, <1>r, <2>0, <2>3 DEF RoomSeen, CopyAhead, RevMeasure
  <2>4. CASE RevInit BY <1>0, <1>1, <2>0, <2>4 DEF RoomSeen, CopyAhead, RevInit, Fresh
  <2>5. CASE RevWait
    BY <1>0, <1>1, <2>0, <2>5
       DEF RangesOK, CompletionsOK, Completion, RoomSeen, CopyAhead, RevWait, Consume,
           Suspend
  <2>6. CASE RevWoken
    BY <1>0, <1>1, <2>0, <2>6
       DEF RangesOK, CompletionsOK, Completion, RoomSeen, CopyAhead, RevWoken, Consume
  <2>7. CASE RevArm BY <1>0, <1>1, <2>0, <2>7 DEF RoomSeen, CopyAhead, RevArm
  <2>8. CASE RevSignal BY <1>0, <1>1, <2>0, <2>8 DEF RoomSeen, CopyAhead, RevSignal
  <2>. QED BY <2>1, <2>2, <2>3, <2>4, <2>5, <2>6, <2>7, <2>8 DEF RevQuiet
<1>7. NothingDropped' /\ RingHolds' /\ SentInOrder' BY <1>1, <1>3, <1>5, BytesStay
<1>. QED BY <1>2, <1>4, <1>5, <1>6, <1>7 DEF SerialInv

-----------------------------------------------------------------------------
(* rt_ringbuffer_put: the packet goes behind the write index, then the     *)
(* index passes it.                                                        *)

LEMMA RevCopyStep ==
  ASSUME ~Piecemeal, SerialInv, RevCopy PROVE SerialInv'
<1>. USE DEF hostVars, u2uVars
<1> DEFINE n == Len(revBuf)
<1>0. RangesOK /\ PacketHeld /\ RoomSeen /\ CopyAhead /\ PieceHeld BY DEF SerialInv
<1>1. /\ UNCHANGED <<revSem, readySem, full, tx, seen, u2uPc, u2uPtr, u2uLen, outArmed,
                     dma, packets, received, changes, written>>
      /\ revPc = "copy" /\ revPc' \in {"move", "wrap"}
  BY DEF RevCopy
<1>c. /\ DataLen(rb) \in 0 .. Size /\ SpaceLen(rb) \in 0 .. Size
      /\ SpaceLen(seen) \in 0 .. Size /\ Size \in Nat /\ PacketSize \in Nat
      /\ n \in Nat /\ n <= PacketSize /\ received \in Nat
      /\ rb.wi \in 0 .. Size - 1
  BY <1>0, Lengths, Sizes, Counts DEF RangesOK, PacketHeld, Index
<1>2. SpaceLen(seen) >= PacketSize /\ SpaceLen(rb) >= PacketSize
  BY <1>0, <1>1 DEF RoomSeen
<1>3. PutCount = n
  <2>1. SpaceSeen = SpaceLen(seen) BY <1>0, SpaceSeenIs DEF RangesOK
  <2>. QED BY <1>c, <1>2, <2>1 DEF PutCount, Smaller
<1>4. revBuf \in Seq(Values)
  <2>1. \A i \in 1 .. n : revBuf[i] \in 0 .. received BY <1>0, <1>c DEF PacketHeld
  <2>2. \A i \in 1 .. n : revBuf[i] \in Values BY <1>0, <2>1, BytesAreValues
  <2>. QED BY <1>0, <2>2 DEF PacketHeld
<1>5. revBuf' = revBuf /\ rb' = CopyIn(rb, revBuf, n)
      /\ (revPc' = "move") = (Size - rb.wi > n)
  <2>1. SubSeq(revBuf, 1, n) = revBuf BY <1>4
  <2>. QED BY <1>3, <1>c, <2>1 DEF RevCopy
<1>6. /\ Valid(rb') /\ DataLen(rb') = DataLen(rb) /\ SpaceLen(rb') = SpaceLen(rb)
      /\ rb'.ri = rb.ri /\ rb'.wi = rb.wi
  BY <1>0, <1>4, <1>5, CopyInValid DEF RangesOK
<1>7. /\ \A i \in 1 .. DataLen(rb) : rb'.buf[Wrap(rb.ri, i - 1)] = rb.buf[Wrap(rb.ri, i - 1)]
      /\ \A i \in 1 .. n : rb'.buf[Wrap(rb.wi, i - 1)] = revBuf[i]
  <2>1. n \in 0 .. n /\ n <= SpaceLen(rb) /\ Valid(rb) BY <1>0, <1>c, <1>2 DEF RangesOK
  <2>. QED BY <1>4, <1>5, <2>1, CopyInBytes
<1>8. RangesOK' BY <1>0, <1>1, <1>6 DEF RangesOK, CompletionsOK
<1>9. PacketHeld' BY <1>0, <1>1, <1>5 DEF PacketHeld
<1>10. RoomSeen' BY <1>0, <1>1, <1>2, <1>6 DEF RoomSeen
<1>11. CopyAhead' BY <1>1, <1>5, <1>6, <1>7 DEF CopyAhead
<1>12. PieceHeld' BY <1>0, <1>1, <1>6 DEF PieceHeld
<1>13. Waiting' = Waiting /\ InPiece' = InPiece BY <1>1, <1>5 DEF Waiting, InPiece
<1>14. NothingDropped' /\ SentInOrder'
  BY <1>1, <1>6, <1>13 DEF SerialInv, NothingDropped, SentInOrder
<1>15. RingHolds'
  BY <1>1, <1>6, <1>7, <1>13 DEF SerialInv, RingHolds, TakenOut
<1>. QED BY <1>8, <1>9, <1>10, <1>11, <1>12, <1>14, <1>15 DEF SerialInv

LEMMA RevIndexStep ==
  ASSUME ~Piecemeal, SerialInv, RevIndex PROVE SerialInv'
<1>. USE DEF hostVars, u2uVars
<1> DEFINE n == Len(revBuf)
<1>0. RangesOK /\ PacketHeld /\ RoomSeen /\ CopyAhead /\ PieceHeld BY DEF SerialInv
<1>1. /\ UNCHANGED <<revSem, readySem, full, tx, seen, u2uPc, u2uPtr, u2uLen, outArmed,
                     dma, packets, received, changes, written, revBuf>>
      /\ revPc \in {"move", "wrap"} /\ revPc' = "arm"
  BY DEF RevIndex
<1>c. /\ DataLen(rb) \in 0 .. Size /\ SpaceLen(rb) \in 0 .. Size
      /\ DataLen(rb) + SpaceLen(rb) = Size
      /\ Size \in Nat \ {0} /\ PacketSize \in Nat
      /\ n \in Nat /\ n <= PacketSize /\ received \in Nat
      /\ rb.wi \in 0 .. Size - 1 /\ rb.ri \in 0 .. Size - 1
      /\ Len(written) \in Nat /\ InPiece \in Nat
  BY <1>0, Lengths, Sizes, Counts DEF RangesOK, PacketHeld, Index
<1>2. SpaceLen(rb) >= PacketSize BY <1>0, <1>1 DEF RoomSeen
<1>3. rb' = MoveWrite(rb, n)
  <2>1. CASE revPc = "move"
    BY <1>0, <1>1, <2>1 DEF RevIndex, MoveWrite, CopyAhead
  <2>2. CASE revPc = "wrap"
    <3>1. ~(Size - rb.wi > n) BY <1>0, <1>1, <2>2 DEF CopyAhead
    <3>2. n - (Size - rb.wi) \in Nat /\ n - (Size - rb.wi) < IndexSpan
      BY <1>c, <1>2, <3>1, Sizes
    <3>3. (n - (Size - rb.wi)) % IndexSpan = n - (Size - rb.wi)
      BY <3>2, Sizes, SmallMod
    <3>. QED BY <2>2, <3>1, <3>3 DEF RevIndex, MoveWrite
  <2>. QED BY <1>1, <2>1, <2>2
<1>4. n \in 0 .. SpaceLen(rb) /\ Valid(rb) BY <1>0, <1>c, <1>2 DEF RangesOK
<1>5. /\ Valid(rb') /\ rb'.buf = rb.buf /\ rb'.ri = rb.ri
      /\ DataLen(rb') = DataLen(rb) + n
  BY <1>3, <1>4, MoveWriteValid
<1>6. Waiting = n /\ Waiting' = 0
  <2>1. revSem = 0 BY <1>0, <1>1 DEF PacketHeld
  <2>. QED BY <1>1, <2>1 DEF Waiting
<1>7. InPiece' = InPiece BY <1>1 DEF InPiece
<1>8. RangesOK' BY <1>0, <1>1, <1>5 DEF RangesOK, CompletionsOK
<1>9. PacketHeld' BY <1>0, <1>1 DEF PacketHeld
<1>10. RoomSeen' /\ CopyAhead' BY <1>0, <1>1 DEF RoomSeen, CopyAhead
<1>11. PieceHeld' BY <1>0, <1>1, <1>c, <1>5 DEF PieceHeld
<1>12. NothingDropped'
  <2>1. received = Len(written) - InPiece + DataLen(rb) + n
    BY <1>6 DEF SerialInv, NothingDropped
  <2>2. received = Len(written) - InPiece + (DataLen(rb) + n) + 0 BY <1>c, <2>1
  <2>. QED BY <1>1, <1>5, <1>6, <1>7, <2>2 DEF NothingDropped
<1>13. RingHolds'
  <2>1. ASSUME NEW i \in 1 .. DataLen(rb) + n
        PROVE  rb.buf[Wrap(rb.ri, i - 1)] = TakenOut + i
    <3>1. CASE i <= DataLen(rb)
      <4>1. i \in 1 .. DataLen(rb) BY <1>c, <3>1
      <4>. QED BY <4>1 DEF SerialInv, RingHolds
    <3>2. CASE ~(i <= DataLen(rb))
      <4>1. i - DataLen(rb) \in 1 .. n BY <1>c, <3>2
      <4>2. rb.buf[Wrap(rb.wi, i - DataLen(rb) - 1)] = revBuf[i - DataLen(rb)]
        BY <1>0, <1>1, <4>1 DEF CopyAhead
      <4>3. revBuf[i - DataLen(rb)] = received - n + (i - DataLen(rb))
        BY <1>0, <4>1 DEF PacketHeld
      <4>4. i - DataLen(rb) - 1 \in Nat /\ DataLen(rb) + (i - DataLen(rb) - 1) < Size
            /\ DataLen(rb) + (i - DataLen(rb) - 1) = i - 1
        BY <1>c, <1>2, <3>2
      <4>5. Wrap(rb.wi, i - DataLen(rb) - 1) = Wrap(rb.ri, i - 1)
        BY <1>4, <4>4, WriteEnd
      <4>6. received = Len(written) - InPiece + DataLen(rb) + n
        BY <1>6 DEF SerialInv, NothingDropped
      <4>7. received - n + (i - DataLen(rb)) = TakenOut + i
        <5>1. PICK a \in Int, b \in Int, c \in Int :
                a = DataLen(rb) /\ b = n /\ c = Len(written) - InPiece
          <6>1. DataLen(rb) \in Int BY <1>c
          <6>2. n \in Int BY <1>0 DEF PacketHeld
          <6>3. Len(written) \in Int /\ InPiece \in Int BY <1>c
          <6>4. Len(written) - InPiece \in Int BY <6>3
          <6>. QED BY <6>1, <6>2, <6>4
        <5>2. received = c + a + b BY <4>6, <5>1
        <5>3. TakenOut = c BY <5>1 DEF TakenOut
        <5>4. PICK j \in Int : j = i BY <1>c
        <5>5. (c + a + b) - b + (j - a) = c + j OBVIOUS
        <5>. QED BY <5>1, <5>2, <5>3, <5>4, <5>5
      <4>. QED BY <4>2, <4>3, <4>5, <4>7
    <3>. QED BY <3>1, <3>2
  <2>2. TakenOut' = TakenOut BY <1>1, <1>7 DEF TakenOut
  <2>. QED BY <1>5, <2>1, <2>2 DEF RingHolds
<1>14. SentInOrder' BY <1>1 DEF SerialInv, SentInOrder
<1>. QED BY <1>8, <1>9, <1>10, <1>11, <1>12, <1>13, <1>14 DEF SerialInv

-----------------------------------------------------------------------------
(* usb_cdc_usb2usart_thread.                                               *)

(* The steps of it that leave the ring as it is. *)
U2uQuiet == U2uLook \/ U2uTake \/ U2uInit \/ U2uStart \/ U2uWait \/ U2uWoken
            \/ U2uSignal

LEMMA U2uQuietStep ==
  ASSUME SerialInv, U2uQuiet PROVE SerialInv'
<1>. USE DEF hostVars
<1>0. RangesOK /\ PacketHeld /\ RoomSeen /\ CopyAhead /\ PieceHeld BY DEF SerialInv
<1>1. UNCHANGED <<rb, revSem, revBuf, seen, outArmed, packets, received, written>>
  BY DEF U2uQuiet, U2uLook, U2uTake, U2uInit, U2uStart, U2uWait, U2uWoken, U2uSignal,
     revVars
<1>c. /\ DataLen(rb) \in 0 .. Size /\ SpaceLen(rb) \in 0 .. Size
      /\ rb.ri \in 0 .. Size - 1
      /\ SpaceLen(seen) \in 0 .. Size /\ Size \in Nat \ {0} /\ PacketSize \in Nat
      /\ dma \in [on : BOOLEAN, ptr : Index, left : 0 .. Size]
      /\ full \in Completion /\ tx \in Completion
  BY <1>0, Lengths, Sizes, Counts DEF RangesOK, CompletionsOK, Index
<1>2. CASE U2uSignal
  <2>1. UNCHANGED <<readySem, tx, u2uPtr, u2uLen, dma>> /\ u2uPc = "signal" /\ u2uPc' = "look"
    BY <1>2 DEF U2uSignal
  <2>2. /\ full' \in Completion
        /\ revPc' = revPc \/ (revPc = "suspended" /\ revPc' = "woken")
        /\ full'.waiter => revPc' = "suspended"
        /\ revPc' = "woken" \/ (revPc' = "wait" /\ full'.done)
             => SpaceLen(rb) >= PacketSize
    <3>1. CASE SpaceLen(rb) >= PacketSize
      <4>1. full' = Complete(full) /\ revPc' = IF Resumes(full) THEN "woken" ELSE revPc
        BY <1>2, <3>1 DEF U2uSignal
      <4>. QED BY <1>0, <1>c, <3>1, <4>1 DEF Completion, Complete, Resumes, RoomSeen
    <3>2. CASE ~(SpaceLen(rb) >= PacketSize)
      BY <1>0, <1>2, <1>c, <3>2 DEF U2uSignal, RoomSeen
    <3>. QED BY <3>1, <3>2
  <2>3. RangesOK' BY <1>0, <1>1, <1>c, <2>1, <2>2 DEF RangesOK, CompletionsOK
  <2>4. PacketHeld' /\ Waiting' = Waiting
    BY <1>0, <1>1, <2>1, <2>2 DEF PacketHeld, Waiting
  <2>5. RoomSeen' /\ CopyAhead' BY <1>0, <1>1, <2>1, <2>2 DEF RoomSeen, CopyAhead
  <2>6. PieceHeld' /\ InPiece' = InPiece
    BY <1>0, <1>1, <2>1 DEF PieceHeld, InPiece
  <2>. QED BY <1>1, <2>3, <2>4, <2>5, <2>6, BytesStay DEF SerialInv
<1>3. CASE ~U2uSignal
  <2>1. UNCHANGED <<revPc, full>>
    BY <1>3 DEF U2uQuiet, U2uLook, U2uTake, U2uInit, U2uStart, U2uWait, U2uWoken, revVars
  <2>2. PacketHeld' /\ Waiting' = Waiting /\ RoomSeen' /\ CopyAhead'
    BY <1>0, <1>1, <2>1 DEF PacketHeld, Waiting, RoomSeen, CopyAhead
  <2>3. RangesOK' /\ PieceHeld' /\ InPiece' = InPiece
    <3>1. CASE U2uLook
      <4>1. CASE DataLen(rb) = 0
        BY <1>0, <1>1, <1>c, <2>1, <3>1, <4>1
           DEF U2uLook, RangesOK, CompletionsOK, PieceHeld, InPiece
      <4>2. CASE DataLen(rb) # 0
        <5>1. /\ u2uPc = "look" /\ u2uPc' = "init" /\ u2uPtr' = rb.ri
              /\ u2uLen' = LinearLen(rb) /\ UNCHANGED <<readySem, tx, dma>>
          BY <3>1, <4>2 DEF U2uLook
        <5>2. LinearLen(rb) \in 1 .. DataLen(rb) /\ LinearLen(rb) <= Size - rb.ri
          BY <1>c, <4>2 DEF LinearLen, Smaller
        <5>. QED BY <1>0, <1>1, <1>c, <2>1, <5>1, <5>2
             DEF RangesOK, CompletionsOK, PieceHeld, InPiece, Index
      <4>. QED BY <4>1, <4>2
    <3>2. CASE U2uTake
      BY <1>0, <1>1, <1>c, <2>1, <3>2
         DEF U2uTake, RangesOK, CompletionsOK, PieceHeld, InPiece
    <3>3. CASE U2uInit
      BY <1>0, <1>1, <1>c, <2>1, <3>3
         DEF U2uInit, RangesOK, CompletionsOK, PieceHeld, InPiece, Completion, Fresh
    <3>4. CASE U2uStart
      <4>1. /\ u2uPc = "start" /\ u2uPc' = "wait" /\ UNCHANGED <<readySem, tx, u2uPtr, u2uLen>>
            /\ dma' = [on |-> TRUE, ptr |-> u2uPtr, left |-> u2uLen]
        BY <3>4 DEF U2uStart
      <4>2. /\ u2uPtr = rb.ri /\ u2uLen \in 1 .. DataLen(rb) /\ u2uLen <= Size - rb.ri
            /\ ~tx.done /\ ~tx.waiter
        BY <1>0, <4>1 DEF PieceHeld
      <4>3. rb.ri = Wrap(rb.ri, u2uLen - u2uLen) BY <1>c, <4>2 DEF Wrap
      <4>4. RangesOK' BY <1>0, <1>1, <1>c, <2>1, <4>1, <4>2 DEF RangesOK, CompletionsOK
      <4>5. PieceHeld' BY <1>1, <1>c, <4>1, <4>2, <4>3 DEF PieceHeld
      <4>6. InPiece' = InPiece BY <1>c, <4>1, <4>2 DEF InPiece
      <4>. QED BY <4>4, <4>5, <4>6
    <3>5. CASE U2uWait
      BY <1>0, <1>1, <1>c, <2>1, <3>5
         DEF U2uWait, RangesOK, CompletionsOK, PieceHeld, InPiece, Completion, Consume,
             Suspend
    <3>6. CASE U2uWoken
      BY <1>0, <1>1, <1>c, <2>1, <3>6
         DEF U2uWoken, RangesOK, CompletionsOK, PieceHeld, InPiece, Completion, Consume
    <3>. QED BY <1>3, <3>1, <3>2, <3>3, <3>4, <3>5, <3>6 DEF U2uQuiet
  <2>. QED BY <1>1, <2>2, <2>3, BytesStay DEF SerialInv
<1>. QED BY <1>2, <1>3

(* rt_update_read_index takes the piece that went out off the head of the  *)
(* ring.                                                                   *)
LEMMA U2uUpdateStep ==
  ASSUME SerialInv, U2uUpdate PROVE SerialInv'
<1>. USE DEF hostVars, revVars
<1>0. RangesOK /\ PacketHeld /\ RoomSeen /\ CopyAhead /\ PieceHeld BY DEF SerialInv
<1>1. /\ UNCHANGED <<revSem, readySem, full, tx, revPc, revBuf, seen, u2uPtr, u2uLen,
                     outArmed, dma, packets, received, written>>
      /\ u2uPc = "update" /\ u2uPc' = "signal" /\ rb' = UpdateReadIndex(rb, u2uLen)
  BY DEF U2uUpdate
<1>c. /\ DataLen(rb) \in 0 .. Size /\ SpaceLen(rb) \in 0 .. Size
      /\ DataLen(rb) + SpaceLen(rb) = Size
      /\ rb.ri \in 0 .. Size - 1 /\ Size \in Nat \ {0} /\ PacketSize \in Nat
      /\ SpaceLen(seen) \in 0 .. Size /\ Len(written) \in Nat
      /\ Valid(rb)
  BY <1>0, Lengths, Sizes, Counts DEF RangesOK, Index
<1>2. /\ u2uLen \in 1 .. DataLen(rb) /\ u2uLen <= Size - rb.ri
      /\ ~dma.on /\ dma.left = 0 /\ ~tx.waiter
  BY <1>0, <1>1 DEF PieceHeld
<1>3. rb' = MoveRead(rb, u2uLen)
  <2>1. Smaller(u2uLen, DataLen(rb)) = u2uLen BY <1>c, <1>2 DEF Smaller
  <2>2. ~(Size - rb.ri > u2uLen) => u2uLen = Size - rb.ri BY <1>c, <1>2
  <2>. QED BY <1>1, <2>1, <2>2 DEF UpdateReadIndex
<1>4. /\ Valid(rb') /\ rb'.buf = rb.buf /\ rb'.ri = Wrap(rb.ri, u2uLen)
      /\ rb'.wi = rb.wi /\ DataLen(rb') = DataLen(rb) - u2uLen
  BY <1>c, <1>2, <1>3, MoveReadValid
<1>5. SpaceLen(rb') = SpaceLen(rb) + u2uLen BY <1>c, <1>2, <1>4 DEF SpaceLen
<1>6. InPiece = u2uLen /\ InPiece' = 0 /\ Waiting' = Waiting
  BY <1>1, <1>2, <1>c DEF InPiece, Waiting
<1>7. RangesOK' BY <1>0, <1>1, <1>4 DEF RangesOK, CompletionsOK
<1>8. PacketHeld' /\ CopyAhead' BY <1>0, <1>1, <1>4 DEF PacketHeld, CopyAhead
<1>9. RoomSeen'
  <2>1. SpaceLen(rb') >= SpaceLen(rb) /\ SpaceLen(rb') \in Int BY <1>c, <1>2, <1>5
  <2>. QED BY <1>0, <1>1, <1>c, <2>1 DEF RoomSeen
<1>10. PieceHeld' BY <1>0, <1>1, <1>2 DEF PieceHeld
<1>11. NothingDropped'
  <2>1. received = Len(written) - u2uLen + DataLen(rb) + Waiting
    BY <1>6 DEF SerialInv, NothingDropped
  <2>2. Waiting \in Nat BY <1>0, Counts
  <2>3. received = Len(written) - 0 + (DataLen(rb) - u2uLen) + Waiting
    BY <1>c, <1>2, <2>1, <2>2
  <2>. QED BY <1>1, <1>4, <1>6, <2>3 DEF NothingDropped
<1>12. RingHolds'
  <2>1. ASSUME NEW i \in 1 .. DataLen(rb) - u2uLen
        PROVE  rb.buf[Wrap(Wrap(rb.ri, u2uLen), i - 1)] = Len(written) + i
    <3>1. u2uLen + i \in 1 .. DataLen(rb) BY <1>c, <1>2
    <3>2. rb.buf[Wrap(rb.ri, (u2uLen + i) - 1)] = TakenOut + (u2uLen + i)
      BY <3>1 DEF SerialInv, RingHolds
    <3>3. Wrap(Wrap(rb.ri, u2uLen), i - 1) = Wrap(rb.ri, (u2uLen + i) - 1)
      <4>1. /\ u2uLen \in Nat /\ i - 1 \in Nat /\ u2uLen + (i - 1) <= Size
            /\ u2uLen < Size /\ u2uLen + (i - 1) = (u2uLen + i) - 1 /\ rb.ri \in Index
        BY <1>c, <1>2 DEF Index
      <4>. QED BY <4>1, WrapTwice
    <3>4. TakenOut + (u2uLen + i) = Len(written) + i BY <1>c, <1>2, <1>6 DEF TakenOut
    <3>. QED BY <3>2, <3>3, <3>4
  <2>2. TakenOut' = Len(written) BY <1>1, <1>6, <1>c DEF TakenOut
  <2>. QED BY <1>4, <2>1, <2>2 DEF RingHolds
<1>13. SentInOrder' BY <1>1 DEF SerialInv, SentInOrder
<1>. QED BY <1>7, <1>8, <1>9, <1>10, <1>11, <1>12, <1>13 DEF SerialInv

-----------------------------------------------------------------------------
(* The channel and the host.                                               *)

LEMMA UsartStep ==
  ASSUME SerialInv, Usart PROVE SerialInv'
<1>. USE DEF hostVars, revVars, u2uVars
<1>0. RangesOK /\ PacketHeld /\ RoomSeen /\ CopyAhead /\ PieceHeld BY DEF SerialInv
<1>1. UNCHANGED <<rb, revSem, readySem, full, revPc, revBuf, seen, u2uPtr, u2uLen,
                  outArmed, packets, received>>
  BY DEF Usart, DmaByte, DmaDone
<1>c. /\ DataLen(rb) \in 0 .. Size /\ rb.ri \in 0 .. Size - 1 /\ Size \in Nat \ {0}
      /\ dma \in [on : BOOLEAN, ptr : Index, left : 0 .. Size]
      /\ tx \in Completion /\ Len(written) \in Nat /\ Valid(rb)
      /\ written \in Seq(Nat)
  BY <1>0, Lengths, Sizes, Counts DEF RangesOK, CompletionsOK, Index
<1>2. PacketHeld' /\ RoomSeen' /\ CopyAhead' /\ Waiting' = Waiting
  BY <1>0, <1>1 DEF PacketHeld, RoomSeen, CopyAhead, Waiting
<1>3. CASE DmaByte
  <2>1. /\ dma.on /\ dma.left > 0 /\ UNCHANGED <<tx, u2uPc>>
        /\ written' = Append(written, rb.buf[dma.ptr])
        /\ dma' = [dma EXCEPT !.ptr = Wrap(dma.ptr, 1), !.left = dma.left - 1]
    BY <1>3 DEF DmaByte
  <2>2. /\ u2uPc \in {"wait", "suspended"} /\ ~tx.done /\ u2uPtr = rb.ri
        /\ u2uLen \in 1 .. DataLen(rb) /\ u2uLen <= Size - rb.ri
        /\ dma.left <= u2uLen /\ dma.ptr = Wrap(rb.ri, u2uLen - dma.left)
    BY <1>0, <2>1 DEF PieceHeld
  <2> DEFINE m == u2uLen - dma.left
  <2>3. m \in Nat /\ m + 1 <= u2uLen /\ m < Size /\ rb.ri \in Index
    BY <1>c, <2>1, <2>2 DEF Index
  <2>4. Wrap(dma.ptr, 1) = Wrap(rb.ri, m + 1) /\ Wrap(rb.ri, m + 1) \in Index
    <3>1. m + 1 \in 0 .. Size BY <1>c, <2>2, <2>3
    <3>. QED BY <2>2, <2>3, <3>1, WrapTwice, WrapInIndex
  <2>5. /\ dma'.on = dma.on /\ dma'.ptr = Wrap(rb.ri, m + 1)
        /\ dma'.left = dma.left - 1 /\ u2uLen - dma'.left = m + 1
        /\ dma' \in [on : BOOLEAN, ptr : Index, left : 0 .. Size]
    <3>1. /\ dma'.on = dma.on /\ dma'.ptr = Wrap(dma.ptr, 1) /\ dma'.left = dma.left - 1
          /\ dma' \in [on : BOOLEAN, ptr : {Wrap(dma.ptr, 1)}, left : {dma.left - 1}]
      BY <1>c, <2>1
    <3>2. dma.left - 1 \in 0 .. Size /\ u2uLen - (dma.left - 1) = m + 1
      BY <1>c, <2>1, <2>2
    <3>. HIDE DEF m
    <3>. QED BY <2>4, <3>1, <3>2
  <2>6. rb.buf[dma.ptr] = Len(written) + 1
    <3>1. m + 1 \in 1 .. DataLen(rb) BY <1>c, <2>2, <2>3
    <3>2. rb.buf[Wrap(rb.ri, (m + 1) - 1)] = TakenOut + (m + 1)
      BY <3>1 DEF SerialInv, RingHolds
    <3>3. InPiece = m BY <2>2 DEF InPiece
    <3>4. (m + 1) - 1 = m /\ TakenOut + (m + 1) = Len(written) + 1
      BY <1>c, <2>3, <3>3 DEF TakenOut
    <3>. QED BY <2>2, <3>2, <3>4
  <2>7. /\ written' \in Seq(Nat) /\ Len(written') = Len(written) + 1
        /\ \A i \in 1 .. Len(written) + 1 :
             written'[i] = IF i <= Len(written) THEN written[i] ELSE Len(written) + 1
    BY <1>c, <2>1, <2>6
  <2>8. RangesOK' BY <1>0, <1>1, <2>1, <2>5, <2>7 DEF RangesOK, CompletionsOK
  <2>9. PieceHeld'
    <3>1. dma'.left <= u2uLen BY <1>c, <2>2, <2>5
    <3>. QED BY <1>0, <1>1, <2>1, <2>2, <2>5, <3>1 DEF PieceHeld
  <2>10. InPiece = m /\ InPiece' = m + 1 /\ TakenOut' = TakenOut
    <3>1. InPiece = m /\ InPiece' = m + 1 BY <1>1, <2>1, <2>2, <2>5 DEF InPiece
    <3>. QED BY <1>c, <2>3, <2>7, <3>1 DEF TakenOut
  <2>11. NothingDropped' /\ RingHolds'
    <3>1. Len(written') - InPiece' = Len(written) - InPiece BY <2>10 DEF TakenOut
    <3>. QED BY <1>1, <1>2, <2>10, <3>1 DEF SerialInv, NothingDropped, RingHolds
  <2>12. SentInOrder'
    <3>1. \A i \in 1 .. Len(written) : written[i] = i BY DEF SerialInv, SentInOrder
    <3>2. ASSUME NEW i \in 1 .. Len(written) + 1 PROVE written'[i] = i
      <4>1. CASE i <= Len(written) BY <1>c, <2>7, <3>1, <4>1
      <4>2. CASE ~(i <= Len(written)) BY <1>c, <2>7, <4>2
      <4>. QED BY <4>1, <4>2
    <3>. QED BY <2>7, <3>2 DEF SentInOrder
  <2>. QED BY <1>2, <2>8, <2>9, <2>11, <2>12 DEF SerialInv
<1>4. CASE DmaDone
  <2>1. /\ dma.on /\ dma.left = 0 /\ dma' = DmaIdle /\ tx' = Complete(tx)
        /\ u2uPc' = (IF Resumes(tx) THEN "woken" ELSE u2uPc) /\ UNCHANGED written
    BY <1>4 DEF DmaDone
  <2>2. /\ u2uPc \in {"wait", "suspended"} /\ ~tx.done /\ u2uPtr = rb.ri
        /\ u2uLen \in 1 .. DataLen(rb) /\ u2uLen <= Size - rb.ri
    BY <1>0, <2>1 DEF PieceHeld
  <2>3. tx' = [done |-> TRUE, waiter |-> FALSE] BY <2>1, <2>2 DEF Complete
  <2>4. u2uPc' \in {"wait", "woken", "suspended"} /\ (u2uPc' # "woken" => ~tx.waiter)
    BY <2>1, <2>2, <1>c DEF Resumes
  <2>5. RangesOK'
    BY <1>0, <1>1, <2>1, <2>3, <2>4, Sizes
       DEF RangesOK, CompletionsOK, Completion, DmaIdle, Index
  <2>6. PieceHeld' BY <1>0, <1>1, <2>1, <2>2, <2>3, <2>4 DEF PieceHeld, DmaIdle
  <2>7. InPiece' = InPiece BY <1>1, <2>1, <2>2, <2>4 DEF InPiece, DmaIdle
  <2>. QED BY <1>1, <1>2, <2>1, <2>5, <2>6, <2>7, BytesStay DEF SerialInv
<1>. QED BY <1>3, <1>4 DEF Usart

LEMMA HostPacketStep ==
  ASSUME SerialInv, HostPacket PROVE SerialInv'
<1>. USE DEF u2uVars
<1>0. RangesOK /\ PacketHeld /\ RoomSeen /\ CopyAhead /\ PieceHeld BY DEF SerialInv
<1>1. /\ UNCHANGED <<rb, readySem, full, tx, revPc, seen, u2uPc, u2uPtr, u2uLen, dma,
                     written>>
      /\ outArmed /\ packets < MaxPackets /\ packets' = packets + 1
      /\ outArmed' = FALSE /\ revSem' = revSem + 1
  BY DEF HostPacket
<1>2. PICK n \in 1 .. PacketSize : /\ revBuf' = [i \in 1 .. n |-> received + i]
                                  /\ received' = received + n
  BY DEF HostPacket
<1>c. /\ received \in Nat /\ PacketSize \in Nat /\ MaxPackets \in Nat /\ packets \in Nat
      /\ received <= packets * PacketSize /\ n \in Nat
  BY <1>0, Sizes DEF RangesOK
<1>3. revSem = 0 /\ revPc \in {"take", "signal"} BY <1>0, <1>1 DEF PacketHeld
<1>4. /\ revBuf' \in Seq(Nat) /\ Len(revBuf') = n
      /\ \A i \in 1 .. n : revBuf'[i] = received + i
  BY <1>2, <1>c
<1>5. received' \in 0 .. packets' * PacketSize /\ packets' \in 0 .. MaxPackets
  <2>1. packets * PacketSize \in Nat /\ packets' * PacketSize = packets * PacketSize + PacketSize
    BY <1>1, <1>c, ProductMonotone
  <2>. QED BY <1>1, <1>2, <1>c, <2>1
<1>6. RangesOK'
  <2>1. revSem' = 1 BY <1>1, <1>3
  <2>. QED BY <1>0, <1>1, <1>5, <2>1 DEF RangesOK, CompletionsOK
<1>7. PacketHeld'
  <2>1. n <= PacketSize /\ n <= received' /\ received' - n = received
    BY <1>2, <1>c
  <2>. QED BY <1>1, <1>3, <1>4, <2>1 DEF PacketHeld
<1>8. RoomSeen' /\ CopyAhead' /\ PieceHeld'
  BY <1>0, <1>1, <1>3 DEF RoomSeen, CopyAhead, PieceHeld
<1>9. Waiting = 0 /\ Waiting' = n /\ InPiece' = InPiece
  BY <1>1, <1>3, <1>4 DEF Waiting, InPiece
<1>10. NothingDropped'
  <2>1. received = Len(written) - InPiece + DataLen(rb) + 0
    BY <1>9 DEF SerialInv, NothingDropped
  <2>2. Len(written) \in Nat /\ InPiece \in Nat /\ DataLen(rb) \in Nat
    BY <1>0, Counts
  <2>3. received' = Len(written) - InPiece + DataLen(rb) + n BY <1>2, <1>c, <2>1, <2>2
  <2>. QED BY <1>1, <1>9, <2>3 DEF NothingDropped
<1>11. RingHolds' /\ SentInOrder'
  BY <1>1, <1>9 DEF SerialInv, RingHolds, TakenOut, SentInOrder
<1>. QED BY <1>6, <1>7, <1>8, <1>10, <1>11 DEF SerialInv

-----------------------------------------------------------------------------
LEMMA NextSerial ==
  ASSUME ~Piecemeal PROVE SerialInv /\ [Next]_vars => SerialInv'
<1> SUFFICES ASSUME SerialInv, [Next]_vars PROVE SerialInv' OBVIOUS
<1>1. CASE RevThread
  BY <1>1, RevQuietStep, RevCopyStep, RevIndexStep DEF RevThread, RevQuiet
<1>2. CASE U2uThread BY <1>2, U2uQuietStep, U2uUpdateStep DEF U2uThread, U2uQuiet
<1>3. CASE Usart BY <1>3, UsartStep
<1>4. CASE HostPacket BY <1>4, HostPacketStep
<1>5. CASE UNCHANGED vars
  <2>1. SerialInv BY DEF SerialInv
  <2>. QED BY <1>5, <2>1
       DEF vars, revVars, u2uVars, hostVars, SerialInv, RangesOK, CompletionsOK,
           PacketHeld, RoomSeen, CopyAhead, PieceHeld, NothingDropped, RingHolds,
           SentInOrder, TakenOut, InPiece, Waiting
<1>. QED BY <1>1, <1>2, <1>3, <1>4, <1>5 DEF Next

(* The bytes go out to the USART as they came in, for every size of the    *)
(* ring and of a packet, when the build joins the accesses to an index     *)
(* (usb_main.c:464-500).                                                   *)
THEOREM BytesInOrder == ASSUME ~Piecemeal PROVE Spec => []SentInOrder
<1>1. SerialInv => SentInOrder BY DEF SerialInv
<1>. QED BY <1>1, InitSerial, NextSerial, PTL DEF Spec

(* Every byte the endpoint acknowledged is in the packet buffer, in the    *)
(* ring or on the wire: the wait for space leaves room for a whole packet  *)
(* (usb_main.c:464-469).                                                   *)
THEOREM BytesKept == ASSUME ~Piecemeal PROVE Spec => []NothingDropped
<1>1. SerialInv => NothingDropped BY DEF SerialInv
<1>. QED BY <1>1, InitSerial, NextSerial, PTL DEF Spec

=============================================================================

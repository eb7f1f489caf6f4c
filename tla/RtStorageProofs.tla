-------------------------- MODULE RtStorageProofs --------------------------
(***************************************************************************)
(* Proofs about what RT-Thread keeps data in: the ring buffer of           *)
(* RingBuffer, for every buffer size, every set of bytes and every set of  *)
(* packets, and the heap of RtMem, for every alignment, every size of the  *)
(* heap, of its items and of what is asked for.                            *)
(*                                                                         *)
(* A ring is Valid: its indices are inside the buffer and Mirrored.  The   *)
(* heap is HeapInv: the items are a Row from its start to its end, lfree   *)
(* is not above a Free item, the items are Compact (no two neighbours are  *)
(* free), each caller Holds the room he asked for in a used item, and      *)
(* parent.used counts the Bytes of the used items.                         *)
(***************************************************************************)
EXTENDS RtSystem, RingOpsProofs, FiniteSetTheorems, WellFoundedInduction

----------------------------------------------------------------------------
(* The steps of the ring buffer, one lemma for what each does.             *)

LEMMA PutStep ==
  ASSUME NEW r, Valid(r), NEW d \in Seq(Values)
  PROVE  /\ Valid(Put(r, d))
         /\ Contents(Put(r, d)) =
              Contents(r) \o SubSeq(d, 1, Smaller(Size - Len(Contents(r)), Len(d)))
<1>1. SpaceLen(r) = Size - Len(Contents(r)) /\ SpaceLen(r) \in 0 .. Size
  BY ContentsType, Lengths DEF SpaceLen
<1>2. PutLen(r, d) \in 0 .. Len(d) /\ PutLen(r, d) <= SpaceLen(r)
  BY <1>1, SizeAssumption DEF PutLen, Smaller
<1>. QED BY <1>1, <1>2, AppendContents DEF Put, PutLen

LEMMA DmaStep ==
  ASSUME NEW r, Valid(r), NEW j \in Index, NEW v \in Values,
         Distance(r.wi, j) < SpaceLen(r)
  PROVE  /\ Valid([r EXCEPT !.buf[j] = v])
         /\ Contents([r EXCEPT !.buf[j] = v]) = Contents(r)
<1> DEFINE w == [r EXCEPT !.buf[j] = v]
<1>1. /\ w \in Ring /\ w.ri = r.ri /\ w.rm = r.rm /\ w.wi = r.wi /\ w.wm = r.wm
      /\ w.buf = [r.buf EXCEPT ![j] = v] /\ r.buf \in [Index -> Values]
  BY DEF Valid, Ring
<1> HIDE DEF w
<1>2. Valid(w) /\ DataLen(w) = DataLen(r)
  BY <1>1 DEF Valid, Mirrored, DataLen, IsEmpty, IsFull
<1>3. /\ Size \in Nat \ {0} /\ r.ri \in 0 .. Size - 1 /\ r.wi \in 0 .. Size - 1
      /\ j \in 0 .. Size - 1 /\ DataLen(r) \in 0 .. Size
      /\ SpaceLen(r) = Size - DataLen(r)
      /\ r.wi = r.ri + DataLen(r) \/ r.wi = r.ri + DataLen(r) - Size
  <2>1. /\ DataLen(r) \in 0 .. Size /\ Size \in Nat \ {0}
        /\ r.rm = r.wm => DataLen(r) = r.wi - r.ri
        /\ r.rm # r.wm => DataLen(r) = Size + r.wi - r.ri
    BY Lengths, SizeAssumption
  <2>2. /\ r.ri \in 0 .. Size - 1 /\ r.wi \in 0 .. Size - 1
        /\ j \in 0 .. Size - 1
    BY DEF Valid, Ring, Index
  <2>. QED BY <2>1, <2>2 DEF SpaceLen
<1>4. \A i \in 1 .. DataLen(r) : w.buf[Wrap(r.ri, i - 1)] = r.buf[Wrap(r.ri, i - 1)]
  <2> TAKE i \in 1 .. DataLen(r)
  <2>1. Wrap(r.ri, i - 1) \in Index BY <1>3 DEF Wrap, Index
  <2>2. Wrap(r.ri, i - 1) # j
    <3>1. CASE j >= r.wi BY <1>3, <3>1 DEF Wrap, Distance
    <3>2. CASE ~(j >= r.wi) BY <1>3, <3>2 DEF Wrap, Distance
    <3>. QED BY <3>1, <3>2
  <2>. QED BY <1>1, <2>1, <2>2
<1>5. Contents(w) = Contents(r)
  BY <1>1, <1>2, <1>4 DEF Contents
<1>. QED BY <1>2, <1>5 DEF w

LEMMA ReadStep ==
  ASSUME NEW r, Valid(r), NEW n \in Nat
  PROVE  /\ GetLen(r, n) \in 0 .. DataLen(r)
         /\ Valid(Get(r, n)) /\ Get(r, n) = MoveRead(r, GetLen(r, n))
<1>1. DataLen(r) \in 0 .. Size /\ Size \in Nat BY Lengths, SizeAssumption
<1>2. GetLen(r, n) \in 0 .. DataLen(r) BY <1>1 DEF GetLen, Smaller
<1>3. Get(r, n) = MoveRead(r, GetLen(r, n)) BY DEF Get
<1>. QED BY <1>2, <1>3, MoveReadValid

LEMMA ResetStep ==
  ASSUME NEW r, Valid(r)
  PROVE  Valid(Reset(r)) /\ Contents(Reset(r)) = << >>
<1>1. /\ Reset(r) \in Ring /\ Reset(r).ri = 0 /\ Reset(r).wi = 0
      /\ Reset(r).rm = 0 /\ Reset(r).wm = 0
  <2>1. 0 \in Index BY SizeAssumption DEF Index
  <2>. QED BY <2>1 DEF Reset, Valid, Ring
<1>2. Valid(Reset(r)) BY <1>1 DEF Valid, Mirrored
<1>3. DataLen(Reset(r)) = 0 BY <1>1, <1>2, Lengths
<1>. QED BY <1>2, <1>3, ContentsType

-----------------------------------------------------------------------------
(* A reading call takes the oldest bytes off the queue.                    *)
LEMMA ReadIsTake ==
  ASSUME TypeOK, MirrorInv, NEW n \in 0 .. DataLen(rb), Read(n, MoveRead(rb, n))
  PROVE  TypeOK' /\ MirrorInv' /\ Fifo!Next
<1>1. Valid(rb) BY DEF TypeOK, MirrorInv, Valid
<1>2. /\ Valid(rb') /\ out' = SubSeq(Contents(rb), 1, n)
      /\ Contents(rb') = SubSeq(Contents(rb), n + 1, Len(Contents(rb)))
  BY <1>1, TakeContents DEF Read
<1>3. /\ Contents(rb) \in Seq(Values) /\ Len(Contents(rb)) = DataLen(rb)
      /\ DataLen(rb) \in 0 .. Size /\ Size \in Nat
  BY <1>1, ContentsType, Lengths, SizeAssumption
<1>4. TypeOK' /\ MirrorInv'
  <2>1. out' \in Seq(Values) BY <1>2, <1>3
  <2>. QED BY <1>2, <2>1 DEF TypeOK, MirrorInv, Valid, Read
<1>5. Fifo!Take(n) BY <1>2, <1>3 DEF Fifo!Take, Fifo!Front, Read
<1>6. n \in 0 .. Size BY <1>3
<1>. QED BY <1>4, <1>5, <1>6 DEF Fifo!Next

(* A storing call keeps the ring valid. *)
LEMMA StoreKeeps ==
  ASSUME TypeOK, NEW op \in {"put", "putForce", "commit", "clear"}, NEW r,
         Valid(r), Store(op, r)
  PROVE  TypeOK' /\ MirrorInv'
BY DEF TypeOK, MirrorInv, Valid, Store

LEMMA PutIsPut ==
  ASSUME TypeOK, MirrorInv, NEW d \in Seq(Values), Store("put", Put(rb, d))
  PROVE  TypeOK' /\ MirrorInv' /\ Fifo!Put(d)
<1>1. Valid(rb) BY DEF TypeOK, MirrorInv, Valid
<1>2. /\ Valid(Put(rb, d))
      /\ Contents(Put(rb, d)) = Contents(rb) \o
           SubSeq(d, 1, Smaller(Size - Len(Contents(rb)), Len(d)))
  BY <1>1, PutStep
<1>3. TypeOK' /\ MirrorInv' BY <1>2, StoreKeeps
<1>4. Fifo!Put(d)
  BY <1>2 DEF Fifo!Put, Fifo!Front, Fifo!AtMost, Fifo!Room, Smaller, Store
<1>. QED BY <1>3, <1>4

LEMMA PutForceIsPutForce ==
  ASSUME TypeOK, MirrorInv, NEW d \in Seq(Values),
         Store("putForce", PutForce(rb, d))
  PROVE  TypeOK' /\ MirrorInv' /\ Fifo!PutForce(d)
<1>1. Valid(rb) BY DEF TypeOK, MirrorInv, Valid
<1>2. /\ Valid(PutForce(rb, d))
      /\ Contents(PutForce(rb, d)) =
           LET t == Contents(rb) \o d IN Newer(t, Smaller(Size, Len(t)))
  BY <1>1, PutForceContents
<1>3. TypeOK' /\ MirrorInv' BY <1>2, StoreKeeps
<1>4. Fifo!PutForce(d)
  BY <1>2 DEF Fifo!PutForce, Fifo!Last, Fifo!AtMost, Newer, Smaller, Store
<1>. QED BY <1>3, <1>4

(* Every step keeps the indices valid and does to the contents what the    *)
(* same call does to a queue.                                              *)
LEMMA StepSimulates ==
  ASSUME TypeOK, MirrorInv, [RingNext]_ringVars
  PROVE  TypeOK' /\ MirrorInv' /\ [Fifo!Next]_(Fifo!vars)
<1>1. Valid(rb) BY DEF TypeOK, MirrorInv, Valid
<1>2. CASE DoPut
  <2>1. PICK d \in Packets : Store("put", Put(rb, d)) BY <1>2 DEF DoPut
  <2>2. d \in Seq(Values) BY PacketsAssumption
  <2>3. TypeOK' /\ MirrorInv' /\ Fifo!Put(d) BY <2>1, <2>2, PutIsPut
  <2>. QED BY <2>3 DEF Fifo!Next
<1>3. CASE DoPutForce
  <2>1. PICK d \in Packets : Store("putForce", PutForce(rb, d))
    BY <1>3 DEF DoPutForce
  <2>2. d \in Seq(Values) BY PacketsAssumption
  <2>3. TypeOK' /\ MirrorInv' /\ Fifo!PutForce(d) BY <2>1, <2>2, PutForceIsPutForce
  <2>. QED BY <2>3 DEF Fifo!Next
<1>4. CASE DoPutChar
  <2>1. PICK v \in Values : Store("put", PutChar(rb, v)) BY <1>4 DEF DoPutChar
  <2>2. Store("put", Put(rb, <<v>>)) BY <1>1, <2>1, CharCalls
  <2>3. TypeOK' /\ MirrorInv' /\ Fifo!Put(<<v>>)
    <3>1. <<v>> \in Seq(Values) OBVIOUS
    <3>. QED BY <2>2, <3>1, PutIsPut
  <2>. QED BY <2>3 DEF Fifo!Next
<1>5. CASE DoPutCharForce
  <2>1. PICK v \in Values : Store("putForce", PutCharForce(rb, v))
    BY <1>5 DEF DoPutCharForce
  <2>2. Store("putForce", PutForce(rb, <<v>>)) BY <1>1, <2>1, CharCalls
  <2>3. TypeOK' /\ MirrorInv' /\ Fifo!PutForce(<<v>>)
    <3>1. <<v>> \in Seq(Values) OBVIOUS
    <3>. QED BY <2>2, <3>1, PutForceIsPutForce
  <2>. QED BY <2>3 DEF Fifo!Next
<1>6. CASE DoGet
  <2>1. PICK n \in 0 .. Size + 1 : Read(GetLen(rb, n), Get(rb, n))
    BY <1>6 DEF DoGet
  <2>2. n \in Nat BY SizeAssumption
  <2>3. GetLen(rb, n) \in 0 .. DataLen(rb) /\ Get(rb, n) = MoveRead(rb, GetLen(rb, n))
    BY <1>1, <2>2, ReadStep
  <2>. QED BY <2>1, <2>3, ReadIsTake
<1>7. CASE DoGetChar
  <2>1. GetLen(rb, 1) \in 0 .. DataLen(rb) BY <1>1, ReadStep
  <2>2. GetChar(rb) = MoveRead(rb, GetLen(rb, 1))
    <3>1. rb \in Ring /\ DataLen(rb) \in 0 .. Size /\ Size \in Nat \ {0}
      BY <1>1, Lengths, SizeAssumption DEF Valid
    <3>2. CASE DataLen(rb) = 0
      <4>1. MoveRead(rb, 0) = rb BY <3>1 DEF MoveRead, Ring, Index
      <4>. QED BY <3>2, <4>1 DEF GetLen, GetChar, Smaller
    <3>3. CASE DataLen(rb) # 0
      BY <3>1, <3>3 DEF GetLen, GetChar, Smaller
    <3>. QED BY <3>2, <3>3
  <2>. QED BY <1>7, <2>1, <2>2, ReadIsTake DEF DoGetChar
<1>8. CASE DoPeek
  BY <1>1, <1>8, LinearCalls, ReadIsTake DEF DoPeek, Peek
<1>9. CASE DoSendLinear
  BY <1>1, <1>9, LinearCalls, ReadIsTake DEF DoSendLinear
<1>10. CASE DoDmaStore
  <2>1. PICK j \in Index, v \in Values :
          /\ Distance(rb.wi, j) < SpaceLen(rb)
          /\ rb' = [rb EXCEPT !.buf[j] = v]
          /\ UNCHANGED <<out, call>>
    BY <1>10 DEF DoDmaStore
  <2>2. Valid(rb') /\ Contents(rb') = Contents(rb) BY <1>1, <2>1, DmaStep
  <2>3. TypeOK' /\ MirrorInv' BY <2>1, <2>2 DEF TypeOK, MirrorInv, Valid
  <2>. QED BY <2>1, <2>2, <2>3 DEF Fifo!vars
<1>11. CASE DoCommit
  <2>1. PICK n \in 0 .. Size : Store("commit", UpdateWriteIndex(rb, n))
    BY <1>11 DEF DoCommit
  <2>2. /\ Len(Contents(rb)) = DataLen(rb) /\ SpaceLen(rb) = Size - DataLen(rb)
        /\ SpaceLen(rb) \in 0 .. Size
    BY <1>1, ContentsType, Lengths DEF SpaceLen
  <2>3. Smaller(SpaceLen(rb), n) \in 0 .. SpaceLen(rb)
    BY <2>2, SizeAssumption DEF Smaller
  <2>4. /\ Valid(UpdateWriteIndex(rb, n))
        /\ \E d \in [1 .. Smaller(SpaceLen(rb), n) -> Values] :
             Contents(UpdateWriteIndex(rb, n)) = Contents(rb) \o d
    BY <1>1, <2>3, CommitContents, MoveWriteValid DEF UpdateWriteIndex
  <2>5. TypeOK' /\ MirrorInv' BY <2>1, <2>4, StoreKeeps
  <2>6. Fifo!Commit(n)
    BY <2>1, <2>2, <2>4 DEF Fifo!Commit, Fifo!AtMost, Fifo!Room, Smaller, Store
  <2>. QED BY <2>5, <2>6 DEF Fifo!Next
<1>12. CASE DoReset
  <2>1. Valid(Reset(rb)) /\ Contents(Reset(rb)) = << >> BY <1>1, ResetStep
  <2>2. TypeOK' /\ MirrorInv' BY <1>12, <2>1, StoreKeeps DEF DoReset
  <2>3. Fifo!Clear BY <1>12, <2>1 DEF DoReset, Fifo!Clear, Store
  <2>. QED BY <2>2, <2>3 DEF Fifo!Next
<1>13. CASE UNCHANGED ringVars
  BY <1>13 DEF ringVars, TypeOK, MirrorInv, Fifo!vars
<1>. QED
  BY <1>2, <1>3, <1>4, <1>5, <1>6, <1>7, <1>8, <1>9, <1>10, <1>11, <1>12, <1>13
     DEF RingNext

LEMMA InitSimulates ==
  ASSUME RingInit
  PROVE  TypeOK /\ MirrorInv /\ Fifo!Init
<1>1. Valid(rb) /\ DataLen(rb) = 0
  <2>1. 0 \in Index BY SizeAssumption DEF Index
  <2>2. /\ rb \in Ring /\ rb.ri = 0 /\ rb.wi = 0 /\ rb.rm = 0 /\ rb.wm = 0
    BY <2>1 DEF RingInit, Ring
  <2>3. Valid(rb) BY <2>2 DEF Valid, Mirrored
  <2>. QED BY <2>2, <2>3, Lengths
<1>2. Contents(rb) = << >> BY <1>1, ContentsType
<1>. QED BY <1>1, <1>2 DEF RingInit, TypeOK, MirrorInv, Valid, Fifo!Init

(* For every size, the indices stay inside the buffer. *)
THEOREM TypeCorrect == RingSpec => []TypeOK
<1>1. RingInit => TypeOK /\ MirrorInv BY InitSimulates
<1>2. TypeOK /\ MirrorInv /\ [RingNext]_ringVars => (TypeOK /\ MirrorInv)'
  BY StepSimulates
<1>. QED BY <1>1, <1>2, PTL DEF RingSpec

----------------------------------------------------------------------------
(* Numbers.                                                                 *)
LEMMA RoundsUp == ASSUME NEW n \in Nat PROVE AlignUp(n) \in Nat /\ AlignUp(n) >= n
<1>1. Align \in Nat /\ Align >= 1 BY HeapAssumption
<1>2. PICK x \in Nat : x = n + Align - 1 BY <1>1
<1>3. PICK q \in Int, r \in Int : q = x \div Align /\ r = x % Align /\ x = Align * q + r /\ 0 <= r /\ r < Align
  BY <1>1
<1>4. Align * q >= n BY <1>1, <1>2, <1>3
<1>5. Align * q = q * Align /\ Align * q \in Int BY <1>1, <1>3
<1>6. AlignUp(n) = q * Align BY <1>2, <1>3 DEF AlignUp
<1>. QED BY <1>4, <1>5, <1>6

LEMMA Bounds ==
    /\ Struct \in Nat /\ Struct >= 1 /\ MinAligned \in Nat /\ MinAligned >= 1 /\ MinSize \in Nat
    /\ HeapSize \in Nat /\ HeapEnd \in Nat /\ HeapEnd = HeapSize + Struct /\ HeapEnd >= 1
<1>1. ItemSize \in Nat /\ ItemSize >= 1 /\ MinSize \in Nat /\ MinSize >= 1 /\ HeapSize \in Nat BY HeapAssumption
<1>2. AlignUp(ItemSize) \in Nat /\ AlignUp(ItemSize) >= ItemSize BY <1>1, RoundsUp
<1>3. AlignUp(MinSize) \in Nat /\ AlignUp(MinSize) >= MinSize BY <1>1, RoundsUp
<1>. QED BY <1>1, <1>2, <1>3 DEF Struct, MinAligned, HeapEnd

LEMMA RoundedIs == ASSUME NEW n \in Nat PROVE Rounded(n) \in Nat /\ Rounded(n) >= n /\ Rounded(n) >= 1
<1>1. AlignUp(n) \in Nat /\ AlignUp(n) >= n BY RoundsUp
<1>. QED BY <1>1, Bounds DEF Rounded

LEMMA LeastIs ==
    ASSUME NEW S \in SUBSET Nat, S # {}
    PROVE Min(S) \in S /\ \A q \in S : Min(S) <= q
<1>. DEFINE R == {ss \in Nat \X Nat : ss[1] < ss[2]}
<1>1. IsWellFoundedOn(R, Nat) BY NatLessThanWellFounded DEF OpToRel
<1>2. \E p \in S : \A q \in S : ~(<<q, p>> \in R)
  <2>. HIDE DEF R
  <2>. QED BY <1>1, WFMin
<1>3. PICK p \in S : \A q \in S : ~(<<q, p>> \in R) BY <1>2
<1>4. ASSUME NEW q \in S PROVE p <= q
  <2>1. <<q, p>> \in Nat \X Nat /\ <<q, p>>[1] = q /\ <<q, p>>[2] = p OBVIOUS
  <2>2. ~(q < p) BY <1>3, <2>1
  <2>. QED BY <2>2
<1>. QED BY <1>4 DEF Min

----------------------------------------------------------------------------
(* The row of items.                                                        *)
Items == [isUsed : BOOLEAN, next : Nat, prev : Nat]
In(m) == DOMAIN m \ {HeapEnd}
Row(m) ==
    /\ m \in [DOMAIN m -> Items] /\ DOMAIN m \subseteq 0..HeapEnd
    /\ 0 \in DOMAIN m /\ HeapEnd \in DOMAIN m /\ m[HeapEnd].isUsed
    /\ \A p \in In(m) : /\ m[p].next \in DOMAIN m /\ p < m[p].next
                        /\ \A q \in DOMAIN m : q <= p \/ m[p].next <= q
    /\ m[0].prev = 0
    /\ \A p \in In(m) \ {0} : m[p].prev \in In(m) /\ m[m[p].prev].next = p

LEMMA AtIs ==
    ASSUME NEW m, Row(m), NEW p, p \in In(m)
    PROVE /\ p \in Nat /\ p < HeapEnd /\ p \in DOMAIN m /\ m[p] \in Items
          /\ m[p].isUsed \in BOOLEAN /\ m[p].next \in Nat /\ m[p].prev \in Nat
          /\ m[p].next \in DOMAIN m /\ p < m[p].next /\ m[p].next <= HeapEnd
<1>1. p \in DOMAIN m /\ p # HeapEnd /\ p \in 0..HeapEnd BY DEF Row, In
<1>2. m[p] \in Items BY <1>1 DEF Row
<1>3. m[p].next \in DOMAIN m /\ m[p].next \in 0..HeapEnd /\ p < m[p].next BY DEF Row
<1>. QED BY <1>1, <1>2, <1>3, Bounds DEF Items

LEMMA Apart ==
    ASSUME NEW m, Row(m), NEW p, p \in In(m), NEW q, q \in In(m), p < q
    PROVE m[p].next <= q
<1>1. p \in Nat /\ q \in Nat /\ q \in DOMAIN m BY AtIs
<1>2. q <= p \/ m[p].next <= q BY <1>1 DEF Row
<1>. QED BY <1>1, <1>2

LEMMA NextOnce ==
    ASSUME NEW m, Row(m), NEW p, p \in In(m), NEW q, q \in In(m), m[p].next = m[q].next
    PROVE p = q
<1>1. /\ p \in Nat /\ q \in Nat /\ m[p].next \in Nat /\ m[q].next \in Nat
      /\ p < m[p].next /\ q < m[q].next
  BY AtIs
<1>2. ~(p < q) BY <1>1, Apart
<1>3. ~(q < p) BY <1>1, Apart
<1>. QED BY <1>1, <1>2, <1>3

(* The first item is no item's next, and the next one's prev is the item.   *)
LEMMA NextIs ==
    ASSUME NEW m, Row(m), NEW p, p \in In(m)
    PROVE m[p].next # 0 /\ (m[p].next # HeapEnd => m[p].next \in In(m) /\ m[m[p].next].prev = p)
<1>1. p \in Nat /\ m[p].next \in Nat /\ p < m[p].next /\ m[p].next \in DOMAIN m BY AtIs
<1>2. m[p].next # 0 BY <1>1
<1>3. ASSUME m[p].next # HeapEnd PROVE m[m[p].next].prev = p
  <2>1. PICK q : q = m[p].next /\ q \in In(m) \ {0} BY <1>1, <1>2, <1>3 DEF In
  <2>2. PICK r : r = m[q].prev /\ r \in In(m) /\ m[r].next = q BY <2>1 DEF Row
  <2>3. r = p BY <2>1, <2>2, NextOnce
  <2>. QED BY <2>1, <2>2, <2>3
<1>. QED BY <1>1, <1>2, <1>3 DEF In

(* An item is marked as used or free.                                       *)
Marked(m, w, p, v) ==
    /\ DOMAIN w = DOMAIN m /\ w[p].isUsed = v
    /\ \A q \in DOMAIN m : w[q].next = m[q].next /\ w[q].prev = m[q].prev
    /\ \A q \in DOMAIN m : q # p => w[q].isUsed = m[q].isUsed
LEMMA MarkIs ==
    ASSUME NEW m, Row(m), NEW p, p \in In(m), NEW v, v \in BOOLEAN, NEW w, w = [m EXCEPT ![p].isUsed = v]
    PROVE Row(w) /\ Marked(m, w, p, v)
<1>1. p \in DOMAIN m /\ p # HeapEnd /\ m \in [DOMAIN m -> Items] BY AtIs DEF Row, In
<1>2. PICK e \in Items : e = [m[p] EXCEPT !.isUsed = v] BY <1>1 DEF Items
<1>3. e.isUsed = v /\ e.next = m[p].next /\ e.prev = m[p].prev BY <1>1, <1>2 DEF Items
<1>4. w = [m EXCEPT ![p] = e] BY <1>2
<1>5. w \in [DOMAIN m -> Items] /\ DOMAIN w = DOMAIN m /\ w[p] = e /\ \A q \in DOMAIN m : q # p => w[q] = m[q]
  BY <1>1, <1>4
<1>6. Marked(m, w, p, v) BY <1>3, <1>5 DEF Marked
<1>7. w[HeapEnd] = m[HeapEnd] /\ HeapEnd \in DOMAIN m BY <1>1, <1>5 DEF Row
<1>8. In(w) = In(m) BY <1>5 DEF In
<1>9. w \in [DOMAIN w -> Items] BY <1>5
<1>. HIDE DEF In
<1>10. \A q \in In(m) : q \in DOMAIN m /\ m[q].prev \in DOMAIN m
  <2>1. \A q \in In(m) : q \in DOMAIN m BY DEF In
  <2>2. 0 \in DOMAIN m /\ m[0].prev = 0 BY DEF Row
  <2>3. \A q \in In(m) : q # 0 => m[q].prev \in In(m) BY DEF Row
  <2>. QED BY <2>1, <2>2, <2>3
<1>11. \A q \in In(w) : /\ w[q].next \in DOMAIN w /\ q < w[q].next
                        /\ \A x \in DOMAIN w : x <= q \/ w[q].next <= x
  BY <1>5, <1>6, <1>8, <1>10 DEF Row, Marked
<1>12. w[0].prev = 0 /\ \A q \in In(w) \ {0} : w[q].prev \in In(w) /\ w[w[q].prev].next = q
  BY <1>5, <1>6, <1>8, <1>10 DEF Row, Marked
<1>. QED BY <1>5, <1>6, <1>7, <1>9, <1>11, <1>12 DEF Row

(* An item is cut in two, and the second part is free.                      *)
Halved(m, w, p, r) ==
    /\ DOMAIN w = DOMAIN m \cup {r} /\ r \notin DOMAIN m /\ p < r
    /\ w[p].next = r /\ w[r].next = m[p].next /\ w[r].isUsed = FALSE
    /\ \A q \in DOMAIN m : w[q].isUsed = m[q].isUsed
    /\ \A q \in DOMAIN m : q # p => w[q].next = m[q].next
Cut(m, w, p, r) ==
    /\ w[r].prev = p /\ w \in [DOMAIN w -> Items]
    /\ \A q \in DOMAIN m : w[q].prev = IF q = m[p].next /\ q # HeapEnd THEN r ELSE m[q].prev

LEMMA CutIs ==
    ASSUME NEW m, Row(m), NEW p, p \in In(m), NEW n \in Nat, NEW r, r = p + Struct + n, r < m[p].next,
           NEW w, w = Split(m, p, n)
    PROVE Halved(m, w, p, r) /\ Cut(m, w, p, r)
<1>1. /\ p \in Nat /\ p < HeapEnd /\ p \in DOMAIN m /\ m[p] \in Items /\ m[p].next \in Nat
      /\ m[p].next \in DOMAIN m /\ p < m[p].next /\ m \in [DOMAIN m -> Items]
  BY AtIs DEF Row
<1>2. r \in Nat /\ p < r BY <1>1, Bounds
<1>3. r \notin DOMAIN m
  <2>1. \A q \in DOMAIN m : q <= p \/ m[p].next <= q BY DEF Row
  <2>. QED BY <1>1, <1>2, <2>1
<1>4. PICK y : y = m[p].next OBVIOUS
<1>5. PICK e \in Items : e = [m[p] EXCEPT !.next = r] BY <1>1, <1>2 DEF Items
<1>6. e.isUsed = m[p].isUsed /\ e.next = r /\ e.prev = m[p].prev BY <1>1, <1>5 DEF Items
<1>7. PICK f : f = [m EXCEPT ![p] = e] OBVIOUS
<1>8. f \in [DOMAIN m -> Items] /\ f[p] = e /\ \A q \in DOMAIN m : q # p => f[q] = m[q] BY <1>1, <1>7
<1>9. PICK i \in Items : i = Item(FALSE, y, p) BY <1>1, <1>4 DEF Item, Items
<1>10. i.isUsed = FALSE /\ i.next = y /\ i.prev = p BY <1>9 DEF Item
<1>11. PICK g : g = With(f, r, i) OBVIOUS
<1>12. g \in [DOMAIN m \cup {r} -> Items] /\ g[r] = i /\ \A q \in DOMAIN m : g[q] = f[q]
  BY <1>3, <1>8, <1>11 DEF With
<1>13. w = IF y = HeapEnd THEN g ELSE [g EXCEPT ![y].prev = r]
  BY <1>4, <1>5, <1>7, <1>9, <1>11 DEF Split
<1>14. y \in DOMAIN m /\ y # p /\ y # r BY <1>1, <1>3, <1>4
<1>15. /\ w \in [DOMAIN m \cup {r} -> Items] /\ w[r] = i /\ \A q \in DOMAIN m : q # y => w[q] = f[q]
       /\ w[y].isUsed = f[y].isUsed /\ w[y].next = f[y].next
       /\ w[y].prev = IF y # HeapEnd THEN r ELSE f[y].prev
  <2>1. CASE y = HeapEnd BY <1>12, <1>13, <1>14, <2>1
  <2>2. CASE y # HeapEnd
    <3>1. PICK z \in Items : z = [g[y] EXCEPT !.prev = r] BY <1>2, <1>12, <1>14 DEF Items
    <3>2. z.isUsed = g[y].isUsed /\ z.next = g[y].next /\ z.prev = r BY <1>12, <1>14, <3>1 DEF Items
    <3>3. w = [g EXCEPT ![y] = z] BY <1>13, <2>2, <3>1
    <3>4. w \in [DOMAIN m \cup {r} -> Items] /\ w[y] = z /\ \A q \in DOMAIN m \cup {r} : q # y => w[q] = g[q]
      BY <1>12, <1>14, <3>3
    <3>. QED BY <1>12, <1>14, <2>2, <3>2, <3>4
  <2>. QED BY <2>1, <2>2
<1>16. Halved(m, w, p, r)
  BY <1>1, <1>2, <1>3, <1>4, <1>6, <1>8, <1>10, <1>14, <1>15 DEF Halved
<1>17. DOMAIN w = DOMAIN m \cup {r} BY <1>15
<1>18. Cut(m, w, p, r)
  BY <1>1, <1>3, <1>4, <1>6, <1>8, <1>10, <1>14, <1>15, <1>17 DEF Cut
<1>. QED BY <1>16, <1>18

LEMMA SplitIs ==
    ASSUME NEW m, Row(m), NEW p, p \in In(m), NEW n \in Nat, NEW r, r = p + Struct + n, r < m[p].next,
           NEW w, w = Split(m, p, n)
    PROVE Row(w) /\ Halved(m, w, p, r) /\ r \in In(w) /\ p \in In(w)
<1>1. Halved(m, w, p, r) /\ Cut(m, w, p, r) BY CutIs
<1>2. /\ p \in Nat /\ p \in DOMAIN m /\ p # HeapEnd /\ m[p].next \in Nat /\ m[p].next \in DOMAIN m
      /\ m[p].next <= HeapEnd /\ HeapEnd \in Nat /\ Struct \in Nat
  BY AtIs, Bounds
<1>3. r \in 0..HeapEnd /\ r # HeapEnd /\ p < r BY <1>2, Bounds
<1>4. In(w) = In(m) \cup {r} BY <1>1, <1>3 DEF In, Halved
<1>5. w \in [DOMAIN w -> Items] BY <1>1 DEF Cut
<1>6. DOMAIN w \subseteq 0..HeapEnd /\ 0 \in DOMAIN w /\ HeapEnd \in DOMAIN w /\ w[HeapEnd].isUsed
  BY <1>1, <1>3 DEF Halved, Row
<1>7. ASSUME NEW q \in In(w)
      PROVE /\ w[q].next \in DOMAIN w /\ q < w[q].next
            /\ \A x \in DOMAIN w : x <= q \/ w[q].next <= x
  <2>1. \A x \in DOMAIN m : x \in Nat BY <1>2 DEF Row
  <2>2. \A x \in DOMAIN m : x <= p \/ m[p].next <= x BY DEF Row
  <2>3. CASE q = r
    <3>1. w[q].next = m[p].next /\ DOMAIN w = DOMAIN m \cup {r} BY <1>1, <2>3 DEF Halved
    <3>2. \A x \in DOMAIN w : x <= q \/ w[q].next <= x BY <1>2, <1>3, <2>1, <2>2, <2>3, <3>1
    <3>. QED BY <1>2, <2>3, <3>1, <3>2
  <2>4. CASE q = p
    <3>1. w[q].next = r /\ DOMAIN w = DOMAIN m \cup {r} BY <1>1, <2>4 DEF Halved
    <3>2. \A x \in DOMAIN w : x <= q \/ w[q].next <= x BY <1>2, <1>3, <2>1, <2>2, <2>4, <3>1
    <3>. QED BY <1>3, <2>4, <3>1, <3>2
  <2>5. CASE q # p /\ q # r
    <3>1. q \in In(m) BY <1>4, <2>5
    <3>2. w[q].next = m[q].next /\ DOMAIN w = DOMAIN m \cup {r} BY <1>1, <2>5, <3>1 DEF Halved, In
    <3>3. /\ q \in Nat /\ m[q].next \in DOMAIN m /\ m[q].next \in Nat /\ q < m[q].next BY <3>1, AtIs
    <3>4. \A x \in DOMAIN m : x <= q \/ m[q].next <= x BY <3>1 DEF Row
    <3>5. r <= q \/ m[q].next <= r
      <4>1. CASE p < q
        <5>1. m[p].next <= q BY <3>1, <4>1, Apart
        <5>. QED BY <1>2, <3>3, <5>1, <1>3
      <4>2. CASE q < p
        <5>1. m[q].next <= p BY <3>1, <4>2, Apart
        <5>. QED BY <1>2, <3>3, <5>1, <1>3
      <4>. QED BY <1>2, <2>5, <3>3, <4>1, <4>2
    <3>. QED BY <3>2, <3>3, <3>4, <3>5
  <2>. QED BY <2>3, <2>4, <2>5
<1>8. w[0].prev = 0
  <2>1. 0 \in DOMAIN m /\ m[0].prev = 0 BY DEF Row
  <2>2. m[p].next # 0 BY NextIs
  <2>. QED BY <1>1, <2>1, <2>2 DEF Cut
<1>9. ASSUME NEW q \in In(w) \ {0} PROVE w[q].prev \in In(w) /\ w[w[q].prev].next = q
  <2>1. CASE q = r BY <1>1, <1>4, <2>1 DEF Cut, Halved
  <2>2. CASE q # r /\ q = m[p].next
    <3>1. w[q].prev = r BY <1>1, <1>2, <1>4, <2>2 DEF Cut, In
    <3>. QED BY <1>1, <1>4, <2>2, <3>1 DEF Halved
  <2>3. CASE q # r /\ q # m[p].next
    <3>1. q \in In(m) \ {0} /\ q \in DOMAIN m BY <1>4, <2>3 DEF In
    <3>2. w[q].prev = m[q].prev BY <1>1, <2>3, <3>1 DEF Cut
    <3>3. PICK b : b = m[q].prev /\ b \in In(m) /\ m[b].next = q BY <3>1 DEF Row
    <3>4. b # p /\ b \in DOMAIN m BY <2>3, <3>3 DEF In
    <3>5. w[b].next = q BY <1>1, <3>3, <3>4 DEF Halved
    <3>. QED BY <1>4, <3>2, <3>3, <3>5
  <2>. QED BY <2>1, <2>2, <2>3
<1>10. Row(w) BY <1>5, <1>6, <1>7, <1>8, <1>9 DEF Row
<1>11. p \in In(m) OBVIOUS
<1>. QED BY <1>1, <1>4, <1>10, <1>11

(* An item takes in the next one.                                           *)
Fused(m, w, p, n) ==
    /\ DOMAIN w = DOMAIN m \ {n} /\ p \in DOMAIN w /\ w[p].next = m[n].next
    /\ \A q \in DOMAIN w : w[q].isUsed = m[q].isUsed
    /\ \A q \in DOMAIN w : q # p => w[q].next = m[q].next
Linked(m, w, p, n) ==
    /\ w \in [DOMAIN w -> Items]
    /\ \A q \in DOMAIN w : w[q].prev = IF q = m[n].next THEN p ELSE m[q].prev

LEMMA FuseIs ==
    ASSUME NEW m, Row(m), NEW p, p \in In(m), NEW n, n = m[p].next, n # HeapEnd, NEW w, w = Merged(m, p, n)
    PROVE Fused(m, w, p, n) /\ Linked(m, w, p, n)
<1>1. p \in Nat /\ p \in DOMAIN m /\ m[p] \in Items /\ p < n /\ n \in Nat BY AtIs
<1>2. n \in In(m) BY NextIs
<1>3. PICK y : y = m[n].next OBVIOUS
<1>4. n \in DOMAIN m /\ y \in DOMAIN m /\ y \in Nat /\ n < y /\ m \in [DOMAIN m -> Items]
  BY <1>2, <1>3, AtIs DEF Row
<1>5. y # p /\ y # n /\ p # n BY <1>1, <1>4
<1>6. PICK e \in Items : e = [m[p] EXCEPT !.next = y] BY <1>1, <1>4 DEF Items
<1>7. e.isUsed = m[p].isUsed /\ e.next = y /\ e.prev = m[p].prev BY <1>1, <1>6 DEF Items
<1>8. m[y] \in Items BY <1>4
<1>9. PICK z \in Items : z = [m[y] EXCEPT !.prev = p] BY <1>1, <1>8 DEF Items
<1>10. z.isUsed = m[y].isUsed /\ z.next = m[y].next /\ z.prev = p BY <1>8, <1>9 DEF Items
<1>11. PICK f : f = [m EXCEPT ![p] = e] OBVIOUS
<1>12. f \in [DOMAIN m -> Items] /\ f[p] = e /\ \A q \in DOMAIN m : q # p => f[q] = m[q] BY <1>1, <1>4, <1>11
<1>13. f[y] = m[y] BY <1>4, <1>5, <1>12
<1>14. PICK g : g = [f EXCEPT ![y] = z] OBVIOUS
<1>15. g \in [DOMAIN m -> Items] /\ g[y] = z /\ \A q \in DOMAIN m : q # y => g[q] = f[q] BY <1>4, <1>12, <1>14
<1>16. g = [m EXCEPT ![p].next = y, ![y].prev = p]
  <2>1. g = [[m EXCEPT ![p].next = y] EXCEPT ![y].prev = p] BY <1>6, <1>9, <1>11, <1>13, <1>14
  <2>. QED BY <2>1
<1>17. w = Dropped(g, n) BY <1>3, <1>16 DEF Merged
<1>18. w \in [DOMAIN m \ {n} -> Items] /\ \A q \in DOMAIN m \ {n} : w[q] = g[q] BY <1>15, <1>17 DEF Dropped
<1>19. Fused(m, w, p, n) BY <1>1, <1>3, <1>5, <1>7, <1>10, <1>12, <1>15, <1>18 DEF Fused
<1>20. DOMAIN w = DOMAIN m \ {n} BY <1>18
<1>21. Linked(m, w, p, n) BY <1>1, <1>3, <1>4, <1>5, <1>7, <1>10, <1>12, <1>15, <1>18, <1>20 DEF Linked
<1>. QED BY <1>19, <1>21

LEMMA MergedIs ==
    ASSUME NEW m, Row(m), NEW p, p \in In(m), NEW n, n = m[p].next, n # HeapEnd, NEW w, w = Merged(m, p, n)
    PROVE Row(w) /\ Fused(m, w, p, n) /\ p \in In(w)
<1>1. Fused(m, w, p, n) /\ Linked(m, w, p, n) BY FuseIs
<1>2. n \in In(m) BY NextIs
<1>3. /\ p \in Nat /\ p \in DOMAIN m /\ p # HeapEnd /\ p < n /\ n \in Nat /\ n \in DOMAIN m
      /\ m[n].next \in DOMAIN m /\ m[n].next \in Nat /\ n < m[n].next /\ HeapEnd \in Nat
  BY <1>2, AtIs, Bounds
<1>4. In(w) = In(m) \ {n} /\ p \in In(w) BY <1>1, <1>3 DEF In, Fused
<1>5. w \in [DOMAIN w -> Items] BY <1>1 DEF Linked
<1>6. DOMAIN w \subseteq 0..HeapEnd /\ 0 \in DOMAIN w /\ HeapEnd \in DOMAIN w /\ w[HeapEnd].isUsed
  BY <1>1, <1>3 DEF Fused, Row
<1>7. ASSUME NEW q \in In(w)
      PROVE /\ w[q].next \in DOMAIN w /\ q < w[q].next
            /\ \A x \in DOMAIN w : x <= q \/ w[q].next <= x
  <2>1. \A x \in DOMAIN m : x \in Nat BY <1>3 DEF Row
  <2>2. q \in In(m) /\ q # n /\ DOMAIN w = DOMAIN m \ {n} BY <1>1, <1>4 DEF Fused
  <2>3. CASE q = p
    <3>1. w[q].next = m[n].next BY <1>1, <2>3 DEF Fused
    <3>2. \A x \in DOMAIN m : x <= p \/ n <= x BY DEF Row
    <3>3. \A x \in DOMAIN m : x <= n \/ m[n].next <= x BY <1>2 DEF Row
    <3>4. \A x \in DOMAIN w : x <= q \/ w[q].next <= x BY <1>3, <2>1, <2>2, <2>3, <3>1, <3>2, <3>3
    <3>. QED BY <1>3, <2>2, <2>3, <3>1, <3>4
  <2>4. CASE q # p
    <3>1. w[q].next = m[q].next BY <1>1, <2>2, <2>4 DEF Fused, In
    <3>2. m[q].next # n BY <2>2, <2>4, NextOnce
    <3>3. m[q].next \in DOMAIN m /\ q < m[q].next BY <2>2, AtIs
    <3>4. \A x \in DOMAIN m : x <= q \/ m[q].next <= x BY <2>2 DEF Row
    <3>. QED BY <2>2, <3>1, <3>2, <3>3, <3>4
  <2>. QED BY <2>3, <2>4
<1>8. w[0].prev = 0
  <2>1. 0 \in DOMAIN w /\ m[0].prev = 0 BY <1>6 DEF Row
  <2>2. m[n].next # 0 BY <1>3
  <2>. QED BY <1>1, <2>1, <2>2 DEF Linked
<1>9. ASSUME NEW q \in In(w) \ {0} PROVE w[q].prev \in In(w) /\ w[w[q].prev].next = q
  <2>1. q \in DOMAIN w /\ q \in In(m) \ {0} BY <1>4 DEF In
  <2>2. CASE q = m[n].next
    <3>1. w[q].prev = p BY <1>1, <2>1, <2>2 DEF Linked
    <3>. QED BY <1>1, <1>4, <2>2, <3>1 DEF Fused
  <2>3. CASE q # m[n].next
    <3>1. w[q].prev = m[q].prev BY <1>1, <2>1, <2>3 DEF Linked
    <3>2. PICK b : b = m[q].prev /\ b \in In(m) /\ m[b].next = q BY <2>1 DEF Row
    <3>3. b # n BY <2>3, <3>2
    <3>4. q # n BY <1>4
    <3>5. b # p BY <3>2, <3>4
    <3>6. b \in In(w) /\ b \in DOMAIN w BY <1>4, <3>2, <3>3 DEF In
    <3>7. w[b].next = q BY <1>1, <3>2, <3>5, <3>6 DEF Fused
    <3>. QED BY <3>1, <3>2, <3>6, <3>7
  <2>. QED BY <2>2, <2>3
<1>10. Row(w) BY <1>5, <1>6, <1>7, <1>8, <1>9 DEF Row
<1>. QED BY <1>1, <1>4, <1>10

----------------------------------------------------------------------------
(* Free items: none is below lfree, no two are neighbours.                  *)
Free(m, low) == low \in Nat /\ \A p \in In(m) : ~m[p].isUsed => low <= p
Settled(m, q) == m[q].isUsed \/ m[q].next = HeapEnd \/ m[m[q].next].isUsed
Compact(m) == \A q \in In(m) : Settled(m, q)
Around(m, p) == \A q \in In(m) : Settled(m, q) \/ q = p \/ m[q].next = p
OnlyBefore(m, p) == \A q \in In(m) : Settled(m, q) \/ m[q].next = p

(* Items that are used are left alone.                                      *)
Used(m) == {q \in In(m) : m[q].isUsed}
Alike(m, w) == Used(w) = Used(m) /\ \A q \in Used(m) : w[q].next = m[q].next

LEMMA AlikeTwice ==
    ASSUME NEW m, NEW w, NEW x, Alike(m, w), Alike(w, x)
    PROVE Alike(m, x)
BY DEF Alike

LEMMA FusedAlike ==
    ASSUME NEW m, NEW w, NEW p, NEW n, Fused(m, w, p, n), ~m[p].isUsed, ~m[n].isUsed
    PROVE Alike(m, w)
<1>1. DOMAIN w = DOMAIN m \ {n} /\ p \in DOMAIN w /\ \A q \in DOMAIN w : w[q].isUsed = m[q].isUsed BY DEF Fused
<1>2. Used(w) = Used(m) BY <1>1 DEF Used, In
<1>3. \A q \in Used(m) : q \in DOMAIN w /\ q # p BY <1>1 DEF Used, In
<1>. QED BY <1>2, <1>3 DEF Alike, Fused

LEMMA FusedFree ==
    ASSUME NEW m, NEW w, NEW p, NEW n, Fused(m, w, p, n), NEW low, Free(m, low)
    PROVE Free(w, low)
<1>1. \A q \in In(w) : q \in In(m) /\ w[q].isUsed = m[q].isUsed BY DEF Fused, In
<1>. QED BY <1>1 DEF Free

LEMMA ForwardIs ==
    ASSUME NEW m, Row(m), NEW p, p \in In(m), ~m[p].isUsed, Around(m, p), NEW low, Free(m, low),
           NEW a, a = PlugForward(m, low, p)
    PROVE /\ Row(a[1]) /\ Free(a[1], a[2]) /\ Alike(m, a[1]) /\ p \in In(a[1]) /\ ~a[1][p].isUsed
          /\ OnlyBefore(a[1], p)
<1>1. PICK n : n = m[p].next OBVIOUS
<1>2. CASE m[n].isUsed \/ n = HeapEnd
  <2>1. a = <<m, low>> BY <1>1, <1>2 DEF PlugForward
  <2>2. a[1] = m /\ a[2] = low BY <2>1
  <2>3. Settled(m, p) BY <1>1, <1>2 DEF Settled
  <2>4. OnlyBefore(m, p) BY <2>3 DEF OnlyBefore, Around
  <2>5. Alike(m, m) BY DEF Alike
  <2>. QED BY <2>2, <2>4, <2>5
<1>3. CASE ~m[n].isUsed /\ n # HeapEnd
  <2>1. n \in In(m) BY <1>1, <1>3, NextIs
  <2>2. p \in Nat /\ n \in Nat /\ p < n /\ low \in Nat /\ low <= p BY <1>1, <2>1, AtIs DEF Free
  <2>3. PICK w : w = Merged(m, p, n) OBVIOUS
  <2>4. a = <<w, low>> BY <1>1, <1>3, <2>2, <2>3 DEF PlugForward
  <2>5. a[1] = w /\ a[2] = low BY <2>4
  <2>6. Row(w) /\ Fused(m, w, p, n) /\ p \in In(w) BY <1>1, <1>3, <2>3, MergedIs
  <2>7. Free(w, low) BY <2>6, FusedFree
  <2>8. Alike(m, w) BY <1>3, <2>6, FusedAlike
  <2>9. ~w[p].isUsed BY <2>6 DEF Fused
  <2>10. ASSUME NEW q, q \in In(w) PROVE Settled(w, q) \/ w[q].next = p
    <3>1. q \in In(m) /\ q \in DOMAIN w /\ q # n BY <2>6, <2>10 DEF In, Fused
    <3>2. w[q].isUsed = m[q].isUsed BY <2>6, <3>1 DEF Fused
    <3>3. w[q].next = HeapEnd \/ w[q].next \in In(w) BY <2>6, <2>10, AtIs DEF In
    <3>4. w[q].next \in In(w) => w[w[q].next].isUsed = m[w[q].next].isUsed BY <2>6 DEF Fused, In
    <3>5. CASE q = p
      <4>1. w[q].next = m[n].next BY <2>6, <3>5 DEF Fused
      <4>2. m[n].next # p BY <2>1, <2>2, AtIs
      <4>3. Settled(m, n) BY <2>1, <2>2, <4>2 DEF Around
      <4>4. m[n].next = HeapEnd \/ m[m[n].next].isUsed BY <1>3, <4>3 DEF Settled
      <4>. QED BY <3>3, <3>4, <4>1, <4>4 DEF Settled
    <3>6. CASE q # p
      <4>1. w[q].next = m[q].next BY <2>6, <3>1, <3>6 DEF Fused
      <4>2. Settled(m, q) \/ m[q].next = p BY <3>1, <3>6 DEF Around
      <4>. QED BY <3>2, <3>3, <3>4, <4>1, <4>2 DEF Settled
    <3>. QED BY <3>5, <3>6
  <2>11. OnlyBefore(w, p) BY <2>10 DEF OnlyBefore
  <2>. QED BY <2>5, <2>6, <2>7, <2>8, <2>9, <2>11
<1>. QED BY <1>2, <1>3

LEMMA BackwardIs ==
    ASSUME NEW m, Row(m), NEW p, p \in In(m), ~m[p].isUsed, OnlyBefore(m, p), NEW low, Free(m, low),
           NEW a, a = PlugBackward(m, low, p)
    PROVE Row(a[1]) /\ Free(a[1], a[2]) /\ Alike(m, a[1]) /\ Compact(a[1])
<1>1. PICK b : b = m[p].prev OBVIOUS
<1>2. p \in Nat /\ p \in DOMAIN m /\ m[p].next \in Nat /\ p < m[p].next BY AtIs
<1>3. p = 0 => b = p BY <1>1 DEF Row
<1>4. p # 0 => b \in In(m) /\ m[b].next = p BY <1>1 DEF Row
<1>5. p # 0 => b \in Nat /\ b < p BY <1>4, AtIs
<1>6. CASE b = p \/ m[b].isUsed
  <2>1. a = <<m, low>> BY <1>1, <1>6 DEF PlugBackward
  <2>2. a[1] = m /\ a[2] = low BY <2>1
  <2>3. ASSUME NEW q, q \in In(m), m[q].next = p PROVE Settled(m, q)
    <3>1. p # 0 BY <2>3, NextIs
    <3>2. q = b BY <1>4, <2>3, <3>1, NextOnce
    <3>3. b # p BY <1>2, <1>5, <3>1
    <3>. QED BY <1>6, <3>2, <3>3 DEF Settled
  <2>4. Compact(m) BY <2>3 DEF OnlyBefore, Compact
  <2>5. Alike(m, m) BY DEF Alike
  <2>. QED BY <2>2, <2>4, <2>5
<1>7. CASE b # p /\ ~m[b].isUsed
  <2>1. b \in In(m) /\ m[b].next = p /\ b \in Nat /\ b < p BY <1>3, <1>4, <1>5, <1>7
  <2>2. low \in Nat /\ low <= b BY <1>7, <2>1 DEF Free
  <2>3. PICK w : w = Merged(m, b, p) OBVIOUS
  <2>4. a = <<w, low>> BY <1>1, <1>2, <1>7, <2>1, <2>2, <2>3 DEF PlugBackward
  <2>5. a[1] = w /\ a[2] = low BY <2>4
  <2>6. p # HeapEnd BY AtIs, Bounds
  <2>7. Row(w) /\ Fused(m, w, b, p) BY <2>1, <2>3, <2>6, MergedIs
  <2>8. Free(w, low) BY <2>7, FusedFree
  <2>9. Alike(m, w) BY <1>7, <2>7, FusedAlike
  <2>10. ASSUME NEW q, q \in In(w) PROVE Settled(w, q)
    <3>1. q \in In(m) /\ q \in DOMAIN w /\ q # p BY <2>7, <2>10 DEF In, Fused
    <3>2. w[q].isUsed = m[q].isUsed BY <2>7, <3>1 DEF Fused
    <3>3. w[q].next = HeapEnd \/ w[q].next \in In(w) BY <2>7, <2>10, AtIs DEF In
    <3>4. w[q].next \in In(w) => w[w[q].next].isUsed = m[w[q].next].isUsed BY <2>7 DEF Fused, In
    <3>5. CASE q = b
      <4>1. w[q].next = m[p].next BY <2>7, <3>5 DEF Fused
      <4>2. m[p].next # p BY <1>2
      <4>3. Settled(m, p) BY <4>2 DEF OnlyBefore
      <4>4. m[p].next = HeapEnd \/ m[m[p].next].isUsed BY <4>3 DEF Settled
      <4>. QED BY <3>3, <3>4, <4>1, <4>4 DEF Settled
    <3>6. CASE q # b
      <4>1. w[q].next = m[q].next BY <2>7, <3>1, <3>6 DEF Fused
      <4>2. m[q].next # p BY <2>1, <3>1, <3>6, NextOnce
      <4>3. Settled(m, q) BY <3>1, <4>2 DEF OnlyBefore
      <4>. QED BY <3>2, <3>3, <3>4, <4>1, <4>3 DEF Settled
    <3>. QED BY <3>5, <3>6
  <2>11. Compact(w) BY <2>10 DEF Compact
  <2>. QED BY <2>5, <2>7, <2>8, <2>9, <2>11
<1>. QED BY <1>6, <1>7

(* A free item whose neighbours may be free too is combined with them.      *)
LEMMA PluggedIs ==
    ASSUME NEW m, Row(m), NEW p, p \in In(m), ~m[p].isUsed, Around(m, p), NEW low, Free(m, low),
           NEW a, a = PlugHoles(m, low, p)
    PROVE Row(a[1]) /\ Free(a[1], a[2]) /\ Alike(m, a[1]) /\ Compact(a[1])
<1>1. PICK f : f = PlugForward(m, low, p) OBVIOUS
<1>2. PICK w : w = f[1] OBVIOUS
<1>3. PICK l : l = f[2] OBVIOUS
<1>4. Row(w) /\ Free(w, l) /\ Alike(m, w) /\ p \in In(w) /\ ~w[p].isUsed /\ OnlyBefore(w, p)
  BY <1>1, <1>2, <1>3, ForwardIs
<1>5. a = PlugBackward(w, l, p) BY <1>1, <1>2, <1>3 DEF PlugHoles
<1>6. Row(a[1]) /\ Free(a[1], a[2]) /\ Alike(w, a[1]) /\ Compact(a[1]) BY <1>4, <1>5, BackwardIs
<1>. QED BY <1>4, <1>6, AlikeTwice

----------------------------------------------------------------------------
(* The bytes used items take.                                               *)
LEMMA BytesIs ==
    ASSUME NEW m, Row(m), NEW x
    PROVE x \in Bytes(m) <=> \E q \in Used(m) : x \in q..m[q].next - 1
BY DEF Bytes, Used, In

LEMMA BytesFinite == ASSUME NEW m, Row(m) PROVE IsFiniteSet(Bytes(m))
<1>1. ASSUME NEW x, x \in Bytes(m) PROVE x \in 0..HeapEnd
  <2>1. PICK q \in Used(m) : x \in q..m[q].next - 1 BY <1>1, BytesIs
  <2>2. q \in In(m) BY DEF Used
  <2>3. q \in Nat /\ m[q].next \in Nat /\ m[q].next <= HeapEnd /\ HeapEnd \in Nat BY <2>2, AtIs, Bounds
  <2>. QED BY <2>1, <2>3
<1>2. Bytes(m) \in SUBSET (0..HeapEnd) BY <1>1
<1>3. IsFiniteSet(0..HeapEnd) BY Bounds, FS_Interval
<1>. QED BY <1>2, <1>3, FS_Subset

LEMMA Disjoint ==
    ASSUME NEW m, Row(m), NEW p, p \in In(m), NEW q, q \in In(m), NEW x,
           x \in p..m[p].next - 1, x \in q..m[q].next - 1
    PROVE p = q
<1>1. p \in Nat /\ q \in Nat /\ m[p].next \in Nat /\ m[q].next \in Nat BY AtIs
<1>2. p < q => m[p].next <= q BY Apart
<1>3. q < p => m[q].next <= p BY Apart
<1>. QED BY <1>1, <1>2, <1>3

LEMMA Interval ==
    ASSUME NEW a \in Nat, NEW b \in Nat, a < b
    PROVE IsFiniteSet(a..b - 1) /\ Cardinality(a..b - 1) = b - a
<1>1. PICK c \in Int : c = b - 1 OBVIOUS
<1>2. IsFiniteSet(a..c) /\ Cardinality(a..c) = IF a > c THEN 0 ELSE c - a + 1 BY FS_Interval
<1>. QED BY <1>1, <1>2

LEMMA AddUp ==
    ASSUME NEW S, IsFiniteSet(S), NEW a \in Nat, NEW b \in Nat, a < b, NEW T, T = S \cup (a..b - 1),
           \A x \in S : x \notin a..b - 1
    PROVE Cardinality(S) \in Nat /\ Cardinality(T) = Cardinality(S) + (b - a)
<1>1. PICK I : I = a..b - 1 OBVIOUS
<1>2. IsFiniteSet(I) /\ Cardinality(I) = b - a BY <1>1, Interval
<1>3. S \cap I = {} BY <1>1
<1>4. Cardinality(T) = Cardinality(S) + Cardinality(I) - Cardinality({}) BY <1>1, <1>2, <1>3, FS_Union
<1>5. Cardinality({}) = 0 BY FS_EmptySet
<1>6. Cardinality(S) \in Nat BY FS_CardinalityType
<1>. QED BY <1>2, <1>4, <1>5, <1>6

LEMMA BytesAlike ==
    ASSUME NEW m, Row(m), NEW w, Row(w), Alike(m, w)
    PROVE Bytes(w) = Bytes(m)
<1>1. \A x : x \in Bytes(w) <=> x \in Bytes(m) BY BytesIs DEF Alike
<1>. QED BY <1>1

(* One more item is used.                                                   *)
OneMore(m, w, p) ==
    /\ p \notin Used(m) /\ Used(w) = Used(m) \cup {p} /\ \A q \in Used(m) : w[q].next = m[q].next
LEMMA BytesMore ==
    ASSUME NEW m, Row(m), NEW w, Row(w), NEW p, OneMore(m, w, p)
    PROVE /\ Cardinality(Bytes(m)) \in Nat
          /\ Cardinality(Bytes(w)) = Cardinality(Bytes(m)) + (w[p].next - p)
<1>1. p \in In(w) /\ p \in Used(w) BY DEF OneMore, Used
<1>2. p \in Nat /\ w[p].next \in Nat /\ p < w[p].next BY <1>1, AtIs
<1>3. PICK e \in Nat : e = w[p].next BY <1>2
<1>4. ASSUME NEW x PROVE x \in Bytes(w) <=> x \in Bytes(m) \/ x \in p..e - 1
  <2>1. x \in Bytes(w) <=> \E q \in Used(w) : x \in q..w[q].next - 1 BY BytesIs
  <2>2. x \in Bytes(m) <=> \E q \in Used(m) : x \in q..m[q].next - 1 BY BytesIs
  <2>. QED BY <1>1, <1>3, <2>1, <2>2 DEF OneMore
<1>5. Bytes(w) = Bytes(m) \cup (p..e - 1) BY <1>4
<1>6. ASSUME NEW x, x \in Bytes(m) PROVE x \notin p..e - 1
  <2>1. PICK q \in Used(m) : x \in q..m[q].next - 1 BY <1>6, BytesIs
  <2>2. q \in In(w) /\ q # p /\ x \in q..w[q].next - 1 BY <2>1 DEF OneMore, Used
  <2>3. x \in p..w[p].next - 1 => p = q BY <1>1, <2>2, Disjoint
  <2>. QED BY <1>3, <2>2, <2>3
<1>7. IsFiniteSet(Bytes(m)) BY BytesFinite
<1>. QED BY <1>2, <1>3, <1>5, <1>6, <1>7, AddUp

(* An item that is used ends earlier.                                       *)
Shorter(m, w, p) ==
    /\ p \in Used(m) /\ Used(w) = Used(m) /\ p < w[p].next /\ w[p].next < m[p].next
    /\ \A q \in Used(m) : q # p => w[q].next = m[q].next
LEMMA BytesLess ==
    ASSUME NEW m, Row(m), NEW w, Row(w), NEW p, Shorter(m, w, p)
    PROVE /\ Cardinality(Bytes(w)) \in Nat
          /\ Cardinality(Bytes(m)) = Cardinality(Bytes(w)) + (m[p].next - w[p].next)
<1>1. p \in In(m) /\ p \in In(w) /\ p \in Used(w) BY DEF Shorter, Used
<1>2. p \in Nat /\ w[p].next \in Nat /\ m[p].next \in Nat /\ p < w[p].next /\ w[p].next < m[p].next
  BY <1>1, AtIs DEF Shorter
<1>3. PICK r \in Nat, e \in Nat : r = w[p].next /\ e = m[p].next BY <1>2
<1>4. ASSUME NEW x PROVE x \in Bytes(m) <=> x \in Bytes(w) \/ x \in r..e - 1
  <2>1. x \in Bytes(w) <=> \E q \in Used(w) : x \in q..w[q].next - 1 BY BytesIs
  <2>2. x \in Bytes(m) <=> \E q \in Used(m) : x \in q..m[q].next - 1 BY BytesIs
  <2>3. x \in p..e - 1 <=> x \in p..r - 1 \/ x \in r..e - 1 BY <1>2, <1>3
  <2>. QED BY <1>1, <1>3, <2>1, <2>2, <2>3 DEF Shorter
<1>5. Bytes(m) = Bytes(w) \cup (r..e - 1) BY <1>4
<1>6. ASSUME NEW x, x \in Bytes(w) PROVE x \notin r..e - 1
  <2>1. PICK q \in Used(w) : x \in q..w[q].next - 1 BY <1>6, BytesIs
  <2>2. CASE q = p BY <1>2, <1>3, <2>1, <2>2
  <2>3. CASE q # p
    <3>1. q \in In(m) /\ x \in q..m[q].next - 1 BY <2>1, <2>3 DEF Shorter, Used
    <3>2. x \in p..m[p].next - 1 => p = q BY <1>1, <3>1, Disjoint
    <3>. QED BY <1>2, <1>3, <2>3, <3>2
  <2>. QED BY <2>2, <2>3
<1>7. IsFiniteSet(Bytes(w)) BY BytesFinite
<1>. QED BY <1>2, <1>3, <1>5, <1>6, <1>7, AddUp

----------------------------------------------------------------------------
(* The invariant: the row of items, the free ones, those callers hold, and  *)
(* the count of bytes.                                                      *)
Holds(m, h) ==
    /\ DOMAIN h = Used(m)
    /\ \A p \in DOMAIN h : h[p] \in Nat /\ Room(m, p) >= h[p]
Heap(m, low, u, h) == Row(m) /\ Free(m, low) /\ Compact(m) /\ Holds(m, h) /\ u = Cardinality(Bytes(m))
HeapInv == Heap(items, lfree, used, held)

LEMMA HoldsAlike ==
    ASSUME NEW m, NEW w, Alike(m, w), NEW h, Holds(m, h)
    PROVE Holds(w, h)
BY DEF Alike, Holds, Room

(* rt_smem_free.                                                            *)
LEMMA MarkedFree ==
    ASSUME NEW m, Row(m), NEW p, p \in In(m), m[p].isUsed, NEW w, Row(w), Marked(m, w, p, FALSE)
    PROVE OneMore(w, m, p) /\ (Compact(m) => Around(w, p))
<1>1. p \in DOMAIN m /\ In(w) = In(m) BY AtIs DEF Marked, In
<1>2. p \notin Used(w) /\ Used(m) = Used(w) \cup {p} BY <1>1 DEF Used, Marked, In
<1>3. \A q \in Used(w) : m[q].next = w[q].next BY <1>1 DEF Used, Marked, In
<1>4. ASSUME Compact(m), NEW q, q \in In(w), q # p, w[q].next # p PROVE Settled(w, q)
  <2>1. Settled(m, q) BY <1>1, <1>4 DEF Compact
  <2>2. q \in DOMAIN m /\ m[q].next \in DOMAIN m BY <1>1, <1>4, AtIs
  <2>. QED BY <1>4, <2>1, <2>2 DEF Settled, Marked
<1>. QED BY <1>2, <1>3, <1>4 DEF OneMore, Around

LEMMA ReleasedIs ==
    ASSUME NEW a, NEW h, Heap(a.items, a.lfree, a.used, h), NEW p, p \in DOMAIN h,
           NEW b, b = Released(a, p), NEW g, g = Dropped(h, p)
    PROVE Heap(b.items, b.lfree, b.used, g)
<1>1. PICK i : i = a.items OBVIOUS
<1>2. Row(i) /\ Free(i, a.lfree) /\ Compact(i) /\ Holds(i, h) /\ a.used = Cardinality(Bytes(i)) BY <1>1 DEF Heap
<1>3. p \in In(i) /\ i[p].isUsed BY <1>2 DEF Holds, Used
<1>4. PICK m : m = [i EXCEPT ![p].isUsed = FALSE] OBVIOUS
<1>5. Row(m) /\ Marked(i, m, p, FALSE) BY <1>2, <1>3, <1>4, MarkIs
<1>6. OneMore(m, i, p) /\ Around(m, p) BY <1>2, <1>3, <1>5, MarkedFree
<1>7. In(m) = In(i) /\ p \in In(m) /\ ~m[p].isUsed /\ m[p].next = i[p].next /\ p \in Nat /\ i[p].next \in Nat
  BY <1>2, <1>3, <1>5, AtIs DEF Marked, In
<1>8. PICK l : l = IF p < a.lfree THEN p ELSE a.lfree OBVIOUS
<1>9. Free(m, l)
  <2>1. \A q \in In(m) : q \in Nat /\ (q # p => m[q].isUsed = i[q].isUsed) BY <1>2, <1>5, <1>7, AtIs DEF Marked
  <2>. QED BY <1>2, <1>7, <1>8, <2>1 DEF Free
<1>10. PICK c : c = PlugHoles(m, l, p) OBVIOUS
<1>11. Row(c[1]) /\ Free(c[1], c[2]) /\ Alike(m, c[1]) /\ Compact(c[1])
  BY <1>5, <1>6, <1>7, <1>9, <1>10, PluggedIs
<1>12. b.items = c[1] /\ b.lfree = c[2] /\ b.used = a.used - (m[p].next - p)
  BY <1>1, <1>4, <1>8, <1>10 DEF Released
<1>13. /\ Cardinality(Bytes(m)) \in Nat
       /\ Cardinality(Bytes(i)) = Cardinality(Bytes(m)) + (i[p].next - p)
  BY <1>2, <1>5, <1>6, BytesMore
<1>14. Bytes(c[1]) = Bytes(m) BY <1>5, <1>11, BytesAlike
<1>15. b.used = Cardinality(Bytes(c[1])) BY <1>2, <1>7, <1>12, <1>13, <1>14
<1>16. Holds(m, g)
  <2>1. DOMAIN g = DOMAIN h \ {p} /\ \A q \in DOMAIN g : g[q] = h[q] BY DEF Dropped
  <2>2. DOMAIN g = Used(m) BY <1>2, <1>6, <2>1 DEF Holds, OneMore
  <2>3. \A q \in DOMAIN g : g[q] \in Nat /\ Room(m, q) >= g[q]
    BY <1>2, <1>6, <2>1, <2>2 DEF Holds, OneMore, Room
  <2>. QED BY <2>2, <2>3 DEF Holds
<1>17. Holds(c[1], g) BY <1>11, <1>16, HoldsAlike
<1>. QED BY <1>11, <1>12, <1>15, <1>17 DEF Heap

(* rt_smem_alloc.                                                           *)
LEMMA NextFreeIs ==
    ASSUME NEW m, Row(m), NEW p, p \in In(m), \A q \in In(m) : ~m[q].isUsed => p <= q
    PROVE Free(m, NextFree(m, p))
<1>1. PICK S : S = {q \in DOMAIN m : q >= p /\ (q = HeapEnd \/ ~m[q].isUsed)} OBVIOUS
<1>2. p \in Nat /\ HeapEnd \in Nat /\ p < HeapEnd /\ HeapEnd \in DOMAIN m BY AtIs, Bounds DEF Row
<1>3. S \in SUBSET Nat BY <1>1, <1>2 DEF Row
<1>4. HeapEnd \in S BY <1>1, <1>2
<1>5. Min(S) \in S /\ \A q \in S : Min(S) <= q BY <1>3, <1>4, LeastIs
<1>6. NextFree(m, p) = Min(S) BY <1>1 DEF NextFree
<1>7. ASSUME NEW q, q \in In(m), ~m[q].isUsed PROVE q \in S
  <2>1. q \in DOMAIN m /\ q \in Nat /\ p <= q BY <1>7, AtIs
  <2>. QED BY <1>1, <1>2, <1>7, <2>1
<1>. QED BY <1>3, <1>5, <1>6, <1>7 DEF Free

(* An item that was free, or a part of it, is used.                         *)
LEMMA MarkedUsed ==
    ASSUME NEW m, Row(m), NEW p, p \in In(m), ~m[p].isUsed, NEW w, Row(w), Marked(m, w, p, TRUE)
    PROVE /\ OneMore(m, w, p) /\ In(w) = In(m)
          /\ \A q \in In(m) : Settled(m, q) \/ q = p \/ m[q].next = p => Settled(w, q)
<1>1. p \in DOMAIN m /\ In(w) = In(m) BY AtIs DEF Marked, In
<1>2. p \notin Used(m) /\ Used(w) = Used(m) \cup {p} BY <1>1 DEF Used, Marked, In
<1>3. \A q \in Used(m) : w[q].next = m[q].next BY <1>1 DEF Used, Marked, In
<1>4. ASSUME NEW q, q \in In(m), Settled(m, q) \/ q = p \/ m[q].next = p PROVE Settled(w, q)
  <2>1. q \in DOMAIN m /\ m[q].next \in DOMAIN m BY <1>4, AtIs
  <2>. QED BY <1>4, <2>1 DEF Settled, Marked
<1>. QED BY <1>1, <1>2, <1>3, <1>4 DEF OneMore

(* What an item that is split off leaves free.                              *)
LEMMA HalvedIs ==
    ASSUME NEW m, Row(m), NEW p, p \in In(m), NEW w, Row(w), NEW r, r \in In(w), Halved(m, w, p, r)
    PROVE /\ In(w) = In(m) \cup {r} /\ r \notin In(m) /\ Used(w) = Used(m)
          /\ \A low : Free(m, low) /\ (~m[p].isUsed \/ low <= r) => Free(w, low)
          /\ Compact(m) => \A q \in In(w) : \/ Settled(w, q) \/ q = p \/ w[q].next = p
                                            \/ q = r /\ m[p].isUsed
<1>1. DOMAIN w = DOMAIN m \cup {r} /\ r \notin DOMAIN m /\ r # HeapEnd BY DEF Halved, In
<1>2. In(w) = In(m) \cup {r} /\ r \notin In(m) BY <1>1 DEF In
<1>3. \A q \in DOMAIN m : w[q].isUsed = m[q].isUsed BY DEF Halved
<1>4. \A q \in In(m) : q \in DOMAIN m /\ q \in Nat /\ m[q].next \in DOMAIN m BY AtIs
<1>5. w[r].isUsed = FALSE /\ p < r /\ w[r].next = m[p].next BY DEF Halved
<1>6. Used(w) = Used(m) BY <1>2, <1>3, <1>4, <1>5 DEF Used
<1>7. r \in Nat BY AtIs
<1>8. ASSUME NEW low, Free(m, low), ~m[p].isUsed \/ low <= r PROVE Free(w, low)
  <2>1. p \in Nat BY AtIs
  <2>2. low \in Nat /\ (~m[p].isUsed => low <= p) BY <1>8 DEF Free
  <2>3. low <= r BY <1>5, <1>7, <1>8, <2>1, <2>2
  <2>. QED BY <1>2, <1>3, <1>4, <1>8, <2>2, <2>3 DEF Free
<1>9. ASSUME Compact(m), NEW q, q \in In(w), q # p, w[q].next # p, q # r \/ ~m[p].isUsed PROVE Settled(w, q)
  <2>1. CASE q = r
    <3>1. Settled(m, p) /\ ~m[p].isUsed BY <1>9, <2>1 DEF Compact
    <3>2. m[p].next \in DOMAIN m BY <1>4
    <3>. QED BY <1>3, <1>5, <2>1, <3>1, <3>2 DEF Settled
  <2>2. CASE q # r
    <3>1. q \in In(m) BY <1>2, <1>9, <2>2
    <3>2. Settled(m, q) BY <1>9, <3>1 DEF Compact
    <3>3. w[q].next = m[q].next BY <1>4, <1>9, <3>1 DEF Halved
    <3>. QED BY <1>3, <1>4, <3>1, <3>2, <3>3 DEF Settled
  <2>. QED BY <2>1, <2>2
<1>. QED BY <1>2, <1>6, <1>8, <1>9

(* Item p, all of it or its first n bytes, goes to the caller.              *)
Readied(m, s, p, n, low) ==
    /\ Row(s) /\ p \in In(s) /\ ~s[p].isUsed /\ Alike(m, s) /\ Free(s, low)
    /\ s[p].next - p - Struct >= n
    /\ \A q \in In(s) : Settled(s, q) \/ q = p \/ s[q].next = p

LEMMA ReadiedIs ==
    ASSUME NEW m, Row(m), Compact(m), NEW p, p \in In(m), ~m[p].isUsed, NEW n \in Nat, n >= 1,
           Room(m, p) >= n, NEW low, Free(m, low),
           NEW s, s = IF Room(m, p) >= n + Struct + MinAligned THEN Split(m, p, n) ELSE m
    PROVE Readied(m, s, p, n, low)
<1>1. p \in Nat /\ p \in DOMAIN m /\ m[p].next \in Nat BY AtIs
<1>2. Struct \in Nat /\ Struct >= 1 /\ MinAligned \in Nat /\ MinAligned >= 1 BY Bounds
<1>3. Room(m, p) = m[p].next - p - Struct BY DEF Room
<1>4. CASE Room(m, p) >= n + Struct + MinAligned
  <2>1. PICK r \in Nat : r = p + Struct + n BY <1>1, <1>2
  <2>2. r < m[p].next BY <1>1, <1>2, <1>3, <1>4, <2>1
  <2>3. s = Split(m, p, n) BY <1>4
  <2>4. Row(s) /\ Halved(m, s, p, r) /\ r \in In(s) /\ p \in In(s) BY <2>1, <2>2, <2>3, SplitIs
  <2>5. /\ Used(s) = Used(m) /\ Free(s, low)
        /\ \A q \in In(s) : Settled(s, q) \/ q = p \/ s[q].next = p
    BY <2>4, HalvedIs
  <2>6. s[p].next = r /\ ~s[p].isUsed BY <1>1, <2>4 DEF Halved
  <2>7. Alike(m, s) BY <2>4, <2>5 DEF Alike, Halved, Used, In
  <2>8. s[p].next - p - Struct >= n BY <1>1, <1>2, <2>1, <2>6
  <2>. QED BY <2>4, <2>5, <2>6, <2>7, <2>8 DEF Readied
<1>5. CASE ~(Room(m, p) >= n + Struct + MinAligned)
  <2>1. s = m BY <1>5
  <2>2. Alike(m, m) BY DEF Alike
  <2>. QED BY <1>3, <2>1, <2>2 DEF Readied, Compact
<1>. QED BY <1>4, <1>5

LEMMA AllocatedIs ==
    ASSUME HeapInv, NEW p, p \in In(items), ~items[p].isUsed, NEW n \in Nat, n >= 1, Room(items, p) >= n,
           NEW a, a = Allocated(p, n), NEW asked \in Nat, asked <= n, NEW h, h = With(held, p, asked)
    PROVE a.at = p /\ Heap(a.items, a.lfree, a.used, h)
<1>1. /\ Row(items) /\ Free(items, lfree) /\ Compact(items) /\ Holds(items, held)
      /\ used = Cardinality(Bytes(items))
  BY DEF HeapInv, Heap
<1>2. PICK s : s = IF Room(items, p) >= n + Struct + MinAligned THEN Split(items, p, n) ELSE items OBVIOUS
<1>3. Readied(items, s, p, n, lfree) BY <1>1, <1>2, ReadiedIs
<1>4. /\ Row(s) /\ p \in In(s) /\ ~s[p].isUsed /\ Alike(items, s) /\ Free(s, lfree)
      /\ s[p].next - p - Struct >= n
      /\ \A q \in In(s) : Settled(s, q) \/ q = p \/ s[q].next = p
  BY <1>3 DEF Readied
<1>5. PICK m : m = [s EXCEPT ![p].isUsed = TRUE] OBVIOUS
<1>6. Row(m) /\ Marked(s, m, p, TRUE) BY <1>4, <1>5, MarkIs
<1>7. /\ OneMore(s, m, p) /\ In(m) = In(s)
      /\ \A q \in In(s) : Settled(s, q) \/ q = p \/ s[q].next = p => Settled(m, q)
  BY <1>4, <1>6, MarkedUsed
<1>8. Compact(m) BY <1>4, <1>7 DEF Compact
<1>9. p \in DOMAIN s /\ m[p].next = s[p].next /\ p \in Nat /\ s[p].next \in Nat BY <1>4, <1>6, AtIs DEF Marked
<1>10. \A q \in In(m) : q \in DOMAIN s /\ (~m[q].isUsed => ~s[q].isUsed) BY <1>6, <1>7, <1>4 DEF Marked, In
<1>11. /\ a.at = p /\ a.items = m /\ a.lfree = (IF p = lfree THEN NextFree(m, p) ELSE lfree)
       /\ a.used = used + m[p].next - p
  BY <1>2, <1>5 DEF Allocated
<1>12. Free(m, lfree) BY <1>4, <1>7, <1>10 DEF Free
<1>13. Free(m, a.lfree)
  <2>1. CASE p = lfree
    <3>1. \A q \in In(m) : ~m[q].isUsed => p <= q BY <1>12, <2>1 DEF Free
    <3>2. Free(m, NextFree(m, p)) BY <1>4, <1>6, <1>7, <3>1, NextFreeIs
    <3>. QED BY <1>11, <2>1, <3>2
  <2>2. CASE p # lfree BY <1>11, <1>12, <2>2
  <2>. QED BY <2>1, <2>2
<1>14. Bytes(s) = Bytes(items) BY <1>1, <1>4, BytesAlike
<1>15. /\ Cardinality(Bytes(s)) \in Nat
       /\ Cardinality(Bytes(m)) = Cardinality(Bytes(s)) + (m[p].next - p)
  BY <1>4, <1>6, <1>7, BytesMore
<1>16. a.used = Cardinality(Bytes(m)) BY <1>1, <1>9, <1>11, <1>14, <1>15
<1>17. Holds(s, held) BY <1>1, <1>4, HoldsAlike
<1>18. Holds(m, h)
  <2>1. DOMAIN h = DOMAIN held \cup {p} /\ h[p] = asked /\ \A q \in DOMAIN held : q # p => h[q] = held[q]
    BY DEF With
  <2>2. DOMAIN h = Used(m) BY <1>7, <1>17, <2>1 DEF Holds, OneMore
  <2>3. Room(m, p) >= asked
    <3>1. Room(m, p) = s[p].next - p - Struct BY <1>9 DEF Room
    <3>. QED BY <1>4, <1>9, <3>1, Bounds
  <2>4. ASSUME NEW q, q \in DOMAIN h, q # p PROVE h[q] \in Nat /\ Room(m, q) >= h[q]
    <3>1. q \in DOMAIN held /\ q \in Used(s) BY <1>17, <2>1, <2>4 DEF Holds
    <3>2. Room(m, q) = Room(s, q) BY <1>7, <3>1 DEF OneMore, Room
    <3>. QED BY <1>17, <2>1, <2>4, <3>1, <3>2 DEF Holds
  <2>. QED BY <2>1, <2>2, <2>3, <2>4 DEF Holds
<1>. QED BY <1>6, <1>8, <1>11, <1>13, <1>16, <1>18 DEF Heap

LEMMA FittingIs ==
    ASSUME HeapInv, NEW n \in Nat, n >= 1, Fitting(n) # {}
    PROVE /\ Min(Fitting(n)) \in In(items) /\ Min(Fitting(n)) \in Nat
          /\ ~items[Min(Fitting(n))].isUsed /\ Room(items, Min(Fitting(n))) >= n
<1>1. Row(items) BY DEF HeapInv, Heap
<1>2. PICK S : S = Fitting(n) OBVIOUS
<1>3. S \in SUBSET Nat BY <1>1, <1>2, Bounds DEF Fitting, Row
<1>4. Min(S) \in S BY <1>2, <1>3, LeastIs
<1>5. \A q \in S : q \in DOMAIN items /\ ~items[q].isUsed /\ Room(items, q) >= n BY <1>2 DEF Fitting
<1>6. items[HeapEnd].isUsed BY <1>1 DEF Row
<1>. QED BY <1>2, <1>3, <1>4, <1>5, <1>6 DEF In

LEMMA FirstFitIs ==
    ASSUME HeapInv, NEW n \in Nat, NEW a, a = FirstFit(n), a.at # -1,
           NEW asked \in Nat, asked <= n, NEW h, h = With(held, a.at, asked)
    PROVE a.at \in In(items) /\ ~items[a.at].isUsed /\ Heap(a.items, a.lfree, a.used, h)
<1>1. PICK need : need = Rounded(n) OBVIOUS
<1>2. need \in Nat /\ need >= n /\ need >= 1 BY <1>1, RoundedIs
<1>3. n # 0 /\ Fitting(need) # {} BY <1>1 DEF FirstFit
<1>4. PICK p : p = Min(Fitting(need)) OBVIOUS
<1>5. p \in In(items) /\ ~items[p].isUsed /\ Room(items, p) >= need BY <1>2, <1>3, <1>4, FittingIs
<1>6. a = Allocated(p, need) BY <1>1, <1>3, <1>4 DEF FirstFit
<1>7. a.at = p BY <1>6 DEF Allocated
<1>8. asked <= need /\ h = With(held, p, asked) BY <1>2, <1>7
<1>9. Heap(a.items, a.lfree, a.used, h) BY <1>2, <1>5, <1>6, <1>8, AllocatedIs
<1>. QED BY <1>5, <1>7, <1>9

LEMMA NoFit ==
    ASSUME HeapInv, NEW n \in Nat, NEW a, a = FirstFit(n), a.at = -1
    PROVE /\ a.items = items /\ a.lfree = lfree /\ a.used = used
          /\ n = 0 \/ Fitting(Rounded(n)) = {}
<1>1. PICK need : need = Rounded(n) OBVIOUS
<1>2. need \in Nat /\ need >= 1 BY <1>1, RoundedIs
<1>3. CASE n = 0 \/ Fitting(need) = {}
  <2>1. a = [at |-> -1, items |-> items, lfree |-> lfree, used |-> used] BY <1>1, <1>3 DEF FirstFit
  <2>. QED BY <1>1, <1>3, <2>1
<1>4. CASE n # 0 /\ Fitting(need) # {}
  <2>1. Min(Fitting(need)) \in Nat BY <1>2, <1>4, FittingIs
  <2>2. a = Allocated(Min(Fitting(need)), need) BY <1>1, <1>4 DEF FirstFit
  <2>3. a.at = Min(Fitting(need)) BY <2>2 DEF Allocated
  <2>. QED BY <2>1, <2>3
<1>. QED BY <1>3, <1>4

(* rt_smem_realloc makes an item shorter.                                   *)
LEMMA ShrunkIs ==
    ASSUME NEW m, NEW low, NEW u, NEW h, Heap(m, low, u, h), NEW p, p \in DOMAIN h,
           NEW n \in Nat, n >= 1, n + Struct + MinSize < Room(m, p),
           NEW r, r = p + Struct + n, NEW s, s = Split(m, p, n),
           NEW c, c = PlugHoles(s, IF r < low THEN r ELSE low, r), NEW v, v = u - (Room(m, p) - n),
           NEW asked \in Nat, asked <= n, NEW g, g = [h EXCEPT ![p] = asked]
    PROVE Heap(c[1], c[2], v, g)
<1>1. Row(m) /\ Free(m, low) /\ Compact(m) /\ Holds(m, h) /\ u = Cardinality(Bytes(m)) BY DEF Heap
<1>2. p \in Used(m) /\ p \in In(m) /\ m[p].isUsed BY <1>1 DEF Holds, Used
<1>3. p \in Nat /\ p \in DOMAIN m /\ m[p].next \in Nat BY <1>1, <1>2, AtIs
<1>4. Struct \in Nat /\ MinSize \in Nat /\ Struct >= 1 BY Bounds
<1>5. Room(m, p) = m[p].next - p - Struct BY DEF Room
<1>6. r \in Nat /\ p < r /\ r < m[p].next BY <1>3, <1>4, <1>5
<1>7. Row(s) /\ Halved(m, s, p, r) /\ r \in In(s) /\ p \in In(s) BY <1>1, <1>2, <1>6, SplitIs
<1>8. PICK l : l = IF r < low THEN r ELSE low OBVIOUS
<1>9. low \in Nat /\ l \in Nat /\ l <= r /\ l <= low BY <1>1, <1>6, <1>8 DEF Free
<1>10. \A q \in In(m) : q \in Nat BY <1>1, AtIs
<1>11. Free(m, l) BY <1>1, <1>9, <1>10 DEF Free
<1>12. /\ Used(s) = Used(m) /\ Free(s, l)
       /\ \A q \in In(s) : Settled(s, q) \/ q = p \/ s[q].next = p \/ q = r
  BY <1>1, <1>2, <1>7, <1>9, <1>11, HalvedIs
<1>13. s[p].next = r /\ s[p].isUsed /\ ~s[r].isUsed BY <1>2, <1>3, <1>7 DEF Halved
<1>14. ASSUME NEW q, q \in In(s) PROVE Settled(s, q) \/ q = r \/ s[q].next = r
  <2>1. s[q].next = p => Settled(s, q) BY <1>13 DEF Settled
  <2>. QED BY <1>12, <1>13, <1>14, <2>1
<1>15. Around(s, r) BY <1>14 DEF Around
<1>16. c = PlugHoles(s, l, r) BY <1>8
<1>17. Row(c[1]) /\ Free(c[1], c[2]) /\ Alike(s, c[1]) /\ Compact(c[1])
  BY <1>7, <1>12, <1>13, <1>15, <1>16, PluggedIs
<1>18. \A q \in Used(m) : q \in DOMAIN m /\ (q # p => s[q].next = m[q].next) BY <1>7 DEF Used, In, Halved
<1>19. Shorter(m, s, p) BY <1>2, <1>6, <1>12, <1>13, <1>18 DEF Shorter
<1>20. /\ Cardinality(Bytes(s)) \in Nat
       /\ Cardinality(Bytes(m)) = Cardinality(Bytes(s)) + (m[p].next - s[p].next)
  BY <1>1, <1>7, <1>19, BytesLess
<1>21. Bytes(c[1]) = Bytes(s) BY <1>7, <1>17, BytesAlike
<1>22. v = Cardinality(Bytes(c[1])) BY <1>1, <1>3, <1>4, <1>5, <1>13, <1>20, <1>21
<1>23. Holds(s, g)
  <2>1. DOMAIN g = DOMAIN h /\ g[p] = asked /\ \A q \in DOMAIN h : q # p => g[q] = h[q] OBVIOUS
  <2>2. DOMAIN g = Used(s) BY <1>1, <1>12, <2>1 DEF Holds
  <2>3. Room(s, p) >= asked
    <3>1. Room(s, p) = r - p - Struct BY <1>13 DEF Room
    <3>. QED BY <1>3, <1>4, <3>1
  <2>4. ASSUME NEW q, q \in DOMAIN g, q # p PROVE g[q] \in Nat /\ Room(s, q) >= g[q]
    <3>1. q \in DOMAIN h /\ q \in Used(m) BY <1>1, <2>1, <2>4 DEF Holds
    <3>2. Room(s, q) = Room(m, q) BY <1>18, <2>4, <3>1 DEF Room
    <3>. QED BY <1>1, <2>1, <2>4, <3>1, <3>2 DEF Holds
  <2>. QED BY <2>1, <2>2, <2>3, <2>4 DEF Holds
<1>24. Holds(c[1], g) BY <1>17, <1>23, HoldsAlike
<1>. QED BY <1>17, <1>22, <1>24 DEF Heap

----------------------------------------------------------------------------
(* The operations.                                                          *)
LEMMA HeldIs ==
    ASSUME HeapInv, NEW p, p \in DOMAIN held
    PROVE p \in In(items) /\ items[p].isUsed /\ held[p] \in Nat /\ Room(items, p) >= held[p]
BY DEF HeapInv, Heap, Holds, Used

LEMMA MallocKeeps == ASSUME HeapInv, NEW n \in Nat, Malloc(n) PROVE HeapInv'
<1>1. PICK a : a = FirstFit(n) OBVIOUS
<1>2. /\ items' = a.items /\ lfree' = a.lfree /\ used' = a.used
      /\ held' = IF a.at = -1 THEN held ELSE With(held, a.at, n)
  BY <1>1 DEF Malloc, Becomes
<1>3. CASE a.at = -1
  <2>1. items' = items /\ lfree' = lfree /\ used' = used /\ held' = held BY <1>1, <1>2, <1>3, NoFit
  <2>. QED BY <2>1 DEF HeapInv
<1>4. CASE a.at # -1
  <2>1. PICK h : h = With(held, a.at, n) OBVIOUS
  <2>2. Heap(a.items, a.lfree, a.used, h) BY <1>1, <1>4, <2>1, FirstFitIs
  <2>. QED BY <1>2, <1>4, <2>1, <2>2 DEF HeapInv
<1>. QED BY <1>3, <1>4

LEMMA FreeKeeps == ASSUME HeapInv, NEW p, HeapFree(p) PROVE HeapInv'
<1>1. p \in DOMAIN held BY DEF HeapFree
<1>2. PICK a : a = [items |-> items, lfree |-> lfree, used |-> used] OBVIOUS
<1>3. PICK b : b = Released(a, p) OBVIOUS
<1>4. PICK g : g = Dropped(held, p) OBVIOUS
<1>5. Heap(a.items, a.lfree, a.used, held) BY <1>2 DEF HeapInv
<1>6. Heap(b.items, b.lfree, b.used, g) BY <1>1, <1>3, <1>4, <1>5, ReleasedIs
<1>7. items' = b.items /\ lfree' = b.lfree /\ used' = b.used /\ held' = g
  BY <1>2, <1>3, <1>4 DEF HeapFree, Becomes
<1>. QED BY <1>6, <1>7 DEF HeapInv

(* The old item goes when the new one is there.                             *)
LEMMA MoveKeeps ==
    ASSUME HeapInv, NEW p, p \in DOMAIN held, NEW n \in Nat, NEW asked \in Nat, asked <= n, Move(p, n, asked)
    PROVE HeapInv'
<1>1. PICK a : a = FirstFit(n) OBVIOUS
<1>2. CASE a.at = -1 BY <1>1, <1>2 DEF Move, heapVars, HeapInv
<1>3. CASE a.at # -1
  <2>1. PICK h : h = With(held, a.at, asked) OBVIOUS
  <2>2. a.at \in In(items) /\ ~items[a.at].isUsed /\ Heap(a.items, a.lfree, a.used, h)
    BY <1>1, <1>3, <2>1, FirstFitIs
  <2>3. p # a.at BY <2>2, HeldIs
  <2>4. p \in DOMAIN h BY <2>1 DEF With
  <2>5. PICK b : b = Released(a, p) OBVIOUS
  <2>6. PICK g : g = Dropped(h, p) OBVIOUS
  <2>7. Heap(b.items, b.lfree, b.used, g) BY <2>2, <2>4, <2>5, <2>6, ReleasedIs
  <2>8. g = With(Dropped(held, p), a.at, asked) BY <2>1, <2>3, <2>6 DEF With, Dropped
  <2>9. items' = b.items /\ lfree' = b.lfree /\ used' = b.used /\ held' = g
    BY <1>1, <1>3, <2>5, <2>8 DEF Move, Becomes
  <2>. QED BY <2>7, <2>9 DEF HeapInv
<1>. QED BY <1>2, <1>3

LEMMA ReallocKeeps == ASSUME HeapInv, NEW p, NEW asked \in Nat, Realloc(p, asked) PROVE HeapInv'
<1>1. PICK n : n = AlignUp(asked) OBVIOUS
<1>2. n \in Nat /\ asked <= n BY <1>1, RoundsUp
<1>3. p \in DOMAIN held /\ n >= 1 /\ n \in 1..HeapSize BY <1>1, <1>2 DEF Realloc
<1>4. CASE Room(items, p) = n /\ held' = [held EXCEPT ![p] = asked] /\ UNCHANGED <<items, lfree, used>>
  <2>1. /\ DOMAIN held' = DOMAIN held /\ held'[p] = asked
        /\ \A q \in DOMAIN held : q # p => held'[q] = held[q]
    BY <1>3, <1>4
  <2>2. Holds(items, held) BY DEF HeapInv, Heap
  <2>3. Room(items, p) >= asked BY <1>2, <1>4
  <2>4. Holds(items, held') BY <2>1, <2>2, <2>3 DEF Holds
  <2>. QED BY <1>4, <2>4 DEF HeapInv, Heap
<1>5. CASE n + Struct + MinSize < Room(items, p) /\ Shrink(p, n) /\ held' = [held EXCEPT ![p] = asked]
  <2>1. PICK r : r = p + Struct + n OBVIOUS
  <2>2. PICK s : s = Split(items, p, n) OBVIOUS
  <2>3. PICK c : c = PlugHoles(s, IF r < lfree THEN r ELSE lfree, r) OBVIOUS
  <2>4. PICK v : v = used - (Room(items, p) - n) OBVIOUS
  <2>5. PICK g : g = [held EXCEPT ![p] = asked] OBVIOUS
  <2>6. Heap(items, lfree, used, held) BY DEF HeapInv
  <2>7. n + Struct + MinSize < Room(items, p) BY <1>5
  <2>8. Heap(c[1], c[2], v, g) BY <1>2, <1>3, <2>1, <2>2, <2>3, <2>4, <2>5, <2>6, <2>7, ShrunkIs
  <2>9. items' = c[1] /\ lfree' = c[2] /\ used' = v BY <1>5, <2>1, <2>2, <2>3, <2>4 DEF Shrink, Becomes
  <2>10. held' = g BY <1>5, <2>5
  <2>. QED BY <2>8, <2>9, <2>10 DEF HeapInv
<1>6. CASE Move(p, n, asked) BY <1>2, <1>3, <1>6, MoveKeeps
<1>. QED BY <1>1, <1>4, <1>5, <1>6 DEF Realloc

LEMMA HeapStarts == ASSUME HeapInit PROVE HeapInv
<1>1. HeapEnd \in Nat /\ HeapEnd >= 1 BY Bounds
<1>2. /\ items = [p \in {0, HeapEnd} |-> IF p = 0 THEN Item(FALSE, HeapEnd, 0) ELSE Item(TRUE, HeapEnd, HeapEnd)]
      /\ lfree = 0 /\ used = 0 /\ held = <<>>
  BY DEF HeapInit
<1>3. PICK e \in Items, f \in Items : e = Item(FALSE, HeapEnd, 0) /\ f = Item(TRUE, HeapEnd, HeapEnd)
  BY <1>1 DEF Item, Items
<1>4. e.isUsed = FALSE /\ e.next = HeapEnd /\ e.prev = 0 /\ f.isUsed = TRUE BY <1>3 DEF Item
<1>5. DOMAIN items = {0, HeapEnd} /\ items[0] = e /\ items[HeapEnd] = f BY <1>1, <1>2, <1>3
<1>6. items \in [{0, HeapEnd} -> Items] BY <1>1, <1>2, <1>3
<1>7. In(items) = {0} BY <1>1, <1>5 DEF In
<1>8. Row(items)
  <2>1. items \in [DOMAIN items -> Items] BY <1>5, <1>6
  <2>2. /\ DOMAIN items \subseteq 0..HeapEnd /\ 0 \in DOMAIN items /\ HeapEnd \in DOMAIN items
        /\ items[HeapEnd].isUsed /\ items[0].prev = 0
    BY <1>1, <1>4, <1>5
  <2>3. \A p \in In(items) : /\ items[p].next \in DOMAIN items /\ p < items[p].next
                              /\ \A q \in DOMAIN items : q <= p \/ items[p].next <= q
    BY <1>1, <1>4, <1>5, <1>7
  <2>4. In(items) \ {0} = {} BY <1>7
  <2>. QED BY <2>1, <2>2, <2>3, <2>4 DEF Row
<1>9. Free(items, lfree)
  <2>1. lfree \in Nat /\ lfree = 0 BY <1>2
  <2>2. ASSUME NEW p, p \in In(items) PROVE lfree <= p
    <3>1. p = 0 BY <1>7, <2>2
    <3>. QED BY <2>1, <3>1
  <2>. QED BY <2>1, <2>2 DEF Free
<1>15. Compact(items) BY <1>4, <1>5, <1>7 DEF Compact, Settled
<1>10. Used(items) = {} BY <1>4, <1>5, <1>7 DEF Used
<1>11. DOMAIN held = {} BY <1>2
<1>12. Holds(items, held) BY <1>10, <1>11 DEF Holds
<1>13. Bytes(items) = {} BY <1>8, <1>10, BytesIs
<1>14. Cardinality(Bytes(items)) = 0 BY <1>13, FS_EmptySet
<1>. QED BY <1>2, <1>8, <1>9, <1>15, <1>12, <1>14 DEF HeapInv, Heap

LEMMA HeapStep == ASSUME HeapInv, [HeapNext]_heapVars PROVE HeapInv'
<1>1. Sizes \subseteq Nat BY HeapAssumption
<1>2. ASSUME NEW n \in Sizes, Malloc(n) PROVE HeapInv' BY <1>1, <1>2, MallocKeeps
<1>3. ASSUME NEW p \in DOMAIN held, HeapFree(p) PROVE HeapInv' BY <1>3, FreeKeeps
<1>4. ASSUME NEW p \in DOMAIN held, NEW n \in Sizes, Realloc(p, n) PROVE HeapInv' BY <1>1, <1>4, ReallocKeeps
<1>5. CASE UNCHANGED heapVars BY <1>5 DEF heapVars, HeapInv
<1>. QED BY <1>2, <1>3, <1>4, <1>5 DEF HeapNext

LEMMA HeapInvSound == ASSUME HeapInv PROVE HeapSound
<1>1. Row(items) /\ Free(items, lfree) /\ Compact(items) /\ Holds(items, held) /\ used = Cardinality(Bytes(items))
  BY DEF HeapInv, Heap
<1>2. Inner = In(items) /\ 0 \in Inner BY <1>1, Bounds DEF Inner, In, Row
<1>3. ASSUME NEW p, p \in Inner
      PROVE /\ items[p].next = Min({q \in DOMAIN items : q > p})
            /\ items[p].next # HeapEnd => items[items[p].next].prev = p
            /\ items[p].isUsed <=> p \in DOMAIN held
            /\ items[p].isUsed => Room(items, p) >= held[p]
            /\ items[p].isUsed \/ items[p].next = HeapEnd \/ items[items[p].next].isUsed
  <2>1. p \in In(items) BY <1>2, <1>3
  <2>2. p \in Nat /\ items[p].next \in Nat /\ items[p].next \in DOMAIN items /\ p < items[p].next
    BY <1>1, <2>1, AtIs
  <2>3. PICK S : S = {q \in DOMAIN items : q > p} OBVIOUS
  <2>4. S \in SUBSET Nat BY <1>1, <2>3, Bounds DEF Row
  <2>5. items[p].next \in S BY <2>2, <2>3
  <2>6. Min(S) \in S /\ \A q \in S : Min(S) <= q BY <2>4, <2>5, LeastIs
  <2>7. PICK x \in Nat : x = Min(S) /\ x \in S /\ x <= items[p].next BY <2>4, <2>5, <2>6
  <2>8. x \in DOMAIN items /\ x > p BY <2>3, <2>7
  <2>13. x <= p \/ items[p].next <= x BY <1>1, <2>1, <2>8 DEF Row
  <2>9. items[p].next = Min(S) BY <2>2, <2>7, <2>8, <2>13
  <2>10. items[p].next # HeapEnd => items[items[p].next].prev = p BY <1>1, <2>1, NextIs
  <2>11. items[p].isUsed <=> p \in DOMAIN held BY <1>1, <2>1 DEF Holds, Used
  <2>12. items[p].isUsed => Room(items, p) >= held[p] BY <1>1, <2>11 DEF Holds
  <2>. QED BY <1>1, <2>1, <2>3, <2>9, <2>10, <2>11, <2>12 DEF Compact, Settled
<1>4. ASSUME NEW n \in Sizes \ {0}, {p \in Inner : ~items[p].isUsed /\ Room(items, p) >= Rounded(n)} # {}
      PROVE FirstFit(n).at # -1
  <2>1. n \in Nat /\ n # 0 BY HeapAssumption
  <2>2. PICK need \in Nat : need = Rounded(n) BY <2>1, RoundedIs
  <2>3. PICK p \in Inner : ~items[p].isUsed /\ Room(items, p) >= need BY <1>4, <2>2
  <2>4. /\ p \in DOMAIN items /\ p \in Nat /\ items[p].next \in Nat /\ items[p].next <= HeapEnd
    BY <1>1, <1>2, <2>3, AtIs
  <2>5. p >= lfree BY <1>1, <1>2, <2>3, <2>4 DEF Free
  <2>6. p <= HeapSize - need BY <2>3, <2>4, Bounds DEF Room
  <2>7. p \in Fitting(need) BY <2>3, <2>4, <2>5, <2>6 DEF Fitting
  <2>. QED BY <2>1, <2>2, <2>7, NoFit
<1>. QED BY <1>1, <1>2, <1>3, <1>4 DEF HeapSound

----------------------------------------------------------------------------
(* Next to the threads, which share neither with them.                      *)
LEMMA HeapOfSystem ==
    /\ Init => HeapInv
    /\ HeapInv /\ [Next]_vars => HeapInv'
<1>1. ASSUME Init PROVE HeapInv BY <1>1, HeapStarts DEF Init, HeapQuiet
<1>2. ASSUME HeapInv, [Next]_vars PROVE HeapInv'
  <2>1. HeapNext \/ UNCHANGED heapVars BY <1>2 DEF Next, vars
  <2>. QED BY <1>2, <2>1, HeapStep
<1>. QED BY <1>1, <1>2

(* The ring that is not looked at is empty, whatever its bytes.             *)
RingSound == IF part = "ring" THEN TypeOK /\ MirrorInv ELSE MirrorInv

LEMMA RingStarts ==
    ASSUME Init
    PROVE RingSound /\ Fifo!Init
<1>1. CASE part = "ring" /\ RingInit BY <1>1, InitSimulates DEF RingSound
<1>2. CASE part # "ring" /\ RingQuiet
  <2>1. /\ rb.ri = 0 /\ rb.rm = 0 /\ rb.wi = 0 /\ rb.wm = 0
        /\ out = <<>> /\ call = "clear"
    BY <1>2 DEF RingQuiet
  <2>2. MirrorInv BY <2>1 DEF MirrorInv, Mirrored
  <2>3. DataLen(rb) = 0 BY <2>1 DEF DataLen, IsEmpty, IsFull
  <2>4. Contents(rb) = <<>> BY <2>3 DEF Contents
  <2>. QED BY <1>2, <2>1, <2>2, <2>4 DEF RingSound, Fifo!Init
<1>. QED BY <1>1, <1>2 DEF Init

LEMMA RingMoves ==
    ASSUME RingSound, [Next]_vars
    PROVE RingSound' /\ [Fifo!Next]_(Fifo!vars)
<1>1. CASE part = "ring" /\ RingNext
  <2>1. TypeOK /\ MirrorInv /\ part' = "ring" BY <1>1 DEF RingSound, Next, vars
  <2>2. TypeOK' /\ MirrorInv' /\ [Fifo!Next]_(Fifo!vars) BY <1>1, <2>1, StepSimulates
  <2>. QED BY <2>1, <2>2 DEF RingSound
<1>2. CASE UNCHANGED ringVars
  <2>1. part' = part BY DEF Next, vars
  <2>. QED BY <1>2, <2>1 DEF ringVars, RingSound, TypeOK, MirrorInv, Fifo!vars
<1>. QED BY <1>1, <1>2 DEF Next, vars

(* However blocks are taken, resized and given back, for every size of the  *)
(* heap and of its blocks: the items lie one after the other from its start *)
(* to its end, a caller has the room he asked for, what was given back is   *)
(* in one piece, the search misses no item that would do, and parent.used   *)
(* is right (mem.c:128-166, 290-550).                                       *)
THEOREM HeapAlwaysSound == Spec => []HeapSound
<1>1. HeapInv => HeapSound BY HeapInvSound
<1>. QED BY <1>1, HeapOfSystem, PTL DEF Spec

(* For every size, the write index is never behind the read index nor more  *)
(* than a lap ahead, under any sequence of the calls (ringbuffer.c:62-412,  *)
(* usb_main.c:131-231).                                                     *)
THEOREM AlwaysMirrored == Spec => []MirrorInv
<1>1. Init => RingSound BY RingStarts
<1>2. RingSound /\ [Next]_vars => RingSound' BY RingMoves
<1>3. RingSound => MirrorInv BY DEF RingSound
<1>. QED BY <1>1, <1>2, <1>3, PTL DEF Spec

(* For every size and every set of packets, the ring buffer is a bounded    *)
(* queue: it implements BoundedFifo, call by call.                          *)
THEOREM ImplementsFifo == Spec => FifoSpec
<1>1. Init => RingSound /\ Fifo!Init BY RingStarts
<1>2. RingSound /\ [Next]_vars => RingSound' BY RingMoves
<1>3. RingSound /\ [Next]_vars => [Fifo!Next]_(Fifo!vars) BY RingMoves
<1>. QED BY <1>1, <1>2, <1>3, PTL DEF Spec, FifoSpec, Fifo!Spec
=============================================================================

--------------------------- MODULE RingOpsProofs ---------------------------
(***************************************************************************)
(* Lemmas about the operators of RingOps for every buffer size and every   *)
(* set of bytes: how a call moves the indices, and what it does to the     *)
(* bytes the ring holds.                                                   *)
(***************************************************************************)
EXTENDS RingOps, TLAPS

(* The calls keep the indices within the buffer and the ring mirrored.     *)
Valid(r) == r \in Ring /\ Mirrored(r)

(* The length and the room of a valid ring add up to its size. *)
LEMMA Lengths ==
  ASSUME NEW r, Valid(r)
  PROVE  /\ DataLen(r) \in 0 .. Size /\ SpaceLen(r) \in 0 .. Size
         /\ DataLen(r) + SpaceLen(r) = Size
         /\ r.rm = r.wm => DataLen(r) = r.wi - r.ri
         /\ r.rm # r.wm => DataLen(r) = Size + r.wi - r.ri
<1>1. /\ Size \in Nat /\ Size > 0
      /\ r.ri \in 0 .. Size - 1 /\ r.wi \in 0 .. Size - 1
      /\ IF r.rm = r.wm THEN r.ri <= r.wi ELSE r.wi <= r.ri
  BY SizeAssumption DEF Valid, Ring, Index, Mirrored
<1>2. DataLen(r) = IF r.rm = r.wm THEN r.wi - r.ri ELSE Size + r.wi - r.ri
  <2>1. CASE IsEmpty(r) BY <1>1, <2>1 DEF DataLen, IsEmpty, IsFull
  <2>2. CASE IsFull(r) BY <1>1, <2>2 DEF DataLen, IsEmpty, IsFull
  <2>3. CASE r.ri # r.wi /\ r.ri < r.wi
    BY <1>1, <2>3 DEF DataLen, IsEmpty, IsFull
  <2>4. CASE r.ri # r.wi /\ ~(r.ri < r.wi)
    BY <1>1, <2>4 DEF DataLen, IsEmpty, IsFull
  <2>. QED BY <2>1, <2>2, <2>3, <2>4 DEF IsEmpty, IsFull
<1>3. DataLen(r) \in 0 .. Size BY <1>1, <1>2
<1>. QED BY <1>1, <1>2, <1>3 DEF SpaceLen

(* Moving the write index over free places adds them to the length. *)
LEMMA MoveWriteValid ==
  ASSUME NEW r, Valid(r), NEW n \in 0 .. SpaceLen(r)
  PROVE  /\ Valid(MoveWrite(r, n))
         /\ MoveWrite(r, n).buf = r.buf /\ MoveWrite(r, n).ri = r.ri
         /\ MoveWrite(r, n).rm = r.rm
         /\ MoveWrite(r, n).wi = Wrap(r.wi, n)
         /\ DataLen(MoveWrite(r, n)) = DataLen(r) + n
<1> DEFINE w == MoveWrite(r, n)
<1>1. /\ DataLen(r) \in 0 .. Size /\ SpaceLen(r) \in 0 .. Size
      /\ DataLen(r) + SpaceLen(r) = Size
      /\ r.rm = r.wm => DataLen(r) = r.wi - r.ri
      /\ r.rm # r.wm => DataLen(r) = Size + r.wi - r.ri
  BY Lengths
<1>2. /\ w.buf = r.buf /\ w.ri = r.ri /\ w.rm = r.rm /\ w.wi = Wrap(r.wi, n)
      /\ w.wm = IF Size - r.wi > n THEN r.wm ELSE Flip(r.wm)
      /\ w \in Ring
  <2>1. r \in Ring /\ r.wi \in 0 .. Size - 1 /\ r.wm \in {0, 1}
    BY DEF Valid, Ring, Index
  <2>2. CASE Size - r.wi > n
    <3>1. w = [r EXCEPT !.wi = r.wi + n] BY <2>2 DEF MoveWrite
    <3>2. r.wi + n \in Index /\ Wrap(r.wi, n) = r.wi + n
      BY <1>1, <2>1, <2>2, SizeAssumption DEF Index, Wrap
    <3>. QED BY <2>1, <2>2, <3>1, <3>2 DEF Ring
  <2>3. CASE ~(Size - r.wi > n)
    <3>1. w = [r EXCEPT !.wi = n - (Size - r.wi), !.wm = Flip(r.wm)]
      BY <2>3 DEF MoveWrite
    <3>2. /\ n - (Size - r.wi) \in Index /\ Flip(r.wm) \in {0, 1}
          /\ Wrap(r.wi, n) = n - (Size - r.wi)
      BY <1>1, <2>1, <2>3, SizeAssumption DEF Index, Wrap, Flip
    <3>. QED BY <2>1, <2>3, <3>1, <3>2 DEF Ring
  <2>. QED BY <2>2, <2>3
<1> HIDE DEF w
<1>3. /\ r.ri \in 0 .. Size - 1 /\ r.wi \in 0 .. Size - 1
      /\ r.rm \in {0, 1} /\ r.wm \in {0, 1}
      /\ IF r.rm = r.wm THEN r.ri <= r.wi ELSE r.wi <= r.ri
      /\ Size \in Nat /\ n \in Nat
  BY <1>1, SizeAssumption DEF Valid, Ring, Index, Mirrored
<1>4. Mirrored(w)
  <2>1. CASE Size - r.wi > n BY <1>1, <1>2, <1>3, <2>1 DEF Mirrored, Wrap
  <2>2. CASE ~(Size - r.wi > n)
    BY <1>1, <1>2, <1>3, <2>2 DEF Mirrored, Wrap, Flip
  <2>. QED BY <2>1, <2>2
<1>5. DataLen(w) = DataLen(r) + n
  <2>1. /\ w.rm = w.wm => DataLen(w) = w.wi - w.ri
        /\ w.rm # w.wm => DataLen(w) = Size + w.wi - w.ri
    BY <1>2, <1>4, Lengths DEF Valid
  <2>2. CASE Size - r.wi > n BY <1>1, <1>2, <1>3, <2>1, <2>2 DEF Wrap
  <2>3. CASE ~(Size - r.wi > n)
    BY <1>1, <1>2, <1>3, <2>1, <2>3 DEF Wrap, Flip
  <2>. QED BY <2>2, <2>3
<1>. QED BY <1>2, <1>4, <1>5 DEF Valid, w

(* Moving the read index over stored bytes takes them off the length. *)
LEMMA MoveReadValid ==
  ASSUME NEW r, Valid(r), NEW n \in 0 .. DataLen(r)
  PROVE  /\ Valid(MoveRead(r, n))
         /\ MoveRead(r, n).buf = r.buf
         /\ MoveRead(r, n).ri = Wrap(r.ri, n)
         /\ MoveRead(r, n).wi = r.wi /\ MoveRead(r, n).wm = r.wm
         /\ DataLen(MoveRead(r, n)) = DataLen(r) - n
<1> DEFINE w == MoveRead(r, n)
<1>1. /\ DataLen(r) \in 0 .. Size /\ SpaceLen(r) \in 0 .. Size
      /\ DataLen(r) + SpaceLen(r) = Size
      /\ r.rm = r.wm => DataLen(r) = r.wi - r.ri
      /\ r.rm # r.wm => DataLen(r) = Size + r.wi - r.ri
  BY Lengths
<1>2. /\ w.buf = r.buf /\ w.wi = r.wi /\ w.wm = r.wm /\ w.ri = Wrap(r.ri, n)
      /\ w.rm = IF Size - r.ri > n THEN r.rm ELSE Flip(r.rm)
      /\ w \in Ring
  <2>1. r \in Ring /\ r.ri \in 0 .. Size - 1 /\ r.rm \in {0, 1}
    BY DEF Valid, Ring, Index
  <2>2. CASE Size - r.ri > n
    <3>1. w = [r EXCEPT !.ri = r.ri + n] BY <2>2 DEF MoveRead
    <3>2. r.ri + n \in Index /\ Wrap(r.ri, n) = r.ri + n
      BY <1>1, <2>1, <2>2, SizeAssumption DEF Index, Wrap
    <3>. QED BY <2>1, <2>2, <3>1, <3>2 DEF Ring
  <2>3. CASE ~(Size - r.ri > n)
    <3>1. w = [r EXCEPT !.ri = n - (Size - r.ri), !.rm = Flip(r.rm)]
      BY <2>3 DEF MoveRead
    <3>2. /\ n - (Size - r.ri) \in Index /\ Flip(r.rm) \in {0, 1}
          /\ Wrap(r.ri, n) = n - (Size - r.ri)
      BY <1>1, <2>1, <2>3, SizeAssumption DEF Index, Wrap, Flip
    <3>. QED BY <2>1, <2>3, <3>1, <3>2 DEF Ring
  <2>. QED BY <2>2, <2>3
<1> HIDE DEF w
<1>3. /\ r.ri \in 0 .. Size - 1 /\ r.wi \in 0 .. Size - 1
      /\ r.rm \in {0, 1} /\ r.wm \in {0, 1}
      /\ IF r.rm = r.wm THEN r.ri <= r.wi ELSE r.wi <= r.ri
      /\ Size \in Nat /\ n \in Nat
  BY <1>1, SizeAssumption DEF Valid, Ring, Index, Mirrored
<1>4. Mirrored(w)
  <2>1. CASE Size - r.ri > n BY <1>1, <1>2, <1>3, <2>1 DEF Mirrored, Wrap
  <2>2. CASE ~(Size - r.ri > n)
    BY <1>1, <1>2, <1>3, <2>2 DEF Mirrored, Wrap, Flip
  <2>. QED BY <2>1, <2>2
<1>5. DataLen(w) = DataLen(r) - n
  <2>1. /\ w.rm = w.wm => DataLen(w) = w.wi - w.ri
        /\ w.rm # w.wm => DataLen(w) = Size + w.wi - w.ri
    BY <1>2, <1>4, Lengths DEF Valid
  <2>2. CASE Size - r.ri > n BY <1>1, <1>2, <1>3, <2>1, <2>2 DEF Wrap
  <2>3. CASE ~(Size - r.ri > n)
    BY <1>1, <1>2, <1>3, <2>1, <2>3 DEF Wrap, Flip
  <2>. QED BY <2>2, <2>3
<1>. QED BY <1>2, <1>4, <1>5 DEF Valid, w

(* Copying bytes in changes the bytes only. *)
LEMMA CopyInValid ==
  ASSUME NEW r, Valid(r), NEW d \in Seq(Values), NEW n \in 0 .. Len(d)
  PROVE  /\ Valid(CopyIn(r, d, n))
         /\ DataLen(CopyIn(r, d, n)) = DataLen(r)
         /\ SpaceLen(CopyIn(r, d, n)) = SpaceLen(r)
         /\ CopyIn(r, d, n).ri = r.ri /\ CopyIn(r, d, n).rm = r.rm
         /\ CopyIn(r, d, n).wi = r.wi /\ CopyIn(r, d, n).wm = r.wm
<1> DEFINE c == CopyIn(r, d, n)
           f == [k \in Index |->
     IF Distance(r.wi, k) < n THEN d[Distance(r.wi, k) + 1] ELSE r.buf[k]]
<1>1. f \in [Index -> Values]
  <2> SUFFICES ASSUME NEW k \in Index
               PROVE  (IF Distance(r.wi, k) < n THEN d[Distance(r.wi, k) + 1]
                       ELSE r.buf[k]) \in Values
    OBVIOUS
  <2>1. r.wi \in Index /\ r.buf \in [Index -> Values] BY DEF Valid, Ring
  <2>2. Distance(r.wi, k) \in Nat BY <2>1, SizeAssumption DEF Index, Distance
  <2>3. CASE Distance(r.wi, k) < n
    <3>1. Distance(r.wi, k) + 1 \in 1 .. Len(d) BY <2>2, <2>3
    <3>. QED BY <2>3, <3>1
  <2>4. CASE ~(Distance(r.wi, k) < n) BY <2>1, <2>4
  <2>. QED BY <2>3, <2>4
<1>2. c = [r EXCEPT !.buf = f] BY DEF CopyIn
<1>3. /\ c \in Ring /\ c.ri = r.ri /\ c.rm = r.rm /\ c.wi = r.wi /\ c.wm = r.wm
  BY <1>1, <1>2 DEF Valid, Ring
<1>. QED
  BY <1>3 DEF Valid, Mirrored, DataLen, SpaceLen, IsEmpty, IsFull
(* Two sequences with the same length and the same members are the same.   *)
LEMMA SeqEqual ==
  ASSUME NEW S, NEW s \in Seq(S), NEW t \in Seq(S), Len(s) = Len(t),
         \A i \in 1 .. Len(s) : s[i] = t[i]
  PROVE  s = t
OBVIOUS

(* The contents of a valid ring are a sequence of its length. *)
LEMMA ContentsType ==
  ASSUME NEW r, Valid(r)
  PROVE  /\ Contents(r) \in Seq(Values) /\ Len(Contents(r)) = DataLen(r)
         /\ \A i \in 1 .. DataLen(r) :
              Contents(r)[i] = r.buf[Wrap(r.ri, i - 1)]
<1>1. /\ DataLen(r) \in 0 .. Size /\ r.ri \in 0 .. Size - 1
      /\ r.buf \in [0 .. Size - 1 -> Values] /\ Size \in Nat \ {0}
  BY Lengths, SizeAssumption DEF Valid, Ring, Index
<1>2. \A i \in 1 .. DataLen(r) : r.buf[Wrap(r.ri, i - 1)] \in Values
  <2> TAKE i \in 1 .. DataLen(r)
  <2>1. Wrap(r.ri, i - 1) \in 0 .. Size - 1 BY <1>1 DEF Wrap
  <2>. QED BY <1>1, <2>1
<1>. QED BY <1>1, <1>2 DEF Contents

(* Where the j-th byte from read_index lies, counted from write_index: the  *)
(* bytes stored are the last ones of the ring, the free ones the first.     *)
LEMMA FromWriteIndex ==
  ASSUME NEW a \in Nat, NEW n \in Nat, a + n <= Size,
         NEW x \in 0 .. Size - 1, NEW y \in 0 .. Size - 1,
         y = x + a \/ y = x + a - Size,
         NEW j \in 1 .. a + n
  PROVE  /\ Wrap(x, j - 1) \in 0 .. Size - 1
         /\ Distance(y, Wrap(x, j - 1)) =
              IF j > a THEN j - a - 1 ELSE Size - a + j - 1
<1>1. Size \in Nat \ {0} BY SizeAssumption
<1>2. CASE x + (j - 1) < Size
  <2>1. Wrap(x, j - 1) = x + j - 1 BY <1>1, <1>2 DEF Wrap
  <2>2. CASE j > a BY <1>1, <1>2, <2>1, <2>2 DEF Distance
  <2>3. CASE ~(j > a)
    <3>1. PICK k \in Int : k = x + j - 1 BY <1>1
    <3>2. CASE y = x + a
      <4>1. ~(k >= y) BY <1>1, <2>3, <3>1, <3>2
      <4>2. Distance(y, k) = k - y + Size BY <4>1, Zenon DEF Distance
      <4>3. k - y + Size = Size - a + j - 1 BY <1>1, <3>1, <3>2
      <4>. QED BY <1>1, <1>2, <2>1, <2>3, <3>1, <4>2, <4>3
    <3>3. CASE y = x + a - Size
      <4>1. k >= y BY <1>1, <3>1, <3>3
      <4>2. Distance(y, k) = k - y BY <4>1, Zenon DEF Distance
      <4>3. k - y = Size - a + j - 1 BY <1>1, <3>1, <3>3
      <4>. QED BY <1>1, <1>2, <2>1, <2>3, <3>1, <4>2, <4>3
    <3>. QED BY <3>2, <3>3
  <2>. QED BY <1>1, <1>2, <2>1, <2>2, <2>3
<1>3. CASE ~(x + (j - 1) < Size)
  <2>1. Wrap(x, j - 1) = x + j - 1 - Size BY <1>1, <1>3 DEF Wrap
  <2>2. CASE j > a BY <1>1, <1>3, <2>1, <2>2 DEF Distance
  <2>3. CASE ~(j > a)
    <3>1. PICK k \in Int : k = x + j - 1 - Size BY <1>1
    <3>2. y = x + a - Size /\ ~(k >= y) BY <1>1, <1>3, <2>3, <3>1
    <3>3. Distance(y, k) = k - y + Size BY <3>2, Zenon DEF Distance
    <3>4. k - y + Size = Size - a + j - 1 BY <1>1, <3>1, <3>2
    <3>. QED BY <1>1, <1>3, <2>1, <2>3, <3>1, <3>3, <3>4
  <2>. QED BY <1>1, <1>3, <2>1, <2>2, <2>3
<1>. QED BY <1>2, <1>3

(* What a concatenation holds at each place.                                *)
LEMMA Concatenated ==
  ASSUME NEW S, NEW s \in Seq(S), NEW t \in Seq(S),
         NEW i \in 1 .. Len(s) + Len(t)
  PROVE  /\ s \o t \in Seq(S) /\ Len(s \o t) = Len(s) + Len(t)
         /\ (s \o t)[i] = IF i <= Len(s) THEN s[i] ELSE t[i - Len(s)]
OBVIOUS

(* What is written after the stored bytes is appended to the contents.     *)
LEMMA AppendContents ==
  ASSUME NEW r, Valid(r), NEW d \in Seq(Values), NEW n \in 0 .. Len(d),
         n <= SpaceLen(r)
  PROVE  /\ Valid(MoveWrite(CopyIn(r, d, n), n))
         /\ Contents(MoveWrite(CopyIn(r, d, n), n))
              = Contents(r) \o SubSeq(d, 1, n)
<1> DEFINE c == CopyIn(r, d, n)
           w == MoveWrite(c, n)
<1>1. /\ Valid(c) /\ DataLen(c) = DataLen(r) /\ SpaceLen(c) = SpaceLen(r)
      /\ c.ri = r.ri /\ c.rm = r.rm /\ c.wi = r.wi /\ c.wm = r.wm
  BY CopyInValid
<1>2. n \in 0 .. SpaceLen(c) BY <1>1, Lengths
<1>3. Valid(w) /\ w.buf = c.buf /\ w.ri = r.ri /\ DataLen(w) = DataLen(r) + n
  BY <1>1, <1>2, MoveWriteValid
<1>4. \A k \in Index : c.buf[k] = IF Distance(r.wi, k) < n
                                   THEN d[Distance(r.wi, k) + 1] ELSE r.buf[k]
  BY DEF CopyIn, Valid, Ring
<1>. HIDE DEF c, w
<1>5. /\ DataLen(r) \in 0 .. Size /\ n \in Nat /\ Size \in Nat \ {0}
      /\ DataLen(r) + n <= Size
      /\ r.ri \in 0 .. Size - 1 /\ r.wi \in 0 .. Size - 1
      /\ r.rm = r.wm => DataLen(r) = r.wi - r.ri
      /\ r.rm # r.wm => DataLen(r) = Size + r.wi - r.ri
  BY Lengths, SizeAssumption DEF Valid, Ring, Index
<1>6. /\ Contents(r) \in Seq(Values) /\ Len(Contents(r)) = DataLen(r)
      /\ \A i \in 1 .. DataLen(r) : Contents(r)[i] = r.buf[Wrap(r.ri, i - 1)]
  BY ContentsType
<1>7. \A i \in 1 .. DataLen(r) + n :
        w.buf[Wrap(r.ri, i - 1)] =
          IF i <= DataLen(r) THEN r.buf[Wrap(r.ri, i - 1)] ELSE d[i - DataLen(r)]
  <2> TAKE i \in 1 .. DataLen(r) + n
  <2> DEFINE k == Wrap(r.ri, i - 1)
             D == Distance(r.wi, k)
  <2>1. PICK a \in Nat : a = DataLen(r) BY <1>5
  <2>2. r.wi = r.ri + a \/ r.wi = r.ri + a - Size
    <3>1. PICK x \in Nat, y \in Nat : x = r.ri /\ y = r.wi BY <1>5
    <3>2. a = y - x \/ a = Size + y - x BY <1>5, <2>1, <3>1
    <3>3. PICK z \in Nat : z = Size BY <1>5
    <3>4. y = x + a \/ y = x + a - z BY <3>2, <3>3
    <3>. QED BY <3>1, <3>3, <3>4, Zenon
  <2>3. /\ k \in 0 .. Size - 1
        /\ D = IF i > a THEN i - a - 1 ELSE Size - a + i - 1
    <3>1. r.ri \in 0 .. Size - 1 /\ r.wi \in 0 .. Size - 1 BY <1>5
    <3>2. n \in Nat /\ a + n <= Size /\ i \in 1 .. a + n BY <1>5, <2>1
    <3>. QED BY <2>2, <3>1, <3>2, FromWriteIndex
  <2>4. w.buf[k] = IF D < n THEN d[D + 1] ELSE r.buf[k]
    BY <1>3, <1>4, <2>3 DEF Index
  <2> HIDE DEF k, D
  <2>5. CASE i <= a
    <3>1. ~(D < n) BY <1>5, <2>1, <2>3, <2>5
    <3>. QED BY <2>1, <2>4, <2>5, <3>1 DEF k
  <2>6. CASE ~(i <= a)
    <3>1. D < n /\ D + 1 = i - a BY <1>5, <2>1, <2>3, <2>6
    <3>. QED BY <2>1, <2>4, <2>6, <3>1 DEF k
  <2>. QED BY <2>5, <2>6
<1>8. /\ SubSeq(d, 1, n) \in Seq(Values) /\ Len(SubSeq(d, 1, n)) = n
      /\ \A i \in 1 .. n : SubSeq(d, 1, n)[i] = d[i]
  BY <1>5
<1>9. /\ Contents(w) \in Seq(Values) /\ Len(Contents(w)) = DataLen(r) + n
      /\ \A i \in 1 .. DataLen(r) + n : Contents(w)[i] = w.buf[Wrap(r.ri, i - 1)]
  BY <1>3, ContentsType
<1>10. Contents(w) = Contents(r) \o SubSeq(d, 1, n)
  <2> DEFINE s == Contents(r)
             t == SubSeq(d, 1, n)
  <2>1. s \o t \in Seq(Values) /\ Len(s \o t) = DataLen(r) + n
    BY <1>5, <1>6, <1>8
  <2>2. ASSUME NEW i \in 1 .. DataLen(r) + n PROVE Contents(w)[i] = (s \o t)[i]
    <3>1. (s \o t)[i] = IF i <= DataLen(r) THEN s[i] ELSE t[i - DataLen(r)]
      <4>1. s \in Seq(Values) /\ t \in Seq(Values) /\ i \in 1 .. Len(s) + Len(t)
        BY <1>6, <1>8
      <4>2. Len(s) = DataLen(r) BY <1>6
      <4>. HIDE DEF s, t
      <4>. QED BY <4>1, <4>2, Concatenated
    <3>2. CASE i <= DataLen(r)
      <4>1. i \in 1 .. DataLen(r) BY <1>5, <3>2
      <4>2. s[i] = r.buf[Wrap(r.ri, i - 1)] BY <1>6, <4>1
      <4>. QED BY <1>7, <1>9, <3>1, <3>2, <4>2
    <3>3. CASE ~(i <= DataLen(r))
      <4>1. i - DataLen(r) \in 1 .. n BY <1>5, <3>3
      <4>. QED BY <1>7, <1>8, <1>9, <3>1, <3>3, <4>1
    <3>. QED BY <3>2, <3>3
  <2>3. Contents(w) = s \o t
    <3>. HIDE DEF s, t
    <3>. QED BY <1>9, <2>1, <2>2, SeqEqual
  <2>. QED BY <2>3
<1>. QED BY <1>3, <1>10 DEF w, c

(* Bytes already stored behind write_index are appended by moving it.      *)
LEMMA CommitContents ==
  ASSUME NEW r, Valid(r), NEW n \in 0 .. SpaceLen(r)
  PROVE  \E d \in [1 .. n -> Values] :
           Contents(MoveWrite(r, n)) = Contents(r) \o d
<1> DEFINE d == [i \in 1 .. n |-> r.buf[Wrap(r.wi, i - 1)]]
<1>1. /\ n \in Nat /\ Size \in Nat \ {0} /\ r.wi \in 0 .. Size - 1
      /\ n <= SpaceLen(r) /\ SpaceLen(r) \in 0 .. Size
      /\ r.buf \in [0 .. Size - 1 -> Values] /\ r \in Ring
  BY Lengths, SizeAssumption DEF Valid, Ring, Index
<1>2. d \in [1 .. n -> Values]
  <2> SUFFICES ASSUME NEW i \in 1 .. n PROVE r.buf[Wrap(r.wi, i - 1)] \in Values
    OBVIOUS
  <2>1. Wrap(r.wi, i - 1) \in 0 .. Size - 1 BY <1>1 DEF Wrap
  <2>. QED BY <1>1, <2>1
<1>3. d \in Seq(Values) /\ Len(d) = n BY <1>1, <1>2
<1>4. CopyIn(r, d, n) = r
  <2> DEFINE f == [k \in Index |-> IF Distance(r.wi, k) < n
                                   THEN d[Distance(r.wi, k) + 1] ELSE r.buf[k]]
  <2>1. ASSUME NEW k \in Index PROVE f[k] = r.buf[k]
    <3>1. CASE Distance(r.wi, k) < n
      <4>1. PICK j \in 1 .. n : j = Distance(r.wi, k) + 1
        BY <1>1, <3>1 DEF Distance, Index
      <4>2. Wrap(r.wi, j - 1) = k
        <5>1. r.wi \in 0 .. Size - 1 /\ k \in 0 .. Size - 1 /\ Size \in Nat
          BY <1>1 DEF Index
        <5>. HIDE DEF d, f
        <5>2. CASE k >= r.wi BY <4>1, <5>1, <5>2 DEF Distance, Wrap
        <5>3. CASE ~(k >= r.wi) BY <4>1, <5>1, <5>3 DEF Distance, Wrap
        <5>. QED BY <5>2, <5>3
      <4>3. d[j] = r.buf[k] BY <4>2
      <4>. QED BY <3>1, <4>1, <4>3
    <3>. QED BY <3>1
  <2>2. f = r.buf BY <1>1, <2>1 DEF Index
  <2>3. CopyIn(r, d, n) = [r EXCEPT !.buf = f] BY DEF CopyIn
  <2>. HIDE DEF f
  <2>. QED BY <1>1, <2>2, <2>3 DEF Ring
<1>5. Contents(MoveWrite(r, n)) = Contents(r) \o SubSeq(d, 1, n)
  <2>. HIDE DEF d
  <2>1. n \in 0 .. Len(d) /\ n <= SpaceLen(r) BY <1>1, <1>3
  <2>2. Contents(MoveWrite(CopyIn(r, d, n), n)) = Contents(r) \o SubSeq(d, 1, n)
    BY <1>3, <2>1, AppendContents
  <2>. QED BY <1>4, <2>2
<1>6. SubSeq(d, 1, n) = d
  <2>. HIDE DEF d
  <2>. QED BY <1>1, <1>3
<1>. QED BY <1>2, <1>5, <1>6

(* Reading n bytes returns the n oldest and leaves the others. *)
LEMMA TakeContents ==
  ASSUME NEW r, Valid(r), NEW n \in 0 .. DataLen(r)
  PROVE  /\ Valid(MoveRead(r, n))
         /\ CopyOut(r, n) = SubSeq(Contents(r), 1, n)
         /\ Contents(MoveRead(r, n))
              = SubSeq(Contents(r), n + 1, Len(Contents(r)))
<1> DEFINE w == MoveRead(r, n)
           s == Contents(r)
<1>1. /\ Valid(w) /\ w.buf = r.buf /\ w.ri = Wrap(r.ri, n)
      /\ DataLen(w) = DataLen(r) - n
  BY MoveReadValid
<1>2. /\ s \in Seq(Values) /\ Len(s) = DataLen(r)
      /\ \A i \in 1 .. DataLen(r) : s[i] = r.buf[Wrap(r.ri, i - 1)]
  BY ContentsType
<1>3. /\ Contents(w) \in Seq(Values) /\ Len(Contents(w)) = DataLen(r) - n
      /\ \A i \in 1 .. DataLen(r) - n :
           Contents(w)[i] = r.buf[Wrap(Wrap(r.ri, n), i - 1)]
  BY <1>1, ContentsType
<1>4. /\ DataLen(r) \in 0 .. Size /\ Size \in Nat \ {0} /\ n \in Nat
      /\ n <= DataLen(r) /\ r.ri \in 0 .. Size - 1
  BY Lengths, SizeAssumption DEF Valid, Ring, Index
<1> HIDE DEF w, s
<1>5. CopyOut(r, n) = SubSeq(s, 1, n)
  <2>1. SubSeq(s, 1, n) \in Seq(Values) /\ Len(SubSeq(s, 1, n)) = n
    BY <1>2, <1>4
  <2>2. \A i \in 1 .. n : SubSeq(s, 1, n)[i] = s[i] BY <1>2, <1>4
  <2>3. \A i \in 1 .. n : i \in 1 .. DataLen(r) BY <1>4
  <2>4. \A i \in 1 .. n : r.buf[Wrap(r.ri, i - 1)] = SubSeq(s, 1, n)[i]
    BY <1>2, <2>2, <2>3
  <2>5. CopyOut(r, n) = [i \in 1 .. n |-> SubSeq(s, 1, n)[i]]
    BY <2>4 DEF CopyOut
  <2>6. SubSeq(s, 1, n) = [i \in 1 .. n |-> SubSeq(s, 1, n)[i]] BY <2>1, <1>4
  <2>. QED BY <2>5, <2>6
<1>6. Contents(w) = SubSeq(s, n + 1, Len(s))
  <2> DEFINE t == SubSeq(s, n + 1, Len(s))
  <2>1. t \in Seq(Values) /\ Len(t) = DataLen(r) - n BY <1>2, <1>4
  <2>2. \A i \in 1 .. DataLen(r) - n : t[i] = s[n + i] BY <1>2, <1>4
  <2>3. ASSUME NEW i \in 1 .. DataLen(r) - n PROVE Contents(w)[i] = t[i]
    <3>1. n + i \in 1 .. DataLen(r) BY <1>4
    <3>2. Wrap(Wrap(r.ri, n), i - 1) = Wrap(r.ri, n + i - 1)
      BY <1>4 DEF Wrap
    <3>3. Contents(w)[i] = r.buf[Wrap(r.ri, n + i - 1)] BY <1>3, <3>2
    <3>4. s[n + i] = r.buf[Wrap(r.ri, n + i - 1)] BY <1>2, <3>1
    <3>. HIDE DEF t
    <3>. QED BY <2>2, <3>3, <3>4
  <2>. HIDE DEF t
  <2>4. Contents(w) = t BY <1>3, <2>1, <2>3, SeqEqual
  <2>. QED BY <2>4 DEF t
<1>. QED BY <1>1, <1>5, <1>6 DEF w, s

(* Distances around the end of the buffer. *)
LEMMA WrapDistance ==
  ASSUME NEW w \in 0 .. Size - 1, NEW n \in 0 .. Size, NEW j \in 0 .. Size - 1
  PROVE  /\ Wrap(Wrap(w, n), j) \in 0 .. Size - 1
         /\ n + j < Size => Distance(w, Wrap(Wrap(w, n), j)) = n + j
         /\ n + j >= Size => Distance(w, Wrap(Wrap(w, n), j)) = n + j - Size
<1>. Size \in Nat \ {0} BY SizeAssumption
<1>1. CASE w + n < Size
  <2>1. CASE w + n + j < Size BY <1>1, <2>1 DEF Wrap, Distance
  <2>2. CASE ~(w + n + j < Size) BY <1>1, <2>2 DEF Wrap, Distance
  <2>. QED BY <2>1, <2>2
<1>2. CASE ~(w + n < Size)
  <2>1. CASE w + n - Size + j < Size BY <1>2, <2>1 DEF Wrap, Distance
  <2>2. CASE ~(w + n - Size + j < Size) BY <1>2, <2>2 DEF Wrap, Distance
  <2>. QED BY <2>1, <2>2
<1>. QED BY <1>1, <1>2

(* The place a bytes before the write index, seen from both indices.       *)
LEMMA SamePlace ==
  ASSUME NEW a \in 0 .. Size - 1, NEW w \in 0 .. Size - 1,
         NEW L \in 0 .. Size, NEW n \in 0 .. Size, NEW j \in 0 .. Size - 1,
         NEW q \in 0 .. Size - 1, q = L + n + j - Size,
         w = a + L \/ w = a + L - Size
  PROVE  Wrap(a, q) = Wrap(Wrap(w, n), j)
<1>. Size \in Nat \ {0} BY SizeAssumption
<1>1. CASE w = a + L
  <2>1. CASE w + n < Size BY <1>1, <2>1 DEF Wrap
  <2>2. CASE ~(w + n < Size) BY <1>1, <2>2 DEF Wrap
  <2>. QED BY <2>1, <2>2
<1>2. CASE w = a + L - Size
  <2>1. CASE w + n < Size BY <1>2, <2>1 DEF Wrap
  <2>2. CASE ~(w + n < Size) BY <1>2, <2>2 DEF Wrap
  <2>. QED BY <2>1, <2>2
<1>. QED BY <1>1, <1>2

(* The members of a concatenation. *)
LEMMA CatMembers ==
  ASSUME NEW S, NEW s \in Seq(S), NEW t \in Seq(S)
  PROVE  /\ s \o t \in Seq(S) /\ Len(s \o t) = Len(s) + Len(t)
         /\ \A i \in 1 .. Len(s) + Len(t) :
              (s \o t)[i] = IF i <= Len(s) THEN s[i] ELSE t[i - Len(s)]
OBVIOUS

(* The last n members of a sequence. *)
Newer(s, n) == SubSeq(s, Len(s) - n + 1, Len(s))

LEMMA NewerMembers ==
  ASSUME NEW S, NEW s \in Seq(S), NEW n \in 0 .. Len(s)
  PROVE  /\ Newer(s, n) \in Seq(S) /\ Len(Newer(s, n)) = n
         /\ \A i \in 1 .. n : Newer(s, n)[i] = s[Len(s) - n + i]
<1>1. Newer(s, n) \in Seq(S) /\ Len(Newer(s, n)) = n BY DEF Newer
<1>2. ASSUME NEW i \in 1 .. n PROVE Newer(s, n)[i] = s[Len(s) - n + i]
  BY DEF Newer
<1>. QED BY <1>1, <1>2

(* A forced write of more than the room leaves a full ring that holds the  *)
(* newest Size bytes.                                                      *)
LEMMA OverwriteContents ==
  ASSUME NEW r, Valid(r), NEW d \in Seq(Values),
         Len(d) <= Size, Len(d) > SpaceLen(r)
  PROVE  /\ Valid(PutForce(r, d))
         /\ Contents(PutForce(r, d)) = Newer(Contents(r) \o d, Size)
<1> DEFINE n == Len(d)
           c == CopyIn(r, d, n)
           m == MoveWrite(c, n)
           w == PutForce(r, d)
           s == Contents(r)
<1>1. /\ Valid(c) /\ c.ri = r.ri /\ c.rm = r.rm /\ c.wi = r.wi /\ c.wm = r.wm
  BY CopyInValid
<1>2. \A k \in Index : c.buf[k] = IF Distance(r.wi, k) < n
                                   THEN d[Distance(r.wi, k) + 1] ELSE r.buf[k]
  BY DEF CopyIn, Valid, Ring
<1>3. Newest(d) = d BY SizeAssumption DEF Newest
<1>4. w = [m EXCEPT !.ri = m.wi,
                    !.rm = IF Size - r.wi <= n /\ m.wi <= r.ri
                             THEN Flip(r.rm) ELSE r.rm]
  BY <1>3, Lengths DEF PutForce
<1> HIDE DEF c
<1>5. /\ Size \in Nat \ {0} /\ n \in Nat /\ n <= Size
      /\ r.ri \in 0 .. Size - 1 /\ r.wi \in 0 .. Size - 1
      /\ r.rm \in {0, 1} /\ r.wm \in {0, 1}
      /\ IF r.rm = r.wm THEN r.ri <= r.wi ELSE r.wi <= r.ri
      /\ DataLen(r) \in 0 .. Size /\ n > Size - DataLen(r)
      /\ r.rm = r.wm => DataLen(r) = r.wi - r.ri
      /\ r.rm # r.wm => DataLen(r) = Size + r.wi - r.ri
  BY Lengths, SizeAssumption DEF Valid, Ring, Index, Mirrored, SpaceLen
<1>6. /\ m.buf = c.buf /\ m.ri = r.ri /\ m.rm = r.rm /\ m.wi = Wrap(r.wi, n)
      /\ m.wm = IF Size - r.wi > n THEN r.wm ELSE Flip(r.wm)
      /\ m \in Ring
  <2>1. CASE Size - r.wi > n
    <3>1. m = [c EXCEPT !.wi = r.wi + n] BY <1>1, <2>1 DEF MoveWrite
    <3>2. r.wi + n \in Index /\ Wrap(r.wi, n) = r.wi + n
      BY <1>5, <2>1 DEF Index, Wrap
    <3>. QED BY <1>1, <2>1, <3>1, <3>2 DEF Valid, Ring
  <2>2. CASE ~(Size - r.wi > n)
    <3>1. m = [c EXCEPT !.wi = n - (Size - r.wi), !.wm = Flip(r.wm)]
      BY <1>1, <2>2 DEF MoveWrite
    <3>2. /\ n - (Size - r.wi) \in Index /\ Flip(r.wm) \in {0, 1}
          /\ Wrap(r.wi, n) = n - (Size - r.wi)
      BY <1>5, <2>2 DEF Index, Wrap, Flip
    <3>. QED BY <1>1, <2>2, <3>1, <3>2 DEF Valid, Ring
  <2>. QED BY <2>1, <2>2
<1> HIDE DEF m
<1>7. Flip(r.rm) \in {0, 1} /\ Flip(r.wm) \in {0, 1} BY <1>5 DEF Flip
<1>8. /\ w \in Ring /\ w.buf = c.buf /\ w.wi = Wrap(r.wi, n) /\ w.ri = w.wi
      /\ w.wm = IF Size - r.wi > n THEN r.wm ELSE Flip(r.wm)
      /\ w.rm = IF Size - r.wi <= n /\ Wrap(r.wi, n) <= r.ri
                  THEN Flip(r.rm) ELSE r.rm
  BY <1>4, <1>5, <1>6, <1>7 DEF Ring
<1> HIDE DEF w
<1>9. w.rm # w.wm
  <2>1. CASE Size - r.wi > n BY <1>5, <1>8, <2>1 DEF Wrap, Flip
  <2>2. CASE ~(Size - r.wi > n) BY <1>5, <1>8, <2>2 DEF Wrap, Flip
  <2>. QED BY <2>1, <2>2
<1>10. Valid(w) /\ DataLen(w) = Size
  <2>1. w.ri \in 0 .. Size - 1 BY <1>5, <1>8 DEF Wrap
  <2>2. Valid(w) BY <1>8, <1>9, <2>1 DEF Valid, Mirrored
  <2>. QED BY <1>5, <1>8, <1>9, <2>1, <2>2, Lengths
<1>11. /\ s \in Seq(Values) /\ Len(s) = DataLen(r)
       /\ \A i \in 1 .. DataLen(r) : s[i] = r.buf[Wrap(r.ri, i - 1)]
  BY ContentsType
<1>12. /\ Contents(w) \in Seq(Values) /\ Len(Contents(w)) = Size
       /\ \A i \in 1 .. Size : Contents(w)[i] = c.buf[Wrap(Wrap(r.wi, n), i - 1)]
  BY <1>8, <1>10, ContentsType
<1> HIDE DEF s
<1> DEFINE t == s \o d
           u == Newer(t, Size)
           o == DataLen(r) + n - Size
<1>13. /\ t \in Seq(Values) /\ Len(t) = DataLen(r) + n
       /\ \A i \in 1 .. DataLen(r) + n :
            t[i] = IF i <= DataLen(r) THEN s[i] ELSE d[i - DataLen(r)]
  <2>1. /\ t \in Seq(Values) /\ Len(t) = Len(s) + Len(d)
        /\ \A i \in 1 .. Len(s) + Len(d) :
             t[i] = IF i <= Len(s) THEN s[i] ELSE d[i - Len(s)]
    BY <1>11, CatMembers
  <2>. HIDE DEF t
  <2>. QED BY <1>11, <2>1
<1> HIDE DEF t
<1>14. /\ u \in Seq(Values) /\ Len(u) = Size
       /\ \A i \in 1 .. Size : u[i] = t[o + i]
  <2>1. Size \in 0 .. Len(t) /\ Len(t) - Size = o BY <1>5, <1>13
  <2>2. /\ u \in Seq(Values) /\ Len(u) = Size
        /\ \A i \in 1 .. Size : u[i] = t[Len(t) - Size + i]
    BY <1>13, <2>1, NewerMembers
  <2>. HIDE DEF u, o
  <2>. QED BY <2>1, <2>2
<1> HIDE DEF u
<1>15. ASSUME NEW i \in 1 .. Size PROVE Contents(w)[i] = u[i]
  <2> DEFINE k == Wrap(Wrap(r.wi, n), i - 1)
             D == Distance(r.wi, k)
  <2>1. /\ k \in 0 .. Size - 1
        /\ n + (i - 1) < Size => D = n + (i - 1)
        /\ n + (i - 1) >= Size => D = n + (i - 1) - Size
    <3>1. i - 1 \in 0 .. Size - 1 /\ n \in 0 .. Size BY <1>5
    <3>. HIDE DEF n
    <3>. QED BY <1>5, <3>1, WrapDistance
  <2>0. DataLen(r) \in Nat /\ n \in Nat /\ Size \in Nat BY <1>5
  <2>2. Contents(w)[i] = IF D < n THEN d[D + 1] ELSE r.buf[k]
    BY <1>2, <1>12, <2>1 DEF Index
  <2>3. PICK p \in 1 .. DataLen(r) + n : p = o + i BY <1>5
  <2>4. u[i] = IF p <= DataLen(r) THEN s[p] ELSE d[p - DataLen(r)]
    BY <1>13, <1>14, <2>3
  <2>5. CASE p <= DataLen(r)
    <3>1. ~(D < n)
      <4>1. n + (i - 1) < Size BY <2>3, <2>5, <2>0
      <4>2. D = n + (i - 1) BY <2>1, <4>1
      <4>. HIDE DEF D, k, n
      <4>. QED BY <2>0, <4>2
    <3>2. Wrap(r.ri, p - 1) = k
      <4>1. p - 1 = DataLen(r) + n + (i - 1) - Size BY <2>3, <2>0
      <4>2. r.wi = r.ri + DataLen(r) \/ r.wi = r.ri + DataLen(r) - Size
        BY <1>5
      <4>3. /\ r.ri \in 0 .. Size - 1 /\ r.wi \in 0 .. Size - 1
            /\ DataLen(r) \in 0 .. Size /\ n \in 0 .. Size
            /\ i - 1 \in 0 .. Size - 1 /\ p - 1 \in 0 .. Size - 1
        BY <1>5, <2>3, <2>5, <2>0
      <4>. HIDE DEF n
      <4>. QED BY <4>1, <4>2, <4>3, SamePlace DEF k
    <3>3. p \in 1 .. DataLen(r) BY <1>5, <2>3, <2>5
    <3>4. s[p] = r.buf[Wrap(r.ri, p - 1)] BY <1>11, <3>3
    <3>. QED BY <2>2, <2>4, <2>5, <3>1, <3>2, <3>4
  <2>6. CASE ~(p <= DataLen(r))
    <3>1. D < n /\ D + 1 = p - DataLen(r)
      <4>1. n + (i - 1) >= Size BY <2>3, <2>6, <2>0
      <4>2. D = n + (i - 1) - Size BY <2>1, <4>1
      <4>. HIDE DEF D, k, n
      <4>. QED BY <2>3, <2>0, <4>2
    <3>. QED BY <2>2, <2>4, <2>6, <3>1
  <2>. QED BY <2>5, <2>6
<1>16. Contents(w) = u BY <1>12, <1>14, <1>15, SeqEqual
<1>. QED BY <1>10, <1>16 DEF w, u, t, s

(* A forced write keeps the newest bytes, as many as the ring holds.       *)
LEMMA PutForceContents ==
  ASSUME NEW r, Valid(r), NEW d \in Seq(Values)
  PROVE  /\ Valid(PutForce(r, d))
         /\ Contents(PutForce(r, d)) =
              LET t == Contents(r) \o d
              IN  Newer(t, Smaller(Size, Len(t)))
<1> DEFINE s == Contents(r)
           t == s \o d
           e == Newest(d)
<1>1. /\ s \in Seq(Values) /\ Len(s) = DataLen(r) /\ DataLen(r) \in 0 .. Size
      /\ SpaceLen(r) = Size - DataLen(r) /\ Size \in Nat \ {0}
      /\ Len(d) \in Nat
  BY ContentsType, Lengths, SizeAssumption DEF SpaceLen
<1>2. /\ t \in Seq(Values) /\ Len(t) = Len(s) + Len(d)
      /\ \A i \in 1 .. Len(s) + Len(d) :
           t[i] = IF i <= Len(s) THEN s[i] ELSE d[i - Len(s)]
  BY <1>1, CatMembers
<1>3. CASE Len(d) <= SpaceLen(r)
  <2>1. e = d BY <1>1, <1>3 DEF Newest
  <2>2. PutForce(r, d) = MoveWrite(CopyIn(r, d, Len(d)), Len(d))
    BY <1>3, <2>1 DEF PutForce
  <2>3. SubSeq(d, 1, Len(d)) = d BY <1>1
  <2>4. Valid(PutForce(r, d)) /\ Contents(PutForce(r, d)) = t
    <3>1. Len(d) \in 0 .. Len(d) BY <1>1
    <3>2. /\ Valid(MoveWrite(CopyIn(r, d, Len(d)), Len(d)))
          /\ Contents(MoveWrite(CopyIn(r, d, Len(d)), Len(d)))
               = Contents(r) \o SubSeq(d, 1, Len(d))
      BY <1>3, <3>1, AppendContents
    <3>. QED BY <2>2, <2>3, <3>2
  <2>5. Smaller(Size, Len(t)) = Len(t) BY <1>1, <1>2, <1>3 DEF Smaller
  <2>6. Newer(t, Len(t)) = t
    <3>. HIDE DEF t
    <3>1. Len(t) \in Nat /\ Len(t) - Len(t) + 1 = 1 BY <1>2
    <3>. QED BY <1>2, <3>1 DEF Newer
  <2>. QED BY <2>4, <2>5, <2>6
<1>4. CASE Len(d) > SpaceLen(r) /\ Len(d) <= Size
  <2>1. Smaller(Size, Len(t)) = Size BY <1>1, <1>2, <1>4 DEF Smaller
  <2>. QED BY <1>4, <2>1, OverwriteContents
<1>5. CASE Len(d) > Size
  <2>1. e = Newer(d, Size) BY <1>5 DEF Newest, Newer
  <2>2. /\ e \in Seq(Values) /\ Len(e) = Size
        /\ \A i \in 1 .. Size : e[i] = d[Len(d) - Size + i]
    <3>1. Size \in 0 .. Len(d) BY <1>1, <1>5
    <3>. HIDE DEF e
    <3>. QED BY <2>1, <3>1, NewerMembers
  <2>3. /\ Newer(t, Size) \in Seq(Values) /\ Len(Newer(t, Size)) = Size
        /\ \A i \in 1 .. Size : Newer(t, Size)[i] = t[Len(t) - Size + i]
    <3>1. Size \in 0 .. Len(t) BY <1>1, <1>2, <1>5
    <3>. HIDE DEF t
    <3>. QED BY <1>2, <3>1, NewerMembers
  <2>4. Newer(t, Size) = e
    <3>1. ASSUME NEW i \in 1 .. Size PROVE Newer(t, Size)[i] = e[i]
      <4>. HIDE DEF t, s, e
      <4>1. Len(t) - Size + i \in 1 .. Len(s) + Len(d) BY <1>1, <1>2, <1>5
      <4>2. PICK q \in 1 .. Len(s) + Len(d) : q = Len(t) - Size + i BY <4>1
      <4>3. ~(q <= Len(s)) /\ q - Len(s) = Len(d) - Size + i
        BY <1>1, <1>2, <1>5, <4>2
      <4>. QED BY <1>2, <2>2, <2>3, <4>2, <4>3
    <3>. HIDE DEF t, e
    <3>. QED BY <2>2, <2>3, <3>1, SeqEqual
  <2>5. Smaller(Size, Len(t)) = Size BY <1>1, <1>2, <1>5 DEF Smaller
  <2>6. PutForce(r, d) = PutForce(r, e)
    <3>1. Newest(e) = e BY <1>1, <2>2 DEF Newest
    <3>. QED BY <3>1 DEF PutForce
  <2>7. CASE Size > SpaceLen(r)
    <3>1. /\ Valid(PutForce(r, e))
          /\ Contents(PutForce(r, e)) = Newer(s \o e, Size)
      <4>. HIDE DEF e
      <4>. QED BY <1>1, <2>2, <2>7, OverwriteContents
    <3>2. Newer(s \o e, Size) = e
      <4>. HIDE DEF e, s
      <4>1. /\ s \o e \in Seq(Values) /\ Len(s \o e) = Len(s) + Size
            /\ \A i \in 1 .. Len(s) + Size :
                 (s \o e)[i] = IF i <= Len(s) THEN s[i] ELSE e[i - Len(s)]
        BY <1>1, <2>2, CatMembers
      <4>2. Size \in 0 .. Len(s \o e) BY <1>1, <4>1
      <4>3. /\ Newer(s \o e, Size) \in Seq(Values)
            /\ Len(Newer(s \o e, Size)) = Size
            /\ \A i \in 1 .. Size : Newer(s \o e, Size)[i]
                                      = (s \o e)[Len(s \o e) - Size + i]
        BY <4>1, <4>2, NewerMembers
      <4>4. ASSUME NEW i \in 1 .. Size PROVE Newer(s \o e, Size)[i] = e[i]
        <5>1. Len(s \o e) - Size + i \in 1 .. Len(s) + Size BY <1>1, <4>1
        <5>2. PICK q \in 1 .. Len(s) + Size : q = Len(s \o e) - Size + i BY <5>1
        <5>3. ~(q <= Len(s)) /\ q - Len(s) = i BY <1>1, <4>1, <5>2
        <5>. QED BY <4>1, <4>3, <5>2, <5>3
      <4>. QED BY <2>2, <4>3, <4>4, SeqEqual
    <3>. QED BY <2>4, <2>5, <2>6, <3>1, <3>2
  <2>8. CASE ~(Size > SpaceLen(r))
    <3>1. DataLen(r) = 0 /\ Len(e) <= SpaceLen(r) BY <1>1, <2>2, <2>8
    <3>2. PutForce(r, e) = MoveWrite(CopyIn(r, e, Len(e)), Len(e))
      <4>1. Newest(e) = e BY <1>1, <2>2 DEF Newest
      <4>. HIDE DEF e
      <4>. QED BY <3>1, <4>1 DEF PutForce
    <3>3. /\ Valid(PutForce(r, e))
          /\ Contents(PutForce(r, e)) = s \o SubSeq(e, 1, Len(e))
      <4>. HIDE DEF e
      <4>1. Len(e) \in 0 .. Len(e) BY <1>1, <2>2
      <4>2. /\ Valid(MoveWrite(CopyIn(r, e, Len(e)), Len(e)))
            /\ Contents(MoveWrite(CopyIn(r, e, Len(e)), Len(e)))
                 = Contents(r) \o SubSeq(e, 1, Len(e))
        BY <2>2, <3>1, <4>1, AppendContents
      <4>. QED BY <3>2, <4>2
    <3>4. s \o SubSeq(e, 1, Len(e)) = e
      <4>. HIDE DEF e, s
      <4>. QED BY <1>1, <2>2, <3>1
    <3>. QED BY <2>4, <2>5, <2>6, <3>3, <3>4
  <2>. QED BY <2>7, <2>8
<1>. QED BY <1>1, <1>3, <1>4, <1>5

(* A store of one byte is a put of one byte. *)
LEMMA CharCalls ==
  ASSUME NEW r, Valid(r), NEW v \in Values
  PROVE  PutChar(r, v) = Put(r, <<v>>) /\ PutCharForce(r, v) = PutForce(r, <<v>>)
<1>1. /\ Size \in Nat \ {0} /\ r.ri \in 0 .. Size - 1 /\ r.wi \in 0 .. Size - 1
      /\ DataLen(r) \in 0 .. Size /\ SpaceLen(r) = Size - DataLen(r)
  BY Lengths, SizeAssumption DEF Valid, Ring, Index, SpaceLen
<1>2. Len(<<v>>) = 1 /\ <<v>> \in Seq(Values) OBVIOUS
<1>3. PutChar(r, v) = Put(r, <<v>>)
  <2>1. CASE SpaceLen(r) = 0
    <3>1. PutLen(r, <<v>>) = 0 BY <1>2, <2>1 DEF PutLen, Smaller
    <3>2. CopyIn(r, <<v>>, 0) = r
      <4>1. [k \in Index |-> IF Distance(r.wi, k) < 0
                THEN <<v>>[Distance(r.wi, k) + 1] ELSE r.buf[k]] = r.buf
        BY <1>1 DEF Valid, Ring, Index, Distance
      <4>. QED BY <4>1 DEF CopyIn, Valid, Ring
    <3>3. MoveWrite(r, 0) = r BY <1>1 DEF MoveWrite, Valid, Ring, Index
    <3>. QED BY <2>1, <3>1, <3>2, <3>3 DEF PutChar, Put
  <2>2. CASE SpaceLen(r) # 0
    <3>1. PutLen(r, <<v>>) = 1 BY <1>1, <1>2, <2>2 DEF PutLen, Smaller
    <3>. QED BY <2>2, <3>1 DEF PutChar, Put
  <2>. QED BY <2>1, <2>2
<1>4. PutCharForce(r, v) = PutForce(r, <<v>>)
  <2> DEFINE m == MoveWrite(CopyIn(r, <<v>>, 1), 1)
  <2>1. Newest(<<v>>) = <<v>> BY <1>1, <1>2 DEF Newest
  <2>2. IsFull(r) <=> ~(1 <= SpaceLen(r))
    <3>1. /\ r.rm = r.wm => DataLen(r) = r.wi - r.ri
          /\ r.rm # r.wm => DataLen(r) = Size + r.wi - r.ri
          /\ IF r.rm = r.wm THEN r.ri <= r.wi ELSE r.wi <= r.ri
      BY Lengths DEF Valid, Mirrored
    <3>2. CASE r.rm = r.wm BY <1>1, <3>1, <3>2 DEF IsFull
    <3>3. CASE r.rm # r.wm BY <1>1, <3>1, <3>3 DEF IsFull
    <3>. QED BY <3>2, <3>3
  <2>3. CASE ~IsFull(r) BY <1>2, <2>1, <2>2, <2>3 DEF PutCharForce, PutForce
  <2>4. CASE IsFull(r)
    <3>1. CopyIn(r, <<v>>, 1).wi = r.wi /\ CopyIn(r, <<v>>, 1) \in Ring
      <4>1. 1 \in 0 .. Len(<<v>>) BY <1>2
      <4>. QED BY <1>2, <4>1, CopyInValid DEF Valid
    <3>2. r.ri = r.wi BY <2>4 DEF IsFull
    <3>3. (Size - r.wi <= 1 /\ m.wi <= r.ri) <=> r.wi = Size - 1
      <4>1. CASE r.wi = Size - 1
        <5>1. m.wi = 0 BY <1>1, <3>1, <4>1 DEF MoveWrite, Ring
        <5>. QED BY <1>1, <3>2, <4>1, <5>1
      <4>2. CASE r.wi # Size - 1 BY <1>1, <4>2
      <4>. QED BY <4>1, <4>2
    <3>. QED BY <1>2, <2>1, <2>2, <2>4, <3>3 DEF PutCharForce, PutForce
  <2>. QED BY <2>3, <2>4
<1>. QED BY <1>3, <1>4

(* The linear read-out of the DMA is a peek. *)
LEMMA LinearCalls ==
  ASSUME NEW r, Valid(r)
  PROVE  /\ LinearLen(r) \in 0 .. DataLen(r)
         /\ UpdateReadIndex(r, LinearLen(r)) = MoveRead(r, LinearLen(r))
<1>1. /\ Size \in Nat \ {0} /\ r.ri \in 0 .. Size - 1 /\ DataLen(r) \in 0 .. Size
  BY Lengths, SizeAssumption DEF Valid, Ring, Index
<1>2. /\ LinearLen(r) \in 0 .. DataLen(r) /\ LinearLen(r) <= Size - r.ri
  BY <1>1 DEF LinearLen, Smaller
<1>3. Smaller(LinearLen(r), DataLen(r)) = LinearLen(r)
  BY <1>1, <1>2 DEF Smaller
<1>4. ~(Size - r.ri > LinearLen(r)) => LinearLen(r) = Size - r.ri
  BY <1>1, <1>2
<1>. QED BY <1>2, <1>3, <1>4 DEF UpdateReadIndex

-----------------------------------------------------------------------------
(* Places in the buffer, for models that follow the bytes one by one.      *)

(* A place is in the buffer, however far an index goes round. *)
LEMMA WrapInIndex ==
  ASSUME NEW a \in Index, NEW n \in 0 .. Size
  PROVE  Wrap(a, n) \in Index
BY SizeAssumption DEF Index, Wrap

(* Going on from a place. *)
LEMMA WrapTwice ==
  ASSUME NEW a \in Index, NEW m \in Nat, NEW n \in Nat, m + n <= Size, m < Size \/ n = 0
  PROVE  Wrap(Wrap(a, m), n) = Wrap(a, m + n)
<1>. Size \in Nat \ {0} /\ a \in 0 .. Size - 1 BY SizeAssumption DEF Index
<1>1. CASE a + m < Size BY <1>1 DEF Wrap
<1>2. CASE ~(a + m < Size) BY <1>2 DEF Wrap
<1>. QED BY <1>1, <1>2

(* The place j behind the write index is the one DataLen + j behind the    *)
(* read index.                                                             *)
LEMMA WriteEnd ==
  ASSUME NEW r, Valid(r), NEW j \in Nat, DataLen(r) + j < Size
  PROVE  Wrap(r.wi, j) = Wrap(r.ri, DataLen(r) + j)
<1>1. /\ DataLen(r) \in 0 .. Size /\ Size \in Nat \ {0}
      /\ r.ri \in 0 .. Size - 1 /\ r.wi \in 0 .. Size - 1
      /\ r.rm = r.wm => DataLen(r) = r.wi - r.ri
      /\ r.rm # r.wm => DataLen(r) = Size + r.wi - r.ri
  BY Lengths, SizeAssumption DEF Valid, Ring, Index
<1>2. CASE r.rm = r.wm BY <1>1, <1>2 DEF Wrap
<1>3. CASE r.rm # r.wm BY <1>1, <1>3 DEF Wrap
<1>. QED BY <1>2, <1>3

(* A stored byte is not among the n places that follow the write index. *)
LEMMA OutOfReach ==
  ASSUME NEW a \in 0 .. Size - 1, NEW w \in 0 .. Size - 1, NEW L \in 0 .. Size,
         w = a + L \/ w = a + L - Size,
         NEW n \in Nat, L + n <= Size, NEW i \in 1 .. L
  PROVE  /\ Wrap(a, i - 1) \in 0 .. Size - 1
         /\ ~(Distance(w, Wrap(a, i - 1)) < n)
<1>. Size \in Nat \ {0} BY SizeAssumption
<1>1. CASE w = a + L BY <1>1 DEF Wrap, Distance
<1>2. CASE w = a + L - Size BY <1>2 DEF Wrap, Distance
<1>. QED BY <1>1, <1>2

(* What fits is written behind the stored bytes and touches none of them.  *)
LEMMA CopyInBytes ==
  ASSUME NEW r, Valid(r), NEW d \in Seq(Values), NEW n \in 0 .. Len(d),
         n <= SpaceLen(r)
  PROVE  /\ \A i \in 1 .. DataLen(r) :
              CopyIn(r, d, n).buf[Wrap(r.ri, i - 1)] = r.buf[Wrap(r.ri, i - 1)]
         /\ \A i \in 1 .. n : CopyIn(r, d, n).buf[Wrap(r.wi, i - 1)] = d[i]
<1>1. /\ DataLen(r) \in 0 .. Size /\ n \in Nat /\ Size \in Nat \ {0}
      /\ DataLen(r) + n <= Size
      /\ r.ri \in 0 .. Size - 1 /\ r.wi \in 0 .. Size - 1
      /\ r.rm = r.wm => DataLen(r) = r.wi - r.ri
      /\ r.rm # r.wm => DataLen(r) = Size + r.wi - r.ri
  BY Lengths, SizeAssumption DEF Valid, Ring, Index
<1>2. \A k \in 0 .. Size - 1 :
        CopyIn(r, d, n).buf[k] = IF Distance(r.wi, k) < n
                                   THEN d[Distance(r.wi, k) + 1] ELSE r.buf[k]
  BY DEF CopyIn, Valid, Ring, Index
<1>3. ASSUME NEW i \in 1 .. DataLen(r)
      PROVE  /\ Wrap(r.ri, i - 1) \in 0 .. Size - 1
             /\ ~(Distance(r.wi, Wrap(r.ri, i - 1)) < n)
  <2>1. r.wi = r.ri + DataLen(r) \/ r.wi = r.ri + DataLen(r) - Size
    BY <1>1
  <2>. QED BY <1>1, <2>1, OutOfReach
<1>4. ASSUME NEW i \in 1 .. n
      PROVE  /\ Wrap(r.wi, i - 1) \in 0 .. Size - 1
             /\ Distance(r.wi, Wrap(r.wi, i - 1)) = i - 1
  BY <1>1 DEF Wrap, Distance
<1>5. ASSUME NEW i \in 1 .. DataLen(r)
      PROVE  CopyIn(r, d, n).buf[Wrap(r.ri, i - 1)] = r.buf[Wrap(r.ri, i - 1)]
  BY <1>2, <1>3
<1>6. ASSUME NEW i \in 1 .. n
      PROVE  CopyIn(r, d, n).buf[Wrap(r.wi, i - 1)] = d[i]
  BY <1>1, <1>2, <1>4
<1>. QED BY <1>5, <1>6

(* An index stays within its bit-field. *)
LEMMA SmallMod ==
  ASSUME NEW a \in Nat, NEW b \in Nat, a < b
  PROVE  a % b = a
OBVIOUS

=============================================================================

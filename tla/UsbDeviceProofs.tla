-------------------------- MODULE UsbDeviceProofs --------------------------
(* Proofs about UsbDevice, for every packet size, every length and every    *)
(* number of messages: bulk and control transfers are exact whatever gets   *)
(* lost.                                                                    *)
EXTENDS UsbDevice, SequenceTheorems, TLAPS

----------------------------------------------------------------------------
(* Bulk transfers: what the two ends of a direction know of each other.     *)

BulkType ==
  /\ in \in [enabled : BOOLEAN, tx : {"nak", "ack", "stall"}, toggle : {0, 1},
             soft : {0, 1}, txLen : Nat, at : Nat, len : Nat, actual : Nat]
  /\ out \in [enabled : BOOLEAN, rx : {"nak", "ack", "stall"}, toggle : {0, 1},
              auto : BOOLEAN, len : Int, actual : Nat, armed : BOOLEAN, buf : Seq(Nat)]
  /\ writes \in [stream : Seq(Nat), busy : BOOLEAN]
  /\ reads \in Seq(Nat)
  /\ peer \in [in : {0, 1}, out : {0, 1}, got : Seq(Nat), meant : Seq(Nat),
               acked : Nat, filled : Nat]
  /\ sound \in [in : BOOLEAN, out : BOOLEAN]

Agree(s, t) == Len(s) <= Len(t) /\ \A i \in 1 .. Len(s) : s[i] = t[i]

Multiple(a, p) == \E k \in Nat : a = p * k

(* The host has seen the packet in the IN endpoint, but the device missed   *)
(* the acknowledge.                                                         *)
InRepeats == in.toggle # peer.in

(* What the packet adds to the host's stream, in bytes and marks.           *)
InAdds == IF in.txLen < Packet THEN in.txLen + 1 ELSE in.txLen

(* The packet in the endpoint is of the last message, of which in.len bytes *)
(* are not acknowledged.                                                    *)
InTransfer ==
  in.tx = "ack" =>
    /\ in.enabled /\ writes.busy
    /\ in.toggle = in.soft /\ in.txLen = Least(in.len, Packet)
    /\ Multiple(in.actual, Packet) /\ (in.len = 0 => in.actual = 0)
    /\ writes.stream # <<>> /\ writes.stream[Len(writes.stream)] = End
    /\ in.len > 0 => in.at + in.len + 1 = Len(writes.stream)
    /\ in.len + 1 <= Len(writes.stream)

(* The host has what comes before it, and expects its toggle.               *)
InInv ==
  /\ Agree(peer.got, writes.stream)
  /\ ~writes.busy => /\ Len(peer.got) = Len(writes.stream)
                     /\ peer.in = in.soft
  /\ in.tx = "ack" =>
       Len(peer.got) = Len(writes.stream) - in.len - 1 + (IF InRepeats THEN InAdds ELSE 0)

(* The OUT packet the host repeats has been taken already.                  *)
OutRepeats == out.toggle # peer.out

Held == IF out.armed THEN Len(out.buf) ELSE 0
Rest == Len(peer.meant) - peer.acked - 1

(* Where the host's message stands: all but its last place is bytes, and    *)
(* what remains of it fits into what remains of the client's buffer.        *)
OutMeant ==
  /\ peer.acked <= Len(peer.meant)
  /\ peer.filled < Room
  /\ peer.acked = Len(peer.meant) => peer.filled = 0
  /\ peer.acked < Len(peer.meant) =>
       /\ peer.meant[Len(peer.meant)] = End
       /\ \A i \in peer.acked + 1 .. Len(peer.meant) - 1 : peer.meant[i] # End
       /\ peer.filled + Rest <= Room

(* How much of the client's buffer is full once the packet is taken.        *)
Filled ==
  IF ~OutRepeats THEN peer.filled
  ELSE IF Last(NextPacket) = End THEN 0 ELSE peer.filled + Packet

OutInv ==
  /\ out.auto
  /\ OutRepeats => peer.acked < Len(peer.meant)
  /\ Len(reads) + Held = peer.acked + (IF OutRepeats THEN Len(NextPacket) ELSE 0)
  /\ Agree(reads, peer.meant)
  /\ out.armed => /\ out.actual = Filled
                  /\ out.len = Room - out.actual /\ out.actual < Room
                  /\ \A i \in 1 .. Len(out.buf) : out.buf[i] = peer.meant[Len(reads) + i]
  /\ ~out.armed => Filled = 0

BulkInv ==
  /\ BulkType
  /\ ~in.enabled => in.soft = 0 /\ in.tx = "nak"
  /\ InTransfer
  /\ OutMeant
  /\ out.armed => out.actual = Len(out.buf)
  /\ sound.in => InInv
  /\ sound.out => OutInv

----------------------------------------------------------------------------
(* Sequences and multiples.                                                 *)

LEMMA Joined ==
  ASSUME NEW S, NEW s \in Seq(S), NEW t \in Seq(S)
  PROVE  /\ s \o t \in Seq(S) /\ Len(s \o t) = Len(s) + Len(t)
         /\ \A i \in 1 .. Len(s) + Len(t) :
              (s \o t)[i] = IF i <= Len(s) THEN s[i] ELSE t[i - Len(s)]
OBVIOUS

LEMMA Part ==
  ASSUME NEW S, NEW s \in Seq(S), NEW m \in 0 .. Len(s), NEW n \in m .. Len(s)
  PROVE  /\ SubSeq(s, m + 1, n) \in Seq(S) /\ Len(SubSeq(s, m + 1, n)) = n - m
         /\ \A i \in 1 .. n - m : SubSeq(s, m + 1, n)[i] = s[m + i]
<1>1. Len(s) \in Nat /\ m \in Nat /\ n \in Nat /\ m <= n BY LenProperties
<1>2. \A i \in m + 1 .. n : s[i] \in S BY <1>1
<1>3. /\ SubSeq(s, m + 1, n) \in Seq(S)
      /\ Len(SubSeq(s, m + 1, n)) = IF m + 1 <= n THEN n - (m + 1) + 1 ELSE 0
      /\ \A i \in 1 .. n - (m + 1) + 1 : SubSeq(s, m + 1, n)[i] = s[(m + 1) + i - 1]
  BY <1>1, <1>2, SubSeqProperties
<1>4. n - (m + 1) + 1 = n - m /\ (m + 1 <= n \/ n - m = 0) BY <1>1
<1>5. \A i \in 1 .. n - m : (m + 1) + i - 1 = m + i BY <1>1
<1>. QED BY <1>3, <1>4, <1>5

LEMMA AgreeIsPrefix ==
  ASSUME NEW S, NEW s \in Seq(S), NEW t \in Seq(S), Agree(s, t)
  PROVE  IsPrefix(s, t)
<1>1. Len(s) \in Nat /\ Len(t) \in Nat /\ Len(s) <= Len(t) BY DEF Agree
<1>2. /\ SubSeq(s, 1, Len(s)) \in Seq(S) /\ Len(SubSeq(s, 1, Len(s))) = Len(s)
      /\ \A i \in 1 .. Len(s) : SubSeq(s, 1, Len(s))[i] = s[i]
  BY <1>1, Part
<1>3. /\ SubSeq(t, 1, Len(s)) \in Seq(S) /\ Len(SubSeq(t, 1, Len(s))) = Len(s)
      /\ \A i \in 1 .. Len(s) : SubSeq(t, 1, Len(s))[i] = t[i]
  BY <1>1, Part
<1>4. \A i \in 1 .. Len(s) : s[i] = t[i] BY DEF Agree
<1>. QED BY <1>1, <1>2, <1>3, <1>4 DEF IsPrefix

LEMMA Remainder ==
  ASSUME NEW P \in Nat \ {0}, NEW k \in Nat, NEW n \in 0 .. P - 1
  PROVE  (P * k + n) % P = n
OBVIOUS

(* A transfer of full packets and n bytes more ends with a full packet. *)
LEMMA FullMultiple ==
  ASSUME NEW P \in Nat \ {0}, NEW a \in Nat, Multiple(a, P), NEW n \in 0 .. P
  PROVE  (a + n) % P = 0 <=> n \in {0, P}
<1>1. PICK k \in Nat : a = P * k BY DEF Multiple
<1>2. CASE n # P
  <2>1. (P * k + n) % P = n BY <1>2, Remainder
  <2>. QED BY <1>1, <1>2, <2>1
<1>3. CASE n = P
  <2>1. P * k + P = P * (k + 1) + 0 OBVIOUS
  <2>2. (P * (k + 1) + 0) % P = 0 BY Remainder
  <2>. QED BY <1>1, <1>3, <2>1, <2>2
<1>. QED BY <1>2, <1>3

LEMMA NextMultiple ==
  ASSUME NEW P \in Nat \ {0}, NEW a \in Nat, Multiple(a, P)
  PROVE  Multiple(a + P, P) /\ Multiple(0, P)
<1>1. PICK k \in Nat : a = P * k BY DEF Multiple
<1>2. a + P = P * (k + 1) /\ 0 = P * 0 BY <1>1
<1>. QED BY <1>2 DEF Multiple

LEMMA MessageShape ==
  ASSUME NEW s \in Seq(Nat), NEW n \in Nat
  PROVE  /\ Message(s, n) \in Seq(Nat) /\ Len(Message(s, n)) = n + 1
         /\ Message(s, n)[n + 1] = End
         /\ \A i \in 1 .. n : Message(s, n)[i] # End
<1>1. Len(s) \in Nat OBVIOUS
<1>. QED BY <1>1 DEF Message, End

(* A stream with its next message. *)
LEMMA Extended ==
  ASSUME NEW s \in Seq(Nat), NEW n \in Nat
  PROVE  /\ s \o Message(s, n) \in Seq(Nat) /\ Len(s \o Message(s, n)) = Len(s) + n + 1
         /\ s \o Message(s, n) # <<>>
         /\ \A i \in 1 .. Len(s) : (s \o Message(s, n))[i] = s[i]
         /\ \A i \in Len(s) + 1 .. Len(s) + n : (s \o Message(s, n))[i] # End
         /\ (s \o Message(s, n))[Len(s) + n + 1] = End
<1>1. PICK m : m = Message(s, n) OBVIOUS
<1>2. m \in Seq(Nat) /\ Len(m) = n + 1 /\ m[n + 1] = End /\ \A i \in 1 .. n : m[i] # End
  BY <1>1, MessageShape
<1>3. /\ s \o m \in Seq(Nat) /\ Len(s \o m) = Len(s) + Len(m)
      /\ \A i \in 1 .. Len(s) + Len(m) :
           (s \o m)[i] = IF i <= Len(s) THEN s[i] ELSE m[i - Len(s)]
  BY <1>2, Joined
<1>4. Len(s) \in Nat OBVIOUS
<1>5. Len(s \o m) = Len(s) + n + 1 BY <1>2, <1>3, <1>4
<1>6. ASSUME NEW i \in 1 .. Len(s) PROVE (s \o m)[i] = s[i]
  <2>1. i \in 1 .. Len(s) + Len(m) /\ i <= Len(s) BY <1>2, <1>4
  <2>. QED BY <1>3, <2>1
<1>7. ASSUME NEW i \in Len(s) + 1 .. Len(s) + n PROVE (s \o m)[i] # End
  <2>1. i \in 1 .. Len(s) + Len(m) /\ ~(i <= Len(s)) /\ i - Len(s) \in 1 .. n BY <1>2, <1>4
  <2>. QED BY <1>2, <1>3, <2>1
<1>8. (s \o m)[Len(s) + n + 1] = End
  <2> DEFINE i == Len(s) + n + 1
  <2>1. i \in 1 .. Len(s) + Len(m) /\ ~(i <= Len(s)) /\ i - Len(s) = n + 1 BY <1>2, <1>4
  <2>2. (s \o m)[i] = m[i - Len(s)] BY <1>3, <2>1
  <2>. QED BY <1>2, <2>1, <2>2
<1>9. s \o m # <<>> BY <1>3, <1>4, <1>5
<1>. QED BY <1>1, <1>3, <1>5, <1>6, <1>7, <1>8, <1>9

----------------------------------------------------------------------------
(* The IN endpoint.                                                         *)

LEMMA InitBulk == BulkInit => BulkInv
BY BulkAssumption DEF BulkInit, BulkInv, BulkType, NoIn, NoOut, NoPeer, InInv, InTransfer, OutInv,
   OutMeant, OutRepeats, Held, Filled, Rest, Agree

(* What the OUT direction depends on. *)
LEMMA OutSame ==
  ASSUME BulkInv, UNCHANGED <<out, reads, sound>>,
         peer'.out = peer.out, peer'.meant = peer.meant,
         peer'.acked = peer.acked, peer'.filled = peer.filled
  PROVE  OutMeant' /\ (out.armed => out.actual = Len(out.buf))' /\ (sound.out => OutInv)'
<1>1. Rest' = Rest /\ OutRepeats' = OutRepeats /\ Held' = Held BY DEF Rest, OutRepeats, Held
<1>2. NextPacket' = NextPacket BY DEF NextPacket
<1>3. Filled' = Filled BY <1>1, <1>2 DEF Filled
<1>4. OutMeant' BY <1>1 DEF BulkInv, OutMeant
<1>5. OutInv => OutInv' BY <1>1, <1>2, <1>3 DEF OutInv, Agree
<1>. QED BY <1>4, <1>5 DEF BulkInv

LEMMA ClientWritesStep ==
  ASSUME BulkInv, NEW n \in 0 .. Room, ClientWrites(n)
  PROVE  BulkInv'
<1> DEFINE w == writes.stream
           m == Message(w, n)
<1>0. BulkType /\ Packet \in Nat \ {0} /\ Room \in Nat /\ n \in Nat BY BulkAssumption DEF BulkInv
<1>1. /\ ~writes.busy /\ in' = BulkWrite(in, Len(w), n)
      /\ writes' = [stream |-> w \o m, busy |-> TRUE]
      /\ UNCHANGED <<out, reads, peer, sound>>
  BY DEF ClientWrites
<1>2. w \in Seq(Nat) /\ Len(w) \in Nat /\ peer.got \in Seq(Nat) /\ Len(peer.got) \in Nat
  BY <1>0 DEF BulkType
<1>4. /\ w \o m \in Seq(Nat) /\ Len(w \o m) = Len(w) + n + 1 /\ w \o m # <<>>
      /\ \A i \in 1 .. Len(w) : (w \o m)[i] = w[i]
      /\ (w \o m)[Len(w) + n + 1] = End
  BY <1>0, <1>2, Extended
<1> HIDE DEF m
<1>5. /\ in'.enabled = in.enabled /\ in'.soft = in.soft
      /\ ~in.enabled => in' = in
      /\ in.enabled => /\ in'.tx = "ack" /\ in'.toggle = in.soft /\ in'.len = n
                       /\ in'.actual = 0 /\ in'.at = Len(w) /\ in'.txLen = Least(n, Packet)
      /\ in' \in [enabled : BOOLEAN, tx : {"nak", "ack", "stall"}, toggle : {0, 1},
                  soft : {0, 1}, txLen : Nat, at : Nat, len : Nat, actual : Nat]
  BY <1>0, <1>1, <1>2 DEF BulkWrite, BulkType, Least
<1>6. BulkType' BY <1>0, <1>1, <1>4, <1>5 DEF BulkType
<1>7. OutMeant' /\ (out.armed => out.actual = Len(out.buf))' /\ (sound.out => OutInv)'
  BY <1>1, OutSame
<1>a. ASSUME Agree(peer.got, w) PROVE Agree(peer.got, w \o m)
  <2>1. PICK L \in Nat : L = Len(w) BY <1>2
  <2>2. PICK G \in Nat : G = Len(peer.got) BY <1>2
  <2>3. G <= L /\ \A i \in 1 .. G : peer.got[i] = w[i] BY <1>a, <2>1, <2>2 DEF Agree
  <2>4. Len(w \o m) = L + n + 1 /\ \A i \in 1 .. L : (w \o m)[i] = w[i] BY <1>4, <2>1
  <2>5. G <= L + n + 1 /\ \A i \in 1 .. G : i \in 1 .. L BY <1>0, <2>3
  <2>. QED BY <2>2, <2>3, <2>4, <2>5 DEF Agree
<1>8. CASE ~in.enabled
  <2>1. in'.tx = "nak" /\ in' = in BY <1>5, <1>8 DEF BulkInv
  <2>2. InTransfer' BY <2>1 DEF InTransfer
  <2>3. ASSUME sound.in PROVE InInv'
    <3>1. Agree(peer.got, w) BY <2>3 DEF BulkInv, InInv
    <3>2. Agree(peer.got, w \o m) BY <1>a, <3>1
    <3>. QED BY <1>1, <2>1, <3>2 DEF InInv
  <2>. QED BY <1>1, <1>6, <1>7, <1>8, <2>1, <2>2, <2>3 DEF BulkInv
<1>9. CASE in.enabled
  <2>1. /\ writes'.busy /\ writes'.stream = w \o m /\ peer' = peer
        /\ in'.len = n /\ in'.actual = 0 /\ in'.at = Len(w) /\ in'.txLen = Least(n, Packet)
        /\ in'.enabled /\ in'.toggle = in'.soft /\ in'.soft = in.soft
    BY <1>1, <1>5, <1>9
  <2>2. PICK L \in Nat : L = Len(w) BY <1>2
  <2>3. PICK g \in Nat : g = Len(w \o m) /\ g = L + n + 1 BY <1>0, <1>4, <2>2
  <2>4. Multiple(0, Packet)
    <3>1. 0 = Packet * 0 BY <1>0
    <3>. QED BY <3>1 DEF Multiple
  <2>5. InTransfer'
    <3>1. (w \o m)[g] = End BY <1>4, <2>2, <2>3
    <3>2. L + n + 1 = g /\ n + 1 <= g BY <1>0, <2>3
    <3>. QED BY <1>4, <2>1, <2>2, <2>3, <2>4, <3>1, <3>2 DEF InTransfer
  <2>6. ASSUME sound.in PROVE InInv'
    <3>1. Agree(peer.got, w) /\ Len(peer.got) = L /\ peer.in = in.soft
      BY <1>1, <2>2, <2>6 DEF BulkInv, InInv
    <3>2. Agree(peer.got, w \o m) BY <1>a, <3>1
    <3>3. ~InRepeats' BY <1>1, <2>1, <3>1 DEF InRepeats
    <3>4. L = g - n - 1 + 0 BY <1>0, <2>3
    <3>. QED BY <2>1, <2>3, <3>1, <3>2, <3>3, <3>4 DEF InInv
  <2>. QED BY <1>1, <1>6, <1>7, <1>9, <2>1, <2>5, <2>6 DEF BulkInv
<1>. QED BY <1>8, <1>9

(* The host has taken the packet; whether it is acknowledged is another     *)
(* matter.                                                                  *)
LEMMA Taken ==
  ASSUME BulkInv, NEW lost \in BOOLEAN, HostTakes(lost)
  PROVE  /\ peer' \in [in : {0, 1}, out : {0, 1}, got : Seq(Nat), meant : Seq(Nat),
                       acked : Nat, filled : Nat]
         /\ peer'.out = peer.out /\ peer'.meant = peer.meant
         /\ peer'.acked = peer.acked /\ peer'.filled = peer.filled
         /\ sound.in => /\ Agree(peer'.got, writes.stream) /\ in.toggle # peer'.in
                        /\ Len(peer'.got) = Len(writes.stream) - in.len - 1 + InAdds
<1> DEFINE w == writes.stream
           bytes == SubSeq(w, in.at + 1, in.at + in.txLen)
           whole == IF in.txLen < Packet THEN Append(bytes, End) ELSE bytes
<1>0. BulkType /\ InTransfer /\ Packet \in Nat \ {0} BY BulkAssumption DEF BulkInv
<1>1. /\ in.tx = "ack"
      /\ peer' = IF in.toggle = peer.in
                 THEN [peer EXCEPT !.in = 1 - @, !.got = @ \o whole] ELSE peer
  BY DEF HostTakes
<1>2. /\ w \in Seq(Nat) /\ Len(w) \in Nat /\ in.at \in Nat /\ in.len \in Nat
      /\ in.txLen = Least(in.len, Packet) /\ in.txLen \in 0 .. in.len /\ in.txLen <= Packet
      /\ in.len > 0 => in.at + in.len + 1 = Len(w)
      /\ w[Len(w)] = End /\ in.len + 1 <= Len(w) /\ in.toggle \in {0, 1}
  <2>1. /\ w \in Seq(Nat) /\ in.at \in Nat /\ in.len \in Nat /\ in.toggle \in {0, 1}
    BY <1>0 DEF BulkType
  <2>2. /\ in.txLen = Least(in.len, Packet) /\ w[Len(w)] = End
        /\ in.len > 0 => in.at + in.len + 1 = Len(w)
        /\ in.len + 1 <= Len(w)
    BY <1>0, <1>1 DEF InTransfer
  <2>3. PICK l \in Nat : l = in.len BY <2>1
  <2>4. Least(l, Packet) \in 0 .. l /\ Least(l, Packet) <= Packet
    BY <1>0, <2>3 DEF Least
  <2>. QED BY <2>1, <2>2, <2>3, <2>4
<1>3. /\ bytes \in Seq(Nat) /\ Len(bytes) = in.txLen
      /\ \A i \in 1 .. in.txLen : bytes[i] = w[in.at + i]
  <2>1. CASE in.len = 0
    <3>1. in.txLen = 0 /\ in.at + 1 \in Int /\ in.at + in.txLen \in Int
          /\ ~(in.at + 1 <= in.at + in.txLen)
      BY <1>2, <2>1
    <3>2. \A i \in in.at + 1 .. in.at + in.txLen : w[i] \in Nat BY <1>2, <3>1
    <3>3. bytes \in Seq(Nat) /\ Len(bytes) = 0 BY <3>1, <3>2, SubSeqProperties
    <3>. QED BY <3>1, <3>3
  <2>2. CASE in.len # 0
    <3>1. in.at \in 0 .. Len(w) /\ in.at + in.txLen \in in.at .. Len(w) BY <1>2, <2>2
    <3>2. in.at + in.txLen - in.at = in.txLen BY <1>2
    <3>3. PICK a \in 0 .. Len(w) : a = in.at BY <3>1
    <3>4. PICK b \in a .. Len(w) : b = in.at + in.txLen BY <3>1, <3>3
    <3>5. /\ SubSeq(w, a + 1, b) \in Seq(Nat) /\ Len(SubSeq(w, a + 1, b)) = b - a
          /\ \A i \in 1 .. b - a : SubSeq(w, a + 1, b)[i] = w[a + i]
      BY <1>2, Part
    <3>6. b - a = in.txLen BY <1>2, <3>3, <3>4
    <3>7. bytes = SubSeq(w, a + 1, b) BY <3>3, <3>4, Zenon
    <3>. QED BY <3>3, <3>5, <3>6, <3>7
  <2>. QED BY <2>1, <2>2
<1> HIDE DEF bytes
<1>4. /\ whole \in Seq(Nat) /\ Len(whole) = InAdds
      /\ \A i \in 1 .. in.txLen : whole[i] = w[in.at + i]
      /\ in.txLen < Packet => whole[in.txLen + 1] = End
  <2>1. CASE in.txLen < Packet
    <3>1. End \in Nat BY DEF End
    <3>2. /\ Append(bytes, End) \in Seq(Nat)
          /\ Len(Append(bytes, End)) = Len(bytes) + 1
          /\ \A i \in 1 .. Len(bytes) : Append(bytes, End)[i] = bytes[i]
          /\ Append(bytes, End)[Len(bytes) + 1] = End
      BY <1>3, <3>1, AppendProperties
    <3>. QED BY <1>3, <2>1, <3>2 DEF InAdds
  <2>2. CASE ~(in.txLen < Packet) BY <1>3, <2>2 DEF InAdds
  <2>. QED BY <2>1, <2>2
<1> HIDE DEF whole
<1>5. CASE in.toggle # peer.in
  <2>1. peer' = peer BY <1>1, <1>5
  <2>. QED BY <1>0, <1>1, <1>5, <2>1 DEF BulkType, BulkInv, InInv, InRepeats
<1>6. CASE in.toggle = peer.in
  <2>1. /\ peer.got \in Seq(Nat) /\ Len(peer.got) \in Nat /\ peer.in \in {0, 1}
        /\ peer \in [in : {0, 1}, out : {0, 1}, got : Seq(Nat), meant : Seq(Nat),
                     acked : Nat, filled : Nat]
    BY <1>0 DEF BulkType
  <2>2. /\ peer.got \o whole \in Seq(Nat)
        /\ Len(peer.got \o whole) = Len(peer.got) + Len(whole)
        /\ \A i \in 1 .. Len(peer.got) + Len(whole) :
             (peer.got \o whole)[i]
               = IF i <= Len(peer.got) THEN peer.got[i] ELSE whole[i - Len(peer.got)]
    BY <1>4, <2>1, Joined
  <2>3. peer' = [peer EXCEPT !.in = 1 - peer.in, !.got = peer.got \o whole] BY <1>1, <1>6
  <2>4. /\ peer' \in [in : {0, 1}, out : {0, 1}, got : Seq(Nat), meant : Seq(Nat),
                      acked : Nat, filled : Nat]
        /\ peer'.out = peer.out /\ peer'.meant = peer.meant
        /\ peer'.acked = peer.acked /\ peer'.filled = peer.filled
        /\ peer'.got = peer.got \o whole /\ peer'.in # peer.in
    <3>1. 1 - peer.in \in {0, 1} /\ 1 - peer.in # peer.in BY <2>1
    <3>2. PICK g \in Seq(Nat) : g = peer.got \o whole BY <2>2
    <3>3. peer' = [peer EXCEPT !.in = 1 - peer.in, !.got = g] BY <2>3, <3>2
    <3>. QED BY <2>1, <3>1, <3>2, <3>3
  <2>5. ASSUME sound.in
        PROVE  /\ Agree(peer'.got, w)
               /\ Len(peer'.got) = Len(w) - in.len - 1 + InAdds
    <3>1. PICK L \in Nat : L = Len(w) BY <1>2
    <3>2. PICK G \in Nat : G = Len(peer.got) BY <2>1
    <3>3. /\ Agree(peer.got, w) /\ G = L - in.len - 1
      BY <1>1, <1>6, <2>5, <3>1, <3>2, <1>2 DEF BulkInv, InInv, InRepeats
    <3>4. InAdds \in 0 .. in.len + 1 BY <1>2 DEF InAdds, Least
    <3>5. in.len > 0 => in.at = G BY <1>2, <3>1, <3>3
    <3>6. ASSUME NEW i \in 1 .. InAdds PROVE whole[i] = w[G + i]
      <4>1. CASE i <= in.txLen
        <5>1. i \in 1 .. in.txLen /\ in.len > 0 BY <1>2, <3>4, <4>1
        <5>. QED BY <1>4, <3>5, <5>1
      <4>2. CASE ~(i <= in.txLen)
        <5>1. i = in.txLen + 1 /\ in.txLen < Packet /\ in.txLen = in.len
          BY <1>2, <3>4, <4>2 DEF InAdds, Least
        <5>2. G + i = L BY <1>2, <3>3, <5>1
        <5>. QED BY <1>2, <1>4, <3>1, <5>1, <5>2
      <4>. QED BY <4>1, <4>2
    <3>7. ASSUME NEW i \in 1 .. G + InAdds PROVE peer'.got[i] = w[i]
      <4>0. i \in 1 .. Len(peer.got) + Len(whole) BY <1>4, <3>2
      <4>1. CASE i <= G
        <5>1. i \in 1 .. Len(peer.got) BY <3>2, <4>1
        <5>. QED BY <2>2, <2>4, <3>2, <3>3, <4>0, <4>1, <5>1 DEF Agree
      <4>2. CASE ~(i <= G)
        <5>1. i - G \in 1 .. InAdds /\ G + (i - G) = i BY <3>4, <1>2, <4>2
        <5>2. peer'.got[i] = whole[i - G] BY <2>2, <2>4, <3>2, <4>0, <4>2
        <5>. QED BY <3>6, <5>1, <5>2
      <4>. QED BY <4>1, <4>2
    <3>8. Len(peer'.got) = G + InAdds BY <1>4, <2>2, <2>4, <3>2
    <3>9. G + InAdds <= L BY <1>2, <3>3, <3>4
    <3>. QED BY <3>1, <3>3, <3>7, <3>8, <3>9 DEF Agree
  <2>. QED BY <1>6, <2>4, <2>5
<1>. QED BY <1>5, <1>6

LEMMA HostTakesStep ==
  ASSUME BulkInv, NEW lost \in BOOLEAN, HostTakes(lost)
  PROVE  BulkInv'
<1> DEFINE w == writes.stream
           e == [in EXCEPT !.tx = "nak", !.toggle = 0, !.soft = 1 - in.soft]
           rest == in.len - Packet
           total == in.actual + in.len
           ended == [e EXCEPT !.actual = total, !.len = 0]
<1>0. BulkType /\ InTransfer /\ OutMeant /\ Packet \in Nat \ {0} BY BulkAssumption DEF BulkInv
<1>1. /\ in.tx = "ack" /\ UNCHANGED <<out, reads, sound>>
      /\ IF lost THEN UNCHANGED <<in, writes>> ELSE BulkInDone
  BY DEF HostTakes
<1>2. /\ peer' \in [in : {0, 1}, out : {0, 1}, got : Seq(Nat), meant : Seq(Nat),
                    acked : Nat, filled : Nat]
      /\ peer'.out = peer.out /\ peer'.meant = peer.meant
      /\ peer'.acked = peer.acked /\ peer'.filled = peer.filled
      /\ sound.in => /\ Agree(peer'.got, w) /\ in.toggle # peer'.in
                     /\ Len(peer'.got) = Len(w) - in.len - 1 + InAdds
  BY Taken
<1>3. /\ in \in [enabled : BOOLEAN, tx : {"nak", "ack", "stall"}, toggle : {0, 1},
                 soft : {0, 1}, txLen : Nat, at : Nat, len : Nat, actual : Nat]
      /\ writes \in [stream : Seq(Nat), busy : BOOLEAN] /\ Len(w) \in Nat
  BY <1>0 DEF BulkType
<1>4. /\ in.enabled /\ writes.busy
      /\ in.toggle = in.soft /\ in.txLen = Least(in.len, Packet)
      /\ Multiple(in.actual, Packet) /\ (in.len = 0 => in.actual = 0)
      /\ w # <<>> /\ w[Len(w)] = End
      /\ in.len > 0 => in.at + in.len + 1 = Len(w)
      /\ in.len + 1 <= Len(w)
  BY <1>0, <1>1 DEF InTransfer
<1>5. OutMeant' /\ (out.armed => out.actual = Len(out.buf))' /\ (sound.out => OutInv)'
  BY <1>1, <1>2, OutSame
<1>6. CASE lost
  <2>1. UNCHANGED <<in, writes>> BY <1>1, <1>6
  <2>2. BulkType' BY <1>0, <1>1, <1>2, <2>1 DEF BulkType
  <2>3. InTransfer' BY <1>0, <2>1 DEF InTransfer
  <2>4. ASSUME sound.in PROVE InInv'
    <3>1. InRepeats' /\ InAdds' = InAdds BY <1>2, <2>1, <2>4 DEF InRepeats, InAdds
    <3>. QED BY <1>2, <1>4, <2>1, <2>4, <3>1 DEF InInv
  <2>. QED BY <1>1, <1>4, <1>5, <2>1, <2>2, <2>3, <2>4 DEF BulkInv
<1>7. CASE ~lost /\ in.len > Packet
  <2>1. /\ in' = [e EXCEPT !.at = in.at + Packet, !.len = rest, !.actual = in.actual + Packet,
                           !.txLen = Least(rest, Packet), !.tx = "ack", !.toggle = 1 - in.soft]
        /\ writes' = writes
    BY <1>1, <1>3, <1>7 DEF BulkInDone
  <2>2. /\ in'.tx = "ack" /\ in'.toggle = 1 - in.soft /\ in'.soft = 1 - in.soft
        /\ in'.enabled = in.enabled /\ in'.len = rest /\ in'.actual = in.actual + Packet
        /\ in'.at = in.at + Packet /\ in'.txLen = Least(rest, Packet)
    BY <1>3, <2>1
  <2>3. rest \in Nat \ {0} /\ Least(rest, Packet) \in Nat /\ 1 - in.soft \in {0, 1}
    BY <1>0, <1>3, <1>7 DEF Least
  <2>4. in' \in [enabled : BOOLEAN, tx : {"nak", "ack", "stall"}, toggle : {0, 1},
                 soft : {0, 1}, txLen : Nat, at : Nat, len : Nat, actual : Nat]
    <3>1. in.at + Packet \in Nat /\ in.actual + Packet \in Nat BY <1>0, <1>3
    <3>. QED BY <1>3, <2>1, <2>3, <3>1
  <2>5. BulkType' BY <1>0, <1>1, <1>2, <2>1, <2>4 DEF BulkType
  <2>6. InTransfer'
    <3>1. Multiple(in.actual + Packet, Packet) BY <1>0, <1>3, <1>4, NextMultiple
    <3>2. in.at + Packet + rest + 1 = Len(w) /\ rest + 1 <= Len(w)
      <4>1. PICK L \in Nat : L = Len(w) BY <1>3
      <4>2. PICK l \in Nat : l = in.len /\ l > Packet BY <1>3, <1>7
      <4>3. PICK at \in Nat : at = in.at /\ at + l + 1 = L BY <1>0, <1>3, <1>4, <4>1, <4>2
      <4>4. at + Packet + (l - Packet) + 1 = L /\ (l - Packet) + 1 <= L BY <1>0, <4>2, <4>3
      <4>. QED BY <4>1, <4>2, <4>3, <4>4
    <3>. QED BY <1>4, <2>1, <2>2, <2>3, <3>1, <3>2 DEF InTransfer
  <2>7. ASSUME sound.in PROVE InInv'
    <3>1. ~InRepeats'
      <4>1. peer'.in \in {0, 1} /\ peer'.in # in.soft BY <1>2, <1>4, <2>7
      <4>. QED BY <1>3, <2>2, <4>1 DEF InRepeats
    <3>2. InAdds = Packet BY <1>0, <1>3, <1>4, <1>7 DEF InAdds, Least
    <3>3. Len(peer'.got) = Len(w) - rest - 1 + 0
      <4>1. PICK L \in Nat : L = Len(w) BY <1>3
      <4>2. Len(peer'.got) = L - in.len - 1 + Packet BY <1>2, <2>7, <3>2, <4>1
      <4>. QED BY <1>0, <1>3, <4>1, <4>2
    <3>. QED BY <1>2, <1>4, <2>1, <2>2, <2>7, <3>1, <3>3 DEF InInv
  <2>. QED BY <1>1, <1>4, <1>5, <2>2, <2>5, <2>6, <2>7 DEF BulkInv
<1>8. CASE ~lost /\ ~(in.len > Packet)
  <2>0. /\ in.len \in 0 .. Packet /\ in.actual \in Nat /\ total \in Nat
        /\ total % Packet = 0 <=> in.len \in {0, Packet}
        /\ 1 - in.soft \in {0, 1}
    <3>1. in.len \in 0 .. Packet /\ in.actual \in Nat /\ 1 - in.soft \in {0, 1}
      BY <1>0, <1>3, <1>8
    <3>2. (in.actual + in.len) % Packet = 0 <=> in.len \in {0, Packet}
      BY <1>0, <1>4, <3>1, FullMultiple
    <3>3. total \in Nat BY <1>0, <3>1
    <3>. QED BY <3>1, <3>2, <3>3
  <2>1. CASE in.len = Packet
    <3>1. total % Packet = 0 /\ total > 0 BY <1>0, <2>0, <2>1
    <3>2. in' = BulkWrite(ended, in.at, 0) /\ writes' = writes
      BY <1>1, <1>8, <3>1 DEF BulkInDone
    <3>3. /\ in' = [ended EXCEPT !.len = 0, !.actual = 0, !.at = in.at, !.txLen = 0,
                                !.tx = "ack", !.toggle = 1 - in.soft]
      <4>1. ended.enabled /\ ended.soft = 1 - in.soft BY <1>3, <1>4
      <4>2. Least(0, Packet) = 0 BY <1>0 DEF Least
      <4>. QED BY <3>2, <4>1, <4>2 DEF BulkWrite
    <3>4. /\ in'.tx = "ack" /\ in'.toggle = 1 - in.soft /\ in'.soft = 1 - in.soft
          /\ in'.enabled = in.enabled /\ in'.len = 0 /\ in'.actual = 0 /\ in'.txLen = 0
          /\ in' \in [enabled : BOOLEAN, tx : {"nak", "ack", "stall"}, toggle : {0, 1},
                 soft : {0, 1}, txLen : Nat, at : Nat, len : Nat, actual : Nat]
      BY <1>3, <2>0, <3>3
    <3>5. BulkType' BY <1>0, <1>1, <1>2, <3>2, <3>4 DEF BulkType
    <3>6. InTransfer'
      <4>1. Multiple(0, Packet) BY <1>0, <1>3, <1>4, NextMultiple
      <4>2. 0 + 1 <= Len(w) /\ Least(0, Packet) = 0 BY <1>0, <1>3, <1>4 DEF Least
      <4>3. /\ in'.enabled /\ writes'.busy /\ in'.toggle = in'.soft
            /\ ~(in'.len > 0) /\ in'.actual = 0
        <5>1. in'.toggle = in'.soft /\ ~(in'.len > 0) /\ in'.actual = 0 BY <3>4
        <5>2. in'.enabled /\ writes'.busy BY <1>4, <3>2, <3>4
        <5>. QED BY <5>1, <5>2
      <4>5. in'.txLen = Least(in'.len, Packet) /\ Multiple(in'.actual, Packet)
        BY <3>4, <4>1, <4>2
      <4>4. writes'.stream = w /\ in'.len + 1 <= Len(w) BY <3>2, <3>4, <4>2
      <4>. QED BY <1>4, <4>3, <4>4, <4>5 DEF InTransfer
    <3>7. ASSUME sound.in PROVE InInv'
      <4>1. ~InRepeats'
        <5>1. peer'.in \in {0, 1} /\ peer'.in # in.soft BY <1>2, <1>4, <3>7
        <5>. QED BY <1>3, <3>4, <5>1 DEF InRepeats
      <4>2. InAdds = Packet BY <1>0, <1>3, <1>4, <2>1 DEF InAdds, Least
      <4>3. Len(peer'.got) = Len(w) - 0 - 1 + 0
        <5>1. PICK L \in Nat : L = Len(w) BY <1>3
        <5>2. Len(peer'.got) = L - in.len - 1 + Packet BY <1>2, <3>7, <4>2, <5>1
        <5>. QED BY <1>0, <2>1, <5>1, <5>2
      <4>. QED BY <1>2, <1>4, <3>2, <3>4, <3>7, <4>1, <4>3 DEF InInv
    <3>. QED BY <1>1, <1>4, <1>5, <3>4, <3>5, <3>6, <3>7 DEF BulkInv
  <2>2. CASE in.len # Packet
    <3>1. ~(total % Packet = 0 /\ total > 0) BY <1>0, <1>4, <2>0, <2>2
    <3>2. in' = ended /\ writes' = [writes EXCEPT !.busy = FALSE]
      BY <1>1, <1>8, <3>1 DEF BulkInDone
    <3>3. /\ in'.tx = "nak" /\ in'.soft = 1 - in.soft /\ in'.enabled = in.enabled
          /\ in' \in [enabled : BOOLEAN, tx : {"nak", "ack", "stall"}, toggle : {0, 1},
                 soft : {0, 1}, txLen : Nat, at : Nat, len : Nat, actual : Nat]
          /\ ~writes'.busy /\ writes'.stream = w
          /\ writes' \in [stream : Seq(Nat), busy : BOOLEAN]
      BY <1>3, <2>0, <3>2
    <3>4. BulkType' BY <1>0, <1>1, <1>2, <3>3 DEF BulkType
    <3>5. InTransfer' BY <3>3 DEF InTransfer
    <3>6. ASSUME sound.in PROVE InInv'
      <4>1. InAdds = in.len + 1 BY <1>0, <1>3, <1>4, <2>0, <2>2 DEF InAdds, Least
      <4>2. Len(peer'.got) = Len(w)
        <5>1. PICK L \in Nat : L = Len(w) BY <1>3
        <5>2. Len(peer'.got) = L - in.len - 1 + (in.len + 1) BY <1>2, <3>6, <4>1, <5>1
        <5>. QED BY <1>3, <5>1, <5>2
      <4>3. peer'.in = in'.soft
        <5>1. peer'.in \in {0, 1} /\ peer'.in # in.soft BY <1>2, <1>4, <3>6
        <5>. QED BY <1>3, <3>3, <5>1
      <4>. QED BY <1>2, <3>3, <3>6, <4>2, <4>3 DEF InInv
    <3>. QED BY <1>1, <1>4, <1>5, <3>3, <3>4, <3>5, <3>6 DEF BulkInv
  <2>. QED BY <2>1, <2>2
<1>. QED BY <1>6, <1>7, <1>8

----------------------------------------------------------------------------
(* The OUT endpoint.                                                        *)

(* What the IN direction depends on. *)
LEMMA InSame ==
  ASSUME BulkInv, UNCHANGED <<in, writes, sound>>, peer'.in = peer.in, peer'.got = peer.got
  PROVE  /\ InTransfer' /\ (sound.in => InInv)'
         /\ (~in.enabled => in.soft = 0 /\ in.tx = "nak")'
<1>1. InRepeats' = InRepeats /\ InAdds' = InAdds BY DEF InRepeats, InAdds
<1>2. InTransfer' BY DEF BulkInv, InTransfer
<1>3. InInv => InInv' BY <1>1 DEF InInv, Agree
<1>. QED BY <1>2, <1>3 DEF BulkInv

(* The next packet of the host is full and more follow, or it is the last   *)
(* of its message: it is short then, or fills the client's buffer.          *)
LEMMA PacketShape ==
  ASSUME BulkType, OutMeant, peer.acked < Len(peer.meant)
  PROVE  /\ NextPacket \in Seq(Nat) /\ Len(NextPacket) \in Nat \ {0} /\ Rest \in Nat
         /\ \A i \in 1 .. Len(NextPacket) : NextPacket[i] = peer.meant[peer.acked + i]
         /\ \/ /\ Last(NextPacket) # End /\ Len(NextPacket) = Packet
               /\ Packet <= Rest /\ peer.filled + Packet < Room
            \/ /\ Last(NextPacket) = End /\ Len(NextPacket) = Rest + 1
               /\ Rest <= Packet /\ (Rest = Packet => peer.filled + Packet = Room)
<1>1. PICK m \in Seq(Nat) : m = peer.meant BY DEF BulkType
<1>2. PICK L \in Nat : L = Len(m) BY <1>1
<1>3. PICK a \in Nat : a = peer.acked BY DEF BulkType
<1>4. PICK f \in Nat : f = peer.filled BY DEF BulkType
<1>5. PICK r \in Nat : r = L - a - 1
  <2>1. a < L BY <1>1, <1>2, <1>3
  <2>. QED BY <2>1
<1>6. Packet \in Nat \ {0} /\ Room \in Nat \ {0} BY BulkAssumption
<1>7. /\ m[L] = End /\ \A i \in a + 1 .. L - 1 : m[i] # End
      /\ f + r <= Room /\ Rest = r
  BY <1>1, <1>2, <1>3, <1>4, <1>5 DEF OutMeant, Rest
<1> DEFINE full == r > Packet \/ (r = Packet /\ f + Packet < Room)
<1>8. NextPacket = SubSeq(m, a + 1, IF full THEN a + Packet ELSE L)
  BY <1>1, <1>2, <1>3, <1>4, <1>5 DEF NextPacket
<1>9. CASE full
  <2>1. a \in 0 .. Len(m) /\ a + Packet \in a .. Len(m) /\ a + Packet - a = Packet
        /\ a + Packet \in a + 1 .. L - 1
    BY <1>2, <1>5, <1>6, <1>9
  <2>2. PICK b \in a .. Len(m) : b = a + Packet BY <2>1
  <2>3. /\ SubSeq(m, a + 1, b) \in Seq(Nat) /\ Len(SubSeq(m, a + 1, b)) = b - a
        /\ \A i \in 1 .. b - a : SubSeq(m, a + 1, b)[i] = m[a + i]
    BY <2>1, Part
  <2>4. /\ NextPacket = SubSeq(m, a + 1, b) /\ b - a = Packet BY <1>6, <1>8, <1>9, <2>2
  <2>5. Last(NextPacket) # End
    <3>1. Last(NextPacket) = m[a + Packet] BY <1>6, <2>3, <2>4 DEF Last
    <3>. QED BY <1>7, <2>1, <3>1
  <2>6. Packet <= Rest /\ f + Packet < Room BY <1>6, <1>7, <1>9
  <2>. QED BY <1>1, <1>3, <1>4, <1>6, <1>7, <2>3, <2>4, <2>5, <2>6
<1>10. CASE ~full
  <2>1. a \in 0 .. Len(m) /\ L \in a .. Len(m) /\ L - a = r + 1 BY <1>2, <1>5
  <2>3. /\ SubSeq(m, a + 1, L) \in Seq(Nat) /\ Len(SubSeq(m, a + 1, L)) = L - a
        /\ \A i \in 1 .. L - a : SubSeq(m, a + 1, L)[i] = m[a + i]
    BY <2>1, Part
  <2>4. NextPacket = SubSeq(m, a + 1, L) BY <1>8, <1>10
  <2>5. Last(NextPacket) = End
    <3>1. Last(NextPacket) = m[a + (r + 1)]
      <4>1. Len(NextPacket) = r + 1 /\ r + 1 \in 1 .. L - a BY <2>1, <2>3, <2>4
      <4>. QED BY <2>3, <2>4, <4>1 DEF Last
    <3>2. a + (r + 1) = L BY <1>5
    <3>. QED BY <1>7, <3>1, <3>2
  <2>6. r <= Packet /\ (r = Packet => f + Packet = Room) BY <1>6, <1>7, <1>10
  <2>7. Len(NextPacket) = r + 1 BY <2>1, <2>3, <2>4
  <2>8. \A i \in 1 .. Len(NextPacket) : NextPacket[i] = peer.meant[peer.acked + i]
    BY <1>1, <1>3, <2>1, <2>3, <2>4, <2>7
  <2>9. r + 1 \in Nat \ {0} /\ Rest = r /\ NextPacket \in Seq(Nat) BY <1>7, <2>3, <2>4
  <2>. QED BY <1>4, <2>5, <2>6, <2>7, <2>8, <2>9
<1>. QED BY <1>9, <1>10

LEMMA ClientReadsStep ==
  ASSUME BulkInv, ClientReads
  PROVE  BulkInv'
<1>1. /\ UNCHANGED <<in, writes, reads, peer, sound>> /\ ~out.armed
      /\ out' = [out EXCEPT !.len = Room, !.actual = 0, !.buf = <<>>, !.rx = "ack", !.armed = TRUE]
  BY DEF ClientReads
<1>2. BulkType /\ OutMeant /\ Room \in Nat \ {0} BY BulkAssumption DEF BulkInv
<1>3. <<>> \in Seq(Nat) /\ Room \in Int /\ Len(<<>>) = 0 BY <1>2
<1>4. /\ out' \in [enabled : BOOLEAN, rx : {"nak", "ack", "stall"}, toggle : {0, 1},
                   auto : BOOLEAN, len : Int, actual : Nat, armed : BOOLEAN, buf : Seq(Nat)]
      /\ out'.len = Room /\ out'.actual = 0 /\ out'.buf = <<>> /\ out'.armed
      /\ out'.toggle = out.toggle /\ out'.auto = out.auto
  BY <1>1, <1>2, <1>3 DEF BulkType
<1>5. BulkType' BY <1>1, <1>2, <1>4 DEF BulkType
<1>6. /\ InTransfer' /\ (sound.in => InInv)'
      /\ (~in.enabled => in.soft = 0 /\ in.tx = "nak")'
  BY <1>1, InSame
<1>7. OutMeant' BY <1>1, <1>2 DEF OutMeant, Rest
<1>8. OutRepeats' = OutRepeats /\ NextPacket' = NextPacket /\ Filled' = Filled
      /\ Held = 0 /\ Held' = 0
  BY <1>1, <1>3, <1>4 DEF OutRepeats, NextPacket, Filled, Held
<1>9. OutInv => OutInv' BY <1>1, <1>2, <1>3, <1>4, <1>8 DEF OutInv, Agree
<1>. QED BY <1>1, <1>3, <1>4, <1>5, <1>6, <1>7, <1>9 DEF BulkInv

LEMMA HostBeginsStep ==
  ASSUME BulkInv, NEW n \in 0 .. Room, HostBegins(n)
  PROVE  BulkInv'
<1> DEFINE w == peer.meant
           m == Message(w, n)
<1>0. BulkType /\ OutMeant /\ Room \in Nat \ {0} /\ n \in Nat /\ n <= Room
  BY BulkAssumption DEF BulkInv
<1>1. /\ UNCHANGED <<in, out, writes, reads, sound>> /\ peer.acked = Len(w)
      /\ peer' = [peer EXCEPT !.meant = w \o m]
  BY DEF HostBegins
<1>2. w \in Seq(Nat) /\ Len(w) \in Nat /\ reads \in Seq(Nat) BY <1>0 DEF BulkType
<1>3. /\ w \o m \in Seq(Nat) /\ Len(w \o m) = Len(w) + n + 1
      /\ \A i \in 1 .. Len(w) : (w \o m)[i] = w[i]
      /\ \A i \in Len(w) + 1 .. Len(w) + n : (w \o m)[i] # End
      /\ (w \o m)[Len(w) + n + 1] = End
  BY <1>0, <1>2, Extended
<1> HIDE DEF m
<1>4. PICK v \in Seq(Nat) : v = w \o m BY <1>3
<1>5. /\ peer' \in [in : {0, 1}, out : {0, 1}, got : Seq(Nat), meant : Seq(Nat),
                    acked : Nat, filled : Nat]
      /\ peer'.meant = v /\ peer'.acked = peer.acked /\ peer'.filled = peer.filled
      /\ peer'.in = peer.in /\ peer'.out = peer.out /\ peer'.got = peer.got
  BY <1>0, <1>1, <1>4 DEF BulkType
<1>6. BulkType' BY <1>0, <1>1, <1>5 DEF BulkType
<1>7. /\ InTransfer' /\ (sound.in => InInv)'
      /\ (~in.enabled => in.soft = 0 /\ in.tx = "nak")'
  BY <1>1, <1>5, InSame
<1>8. PICK L \in Nat : L = Len(w) BY <1>2
<1>9. /\ Len(v) = L + n + 1 /\ \A i \in 1 .. L : v[i] = w[i]
      /\ \A i \in L + 1 .. L + n : v[i] # End
      /\ v[L + n + 1] = End
  BY <1>3, <1>4, <1>8
<1>10. peer.acked = L /\ peer.filled = 0 BY <1>0, <1>1, <1>8 DEF OutMeant
<1>11. OutMeant'
  <2>1. Rest' = n BY <1>0, <1>5, <1>9, <1>10 DEF Rest
  <2>2. L <= L + n + 1 /\ L # L + n + 1 /\ L + n + 1 - 1 = L + n BY <1>0
  <2>3. PICK g \in Nat : g = Len(v) /\ g = L + n + 1 BY <1>0, <1>9
  <2>4. v[g] = End /\ \A i \in L + 1 .. g - 1 : v[i] # End
    <3>1. ASSUME NEW i \in L + 1 .. g - 1 PROVE v[i] # End
      <4>1. i \in L + 1 .. L + n BY <1>0, <2>3
      <4>. QED BY <1>9, <4>1
    <3>2. v[g] = End BY <1>9, <2>3
    <3>. QED BY <3>1, <3>2
  <2>5. L <= g /\ L # g /\ 0 + n <= Room BY <1>0, <2>2, <2>3
  <2>6. 0 < Room BY <1>0
  <2>. QED BY <1>5, <1>10, <2>1, <2>3, <2>4, <2>5, <2>6 DEF OutMeant
<1>12. ASSUME OutInv PROVE OutInv'
  <2>1. ~OutRepeats /\ ~OutRepeats' BY <1>1, <1>5, <1>8, <1>10, <1>12 DEF OutInv, OutRepeats
  <2>2. Filled = 0 /\ Filled' = 0 BY <1>5, <1>10, <2>1 DEF Filled
  <2>3. Held' = Held BY <1>1 DEF Held
  <2>4. PICK R \in Nat : R = Len(reads) BY <1>2
  <2>5. PICK H \in Nat : H = Held BY <1>0 DEF Held, BulkType
  <2>6. R + H = L BY <1>10, <1>12, <2>1, <2>4, <2>5 DEF OutInv
  <2>7. Agree(reads, v)
    <3>1. \A i \in 1 .. R : i \in 1 .. L /\ reads[i] = w[i] BY <1>12, <2>4, <2>6 DEF OutInv, Agree
    <3>2. R <= L + n + 1 BY <1>0, <2>6
    <3>. QED BY <1>9, <2>4, <3>1, <3>2 DEF Agree
  <2>8. ASSUME out.armed, NEW i \in 1 .. Len(out.buf) PROVE out.buf[i] = v[R + i]
    <3>1. Len(out.buf) = H BY <2>5, <2>8 DEF Held
    <3>2. R + i \in 1 .. L BY <2>6, <2>8, <3>1
    <3>3. out.buf[i] = w[R + i] BY <1>12, <2>4, <2>8 DEF OutInv
    <3>. QED BY <1>9, <3>2, <3>3
  <2>. QED BY <1>1, <1>5, <1>12, <2>1, <2>2, <2>3, <2>4, <2>7, <2>8 DEF OutInv
<1>. QED BY <1>1, <1>6, <1>7, <1>11, <1>12 DEF BulkInv

(* The packet the device takes goes to the place the host means it for. *)
LEMMA HostGivesStep ==
  ASSUME BulkInv, NEW lost \in BOOLEAN, HostGives(lost)
  PROVE  BulkInv'
<1> DEFINE m == peer.meant
           p == NextPacket
           last == Last(p) = End
           data == IF last THEN Front(p) ELSE p
           e == [out EXCEPT !.rx = "nak", !.toggle = IF out.auto THEN 1 - out.toggle ELSE out.toggle,
                            !.actual = out.actual + Len(data), !.len = out.len - Len(data),
                            !.buf = SubSeq(out.buf, 1, out.actual) \o data]
<1>0. BulkType /\ OutMeant /\ Packet \in Nat \ {0} /\ Room \in Nat \ {0}
  BY BulkAssumption DEF BulkInv
<1>1. /\ UNCHANGED <<in, writes, sound>> /\ out.rx = "ack" /\ out.armed
      /\ peer.acked < Len(m)
      /\ peer' = IF lost THEN peer
                 ELSE [peer EXCEPT !.out = 1 - peer.out, !.acked = peer.acked + Len(p),
                                   !.filled = IF last THEN 0 ELSE peer.filled + Packet]
  BY DEF HostGives
<1>2. /\ p \in Seq(Nat) /\ Len(p) \in Nat \ {0} /\ Rest \in Nat
      /\ \A i \in 1 .. Len(p) : p[i] = m[peer.acked + i]
      /\ ~last => /\ Len(p) = Packet /\ Packet <= Rest /\ peer.filled + Packet < Room
      /\ last => /\ Len(p) = Rest + 1 /\ Rest <= Packet
                 /\ (Rest = Packet => peer.filled + Packet = Room)
  BY <1>0, <1>1, PacketShape
<1>3. /\ peer.acked \in Nat /\ peer.filled \in Nat /\ peer.out \in {0, 1}
      /\ m \in Seq(Nat) /\ Len(m) \in Nat /\ Rest = Len(m) - peer.acked - 1
      /\ out.toggle \in {0, 1} /\ reads \in Seq(Nat) /\ Len(reads) \in Nat
      /\ out.buf \in Seq(Nat) /\ Len(out.buf) \in Nat /\ out.actual = Len(out.buf)
      /\ out.len \in Int
  BY <1>0, <1>1 DEF BulkType, BulkInv, Rest
<1>n. /\ peer.acked \in Nat /\ peer.filled \in Nat /\ Len(p) \in Nat /\ Rest \in Nat
      /\ Packet \in Nat /\ Packet > 0 /\ Room \in Nat
  BY <1>0, <1>2, <1>3
<1>4. /\ data \in Seq(Nat) /\ Len(data) = (IF last THEN Rest ELSE Packet)
      /\ \A i \in 1 .. Len(data) : data[i] = p[i]
      /\ last => Len(p) = Len(data) + 1
  <2>1. CASE last
    <3>1. Len(p) - 1 = Rest /\ Rest \in 0 .. Len(p) /\ Rest - 0 = Rest BY <1>2, <2>1
    <3>2. /\ SubSeq(p, 0 + 1, Rest) \in Seq(Nat) /\ Len(SubSeq(p, 0 + 1, Rest)) = Rest - 0
          /\ \A i \in 1 .. Rest - 0 : SubSeq(p, 0 + 1, Rest)[i] = p[0 + i]
      <4>1. 0 \in 0 .. Len(p) BY <1>2
      <4>. QED BY <1>2, <3>1, <4>1, Part
    <3>3. data = SubSeq(p, 1, Rest) BY <2>1, <3>1 DEF Front
    <3>4. \A i \in 1 .. Rest : 0 + i = i OBVIOUS
    <3>. QED BY <1>2, <2>1, <3>1, <3>2, <3>3, <3>4
  <2>2. CASE ~last BY <1>2, <2>2
  <2>. QED BY <2>1, <2>2
<1>5. PICK sent \in Seq(Nat) : sent = data BY <1>4
<1>6. PICK b \in Seq(Nat) : /\ b = SubSeq(out.buf, 1, out.actual) \o data
                            /\ Len(b) = Len(out.buf) + Len(sent)
                            /\ \A i \in 1 .. Len(out.buf) : b[i] = out.buf[i]
                            /\ \A i \in 1 .. Len(sent) : b[Len(out.buf) + i] = sent[i]
  <2>1. SubSeq(out.buf, 1, out.actual) = out.buf BY <1>3
  <2>2. PICK s \in Seq(Nat) : s = out.buf BY <1>3
  <2>3. /\ s \o sent \in Seq(Nat) /\ Len(s \o sent) = Len(s) + Len(sent)
        /\ \A i \in 1 .. Len(s) + Len(sent) :
             (s \o sent)[i] = IF i <= Len(s) THEN s[i] ELSE sent[i - Len(s)]
    BY Joined
  <2>4. Len(s) \in Nat /\ Len(sent) \in Nat OBVIOUS
  <2>5. ASSUME NEW i \in 1 .. Len(s) PROVE (s \o sent)[i] = s[i]
    <3>1. i \in 1 .. Len(s) + Len(sent) /\ i <= Len(s) BY <2>4
    <3>. QED BY <2>3, <3>1
  <2>6. ASSUME NEW i \in 1 .. Len(sent) PROVE (s \o sent)[Len(s) + i] = sent[i]
    <3>1. Len(s) + i \in 1 .. Len(s) + Len(sent) /\ ~(Len(s) + i <= Len(s))
          /\ Len(s) + i - Len(s) = i
      BY <2>4
    <3>2. (s \o sent)[Len(s) + i] = sent[Len(s) + i - Len(s)] BY <2>3, <3>1
    <3>. QED BY <3>1, <3>2
  <2>. QED BY <1>5, <2>1, <2>2, <2>3, <2>5, <2>6
<1> HIDE DEF data
<1>7. e = [out EXCEPT !.rx = "nak", !.toggle = IF out.auto THEN 1 - out.toggle ELSE out.toggle,
                      !.actual = out.actual + Len(sent), !.len = out.len - Len(sent), !.buf = b]
  BY <1>5, <1>6
<1>8. /\ IF ~InTurn(peer.out) THEN UNCHANGED <<out, reads>>
         ELSE IF Len(data) < Packet \/ e.len = 0
         THEN /\ out' = [e EXCEPT !.armed = FALSE, !.buf = <<>>]
              /\ reads' = reads \o Append(e.buf, End)
         ELSE out' = [e EXCEPT !.rx = "ack"] /\ UNCHANGED reads
  BY DEF HostGives, BulkOutDone, data
<1>9. /\ peer' \in [in : {0, 1}, out : {0, 1}, got : Seq(Nat), meant : Seq(Nat),
                    acked : Nat, filled : Nat]
      /\ peer'.meant = m /\ peer'.in = peer.in /\ peer'.got = peer.got
      /\ lost => peer' = peer
      /\ ~lost => /\ peer'.out = 1 - peer.out /\ peer'.acked = peer.acked + Len(p)
                 /\ peer'.filled = IF last THEN 0 ELSE peer.filled + Packet
  <2>1. CASE lost BY <1>0, <1>1, <2>1 DEF BulkType
  <2>2. CASE ~lost
    <3>1. PICK a \in Nat : a = peer.acked + Len(p) BY <1>n
    <3>2. PICK f \in Nat : f = IF last THEN 0 ELSE peer.filled + Packet BY <1>n
    <3>3. PICK o \in {0, 1} : o = 1 - peer.out BY <1>3
    <3>4. peer' = [peer EXCEPT !.out = o, !.acked = a, !.filled = f]
      BY <1>1, <2>2, <3>1, <3>2, <3>3
    <3>5. peer \in [in : {0, 1}, out : {0, 1}, got : Seq(Nat), meant : Seq(Nat),
                    acked : Nat, filled : Nat]
      BY <1>0 DEF BulkType
    <3>6. /\ peer' \in [in : {0, 1}, out : {0, 1}, got : Seq(Nat), meant : Seq(Nat),
                        acked : Nat, filled : Nat]
          /\ peer'.meant = m /\ peer'.in = peer.in /\ peer'.got = peer.got
          /\ peer'.out = o /\ peer'.acked = a /\ peer'.filled = f
      BY <3>4, <3>5
    <3>. QED BY <2>2, <3>1, <3>2, <3>3, <3>6
  <2>. QED BY <2>1, <2>2
<1>10. OutMeant'
  <2>1. CASE lost BY <1>0, <1>9, <2>1 DEF OutMeant, Rest
  <2>2. CASE ~lost /\ last
    <3>1. peer'.acked = Len(m) BY <1>2, <1>3, <1>9, <2>2
    <3>2. peer'.meant = m /\ peer'.filled = 0 BY <1>9, <2>2
    <3>3. Len(m) \in Nat BY <1>3
    <3>4. 0 < Room BY <1>0
    <3>5. ~(Len(m) < Len(m)) /\ Len(m) <= Len(m) BY <3>3
    <3>. QED BY <3>1, <3>2, <3>4, <3>5 DEF OutMeant
  <2>3. CASE ~lost /\ ~last
    <3>1. PICK L \in Nat : L = Len(m) BY <1>3
    <3>2. PICK a \in Nat : a = peer.acked /\ a + Packet <= L - 1
      BY <1>0, <1>2, <1>3, <2>3, <3>1
    <3>3. /\ peer'.acked = a + Packet /\ peer'.filled = peer.filled + Packet
          /\ Rest' = L - (a + Packet) - 1 /\ Rest = L - a - 1
      BY <1>2, <1>3, <1>9, <2>3, <3>1, <3>2 DEF Rest
    <3>4. /\ m[L] = End /\ \A i \in a + 1 .. L - 1 : m[i] # End
          /\ peer.filled + Rest <= Room
      BY <1>0, <1>1, <3>1, <3>2 DEF OutMeant
    <3>5. /\ a + Packet <= L /\ a + Packet # L
          /\ \A i \in a + Packet + 1 .. L - 1 : m[i] # End
          /\ (peer.filled + Packet) + (L - (a + Packet) - 1) <= Room
      <4>1. PICK f \in Nat : f = peer.filled BY <1>n
      <4>2. f + (L - a - 1) <= Room BY <3>3, <3>4, <4>1
      <4>3. (f + Packet) + (L - (a + Packet) - 1) <= Room BY <1>n, <4>2
      <4>4. PICK P \in Nat : P = Packet /\ P > 0 BY <1>n
      <4>5. a + P <= L /\ a + P # L BY <3>2, <4>4
      <4>6. ASSUME NEW i \in a + P + 1 .. L - 1 PROVE m[i] # End
        <5>1. i \in a + 1 .. L - 1 BY <4>4, <4>6
        <5>. QED BY <3>4, <5>1
      <4>. QED BY <4>1, <4>3, <4>4, <4>5, <4>6
    <3>6. peer.filled + Packet < Room BY <1>2, <2>3
    <3>. QED BY <1>9, <3>1, <3>3, <3>4, <3>5, <3>6 DEF OutMeant
  <2>. QED BY <2>1, <2>2, <2>3
<1>11. /\ InTransfer' /\ (sound.in => InInv)'
       /\ (~in.enabled => in.soft = 0 /\ in.tx = "nak")'
  BY <1>1, <1>9, InSame
<1>12. CASE ~InTurn(peer.out)
  <2>1. UNCHANGED <<out, reads>> BY <1>8, <1>12
  <2>2. BulkType' BY <1>0, <1>1, <1>9, <2>1 DEF BulkType
  <2>3. ASSUME OutInv PROVE OutInv'
    <3>1. CASE lost
      <4>0. peer' = peer BY <1>9, <3>1
      <4>1. OutRepeats' = OutRepeats /\ Held' = Held /\ NextPacket' = p
            /\ Filled' = Filled
        <5>1. OutRepeats' = OutRepeats BY <2>1, <4>0 DEF OutRepeats
        <5>2. Held' = Held BY <2>1 DEF Held
        <5>3. NextPacket' = p BY <4>0 DEF NextPacket
        <5>. QED BY <4>0, <5>1, <5>2, <5>3 DEF Filled
      <4>. QED BY <1>9, <2>1, <2>3, <3>1, <4>1 DEF OutInv, Agree
    <3>2. CASE ~lost
      <4>1. OutRepeats BY <1>12 DEF InTurn, OutRepeats
      <4>2. ~OutRepeats' BY <1>3, <1>9, <2>1, <3>2, <4>1 DEF OutRepeats
      <4>3. Filled' = Filled BY <1>9, <3>2, <4>1, <4>2 DEF Filled
      <4>4. Held' = Held BY <2>1 DEF Held
      <4>5. Len(reads) + Held = peer'.acked + 0
        BY <1>2, <1>3, <1>9, <2>3, <3>2, <4>1 DEF OutInv
      <4>. QED BY <1>9, <2>1, <2>3, <4>2, <4>3, <4>4, <4>5 DEF OutInv, Agree
    <3>. QED BY <3>1, <3>2
  <2>4. (out.armed => out.actual = Len(out.buf))' BY <1>3, <2>1
  <2>. QED BY <1>1, <1>10, <1>11, <2>2, <2>3, <2>4 DEF BulkInv
<1>13. CASE InTurn(peer.out)
  <2> DEFINE done == Len(data) < Packet \/ e.len = 0
  <2>0. /\ out.toggle = peer.out /\ ~OutRepeats /\ Held = Len(out.buf)
        /\ Filled = peer.filled
    BY <1>1, <1>13 DEF InTurn, OutRepeats, Held, Filled
  <2>1. PICK n \in Nat : n = Len(sent) OBVIOUS
  <2>2. PICK B \in Nat : B = Len(out.buf) BY <1>3
  <2>3. PICK t \in {0, 1} : t = IF out.auto THEN 1 - out.toggle ELSE out.toggle BY <1>3
  <2>4. PICK k \in Nat : k = out.actual + Len(sent) /\ k = B + n BY <1>3, <2>1, <2>2
  <2>5. PICK l \in Int : l = out.len - Len(sent) BY <1>3, <2>1
  <2>6. /\ e = [out EXCEPT !.rx = "nak", !.toggle = t, !.actual = k, !.len = l, !.buf = b]
        /\ out \in [enabled : BOOLEAN, rx : {"nak", "ack", "stall"}, toggle : {0, 1},
                    auto : BOOLEAN, len : Int, actual : Nat, armed : BOOLEAN, buf : Seq(Nat)]
    BY <1>0, <1>7, <2>3, <2>4, <2>5 DEF BulkType
  <2>7. /\ e \in [enabled : BOOLEAN, rx : {"nak", "ack", "stall"}, toggle : {0, 1},
                  auto : BOOLEAN, len : Int, actual : Nat, armed : BOOLEAN, buf : Seq(Nat)]
        /\ e.toggle = t /\ e.actual = k /\ e.len = l /\ e.buf = b /\ e.auto = out.auto
        /\ e.armed
    BY <1>1, <2>6
  <2> HIDE DEF e
  <2>8. PICK c \in Seq(Nat) : /\ c = Append(b, End) /\ Len(c) = B + n + 1
                              /\ \A i \in 1 .. B + n : c[i] = b[i]
                              /\ c[B + n + 1] = End
    <3>1. End \in Nat BY DEF End
    <3>2. /\ Append(b, End) \in Seq(Nat) /\ Len(Append(b, End)) = Len(b) + 1
          /\ \A i \in 1 .. Len(b) : Append(b, End)[i] = b[i]
          /\ Append(b, End)[Len(b) + 1] = End
      BY <3>1, AppendProperties
    <3>3. Len(b) = B + n BY <1>6, <2>1, <2>2
    <3>. QED BY <3>2, <3>3
  <2>9. /\ done => /\ out' = [e EXCEPT !.armed = FALSE, !.buf = <<>>]
                   /\ reads' = reads \o c
        /\ ~done => out' = [e EXCEPT !.rx = "ack"] /\ UNCHANGED reads
    BY <1>8, <1>13, <2>7, <2>8
  <2>10. PICK R \in Nat : R = Len(reads) BY <1>3
  <2>11. done => /\ reads' \in Seq(Nat) /\ Len(reads') = R + (B + n + 1)
                 /\ \A i \in 1 .. R + (B + n + 1) :
                      reads'[i] = IF i <= R THEN reads[i] ELSE c[i - R]
    <3>1. PICK r \in Seq(Nat) : r = reads BY <1>3
    <3>2. /\ r \o c \in Seq(Nat) /\ Len(r \o c) = Len(r) + Len(c)
          /\ \A i \in 1 .. Len(r) + Len(c) :
               (r \o c)[i] = IF i <= Len(r) THEN r[i] ELSE c[i - Len(r)]
      BY Joined
    <3>. QED BY <2>8, <2>9, <2>10, <3>1, <3>2
  <2>12. /\ out' \in [enabled : BOOLEAN, rx : {"nak", "ack", "stall"}, toggle : {0, 1},
                  auto : BOOLEAN, len : Int, actual : Nat, armed : BOOLEAN, buf : Seq(Nat)]
         /\ out'.toggle = t /\ out'.auto = out.auto
         /\ done => ~out'.armed
         /\ ~done => out'.armed /\ out'.actual = k /\ out'.len = l /\ out'.buf = b
    <3>1. CASE done
      <4>1. <<>> \in Seq(Nat) OBVIOUS
      <4>. QED BY <2>7, <2>9, <3>1, <4>1
    <3>2. CASE ~done BY <2>7, <2>9, <3>2
    <3>. QED BY <3>1, <3>2
  <2>13. BulkType'
    <3>1. reads' \in Seq(Nat) BY <1>3, <2>9, <2>11
    <3>. QED BY <1>0, <1>1, <1>9, <2>12, <3>1 DEF BulkType
  <2>14. (out.armed => out.actual = Len(out.buf))'
    BY <1>6, <2>1, <2>2, <2>4, <2>12
  <2>15. ASSUME OutInv PROVE OutInv'
    <3>0. PICK a \in Nat : a = peer.acked BY <1>3
    <3>1. /\ out.auto /\ R + B = a /\ B = peer.filled /\ out.len = Room - B
          /\ \A i \in 1 .. R : reads[i] = m[i]
          /\ \A i \in 1 .. B : out.buf[i] = m[R + i]
      BY <1>1, <1>3, <2>0, <2>2, <2>10, <2>15, <3>0 DEF OutInv, Agree
    <3>2. n = (IF last THEN Rest ELSE Packet) BY <1>4, <1>5, <2>1
    <3>3. done <=> last
      <4>1. l = Room - B - n BY <2>1, <2>5, <3>1
      <4>2. CASE last
        <5>0. n <= Packet /\ (n = Packet => B + Packet = Room)
          BY <1>2, <3>1, <3>2, <4>2
        <5>1. n < Packet \/ l = 0 BY <1>n, <4>1, <5>0
        <5>. QED BY <1>5, <2>1, <2>7, <4>2, <5>1
      <4>3. CASE ~last
        <5>0. n = Packet /\ B + Packet < Room BY <1>2, <3>1, <3>2, <4>3
        <5>1. n = Packet /\ l # 0 BY <1>n, <4>1, <5>0
        <5>. QED BY <1>0, <1>5, <2>1, <2>7, <4>3, <5>1
      <4>. QED BY <4>2, <4>3
    <3>4. /\ Filled' = IF last THEN 0 ELSE peer.filled + Packet
          /\ peer'.acked + (IF OutRepeats' THEN Len(NextPacket') ELSE 0) = a + Len(p)
          /\ OutRepeats' => peer'.acked < Len(m)
      <4>1. t = 1 - peer.out /\ t # peer.out BY <1>3, <2>0, <2>3, <3>1
      <4>2. CASE lost
        <5>1. OutRepeats' /\ NextPacket' = p
          BY <1>9, <2>12, <4>1, <4>2 DEF OutRepeats, NextPacket
        <5>. QED BY <1>1, <1>9, <3>0, <4>2, <5>1 DEF Filled
      <4>3. CASE ~lost
        <5>1. ~OutRepeats' BY <1>9, <2>12, <4>1, <4>3 DEF OutRepeats
        <5>. QED BY <1>2, <1>9, <3>0, <4>3, <5>1 DEF Filled
      <4>. QED BY <4>2, <4>3
    <3>5. ASSUME NEW i \in 1 .. n PROVE sent[i] = m[a + i]
      <4>1. i \in 1 .. Len(data) /\ i \in 1 .. Len(p) BY <1>2, <1>4, <1>5, <2>1
      <4>. QED BY <1>2, <1>4, <1>5, <3>0, <4>1
    <3>6. ASSUME NEW i \in 1 .. B + n PROVE b[i] = m[R + i]
      <4>1. CASE i <= B
        <5>1. i \in 1 .. B BY <4>1
        <5>. QED BY <1>6, <2>2, <3>1, <5>1
      <4>2. CASE ~(i <= B)
        <5>0. R + B = a BY <3>1
        <5>1. i - B \in 1 .. n /\ B + (i - B) = i /\ a + (i - B) = R + i BY <4>2, <5>0
        <5>2. b[B + (i - B)] = sent[i - B] BY <1>6, <2>1, <2>2, <5>1
        <5>. QED BY <3>5, <5>1, <5>2
      <4>. QED BY <4>1, <4>2
    <3>7. CASE ~last
      <4>1. /\ Held' = B + n /\ Len(p) = n /\ Len(reads') = R /\ n = Packet
            /\ reads' = reads
        BY <1>2, <1>6, <2>1, <2>2, <2>9, <2>10, <2>12, <3>2, <3>3, <3>7 DEF Held
      <4>2. Len(reads') + Held' = a + Len(p) BY <3>1, <4>1
      <4>3. k = peer.filled + Packet /\ l = Room - k /\ k < Room
        <5>1. n = Packet /\ k = B + n /\ l = (Room - B) - n
          BY <2>1, <2>4, <2>5, <3>1, <4>1
        <5>2. B = peer.filled /\ B + Packet < Room BY <1>2, <3>1, <3>7
        <5>. QED BY <1>n, <5>1, <5>2
      <4>4. Agree(reads', m) BY <2>10, <2>15, <4>1 DEF OutInv
      <4>5. Len(b) = B + n BY <1>6, <2>1, <2>2
      <4>6. out'.armed /\ out'.actual = k /\ out'.len = l /\ out'.buf = b /\ out'.auto
        BY <2>12, <3>1, <3>3, <3>7
      <4>. QED BY <1>9, <2>10, <3>4, <3>6, <3>7, <4>1, <4>2, <4>3, <4>4, <4>5, <4>6 DEF OutInv
    <3>8. CASE last
      <4>1. ~out'.armed /\ out'.auto /\ Held' = 0 /\ Filled' = 0
        BY <2>12, <3>1, <3>3, <3>4, <3>8 DEF Held
      <4>2. Len(reads') = R + (B + n + 1) /\ Len(p) = n + 1
        BY <1>2, <2>11, <3>2, <3>3, <3>8
      <4>3. Len(reads') + Held' = a + Len(p)
        <5>1. R + B = a BY <3>1
        <5>2. R + (B + n + 1) + 0 = a + (n + 1) BY <5>1
        <5>. QED BY <4>1, <4>2, <5>2
      <4>4. PICK L \in Nat : L = Len(m) BY <1>3
      <4>5. R + (B + n + 1) = L
        <5>1. R + B = a /\ n = L - a - 1 BY <1>3, <3>0, <3>1, <3>2, <3>8, <4>4
        <5>. QED BY <5>1
      <4>6. ASSUME NEW i \in 1 .. R + (B + n + 1) PROVE reads'[i] = m[i]
        <5>1. CASE i <= R
          <6>1. i \in 1 .. R BY <5>1
          <6>. QED BY <2>11, <3>1, <3>3, <3>8, <5>1, <6>1
        <5>2. CASE ~(i <= R) /\ i - R <= B + n
          <6>1. i - R \in 1 .. B + n /\ R + (i - R) = i BY <5>2
          <6>2. reads'[i] = c[i - R] BY <2>11, <3>3, <3>8, <5>2
          <6>. QED BY <2>8, <3>6, <6>1, <6>2
        <5>3. CASE i - R > B + n
          <6>0. i \in Nat /\ i <= R + (B + n + 1) BY <4>6
          <6>1. i - R = B + n + 1 /\ i = L /\ ~(i <= R)
            <7>1. PICK x \in Nat : x = B + n /\ R + (x + 1) = L /\ R + (B + n + 1) = R + (x + 1)
              BY <4>5
            <7>2. i <= R + (x + 1) /\ i - R > x BY <5>3, <6>0, <7>1
            <7>3. i = R + (x + 1) BY <6>0, <7>2
            <7>. QED BY <7>1, <7>3
          <6>2. reads'[i] = c[i - R] BY <2>11, <3>3, <3>8, <6>1
          <6>3. m[L] = End BY <1>0, <1>1, <4>4 DEF OutMeant
          <6>. QED BY <2>8, <6>1, <6>2, <6>3
        <5>. QED BY <5>1, <5>2, <5>3
      <4>7. Agree(reads', m) BY <4>2, <4>4, <4>5, <4>6 DEF Agree
      <4>. QED BY <1>9, <3>4, <4>1, <4>3, <4>7 DEF OutInv
    <3>. QED BY <3>7, <3>8
  <2>. QED BY <1>1, <1>10, <1>11, <2>13, <2>14, <2>15 DEF BulkInv
<1>. QED BY <1>12, <1>13

LEMMA Emptied ==
  ASSUME NEW w \in [stream : Seq(Nat), busy : BOOLEAN]
  PROVE  [w EXCEPT !.stream = <<>>] \in [stream : Seq(Nat), busy : BOOLEAN]
<1>0. <<>> \in Seq(Nat) BY EmptySeq
<1>1. PICK e \in Seq(Nat) : e = <<>> BY <1>0, Zenon
<1>2. [w EXCEPT !.stream = e] \in [stream : Seq(Nat), busy : BOOLEAN] OBVIOUS
<1>. QED BY <1>1, <1>2

LEMMA BulkConfigureStep == BulkInv /\ BulkConfigure => BulkInv'
<1> SUFFICES ASSUME BulkInv, BulkConfigure PROVE BulkInv'
  OBVIOUS
<1>0. BulkType /\ Room \in Nat \ {0} BY BulkAssumption DEF BulkInv
<1>1. /\ in' = [in EXCEPT !.enabled = TRUE, !.tx = "nak", !.toggle = 0]
      /\ out' = [out EXCEPT !.enabled = TRUE, !.rx = "nak", !.toggle = 0, !.auto = TRUE,
                            !.armed = FALSE]
      /\ writes' = [writes EXCEPT !.stream = <<>>] /\ reads' = <<>> /\ peer' = NoPeer
      /\ sound' = [sound EXCEPT !.in = sound.in /\ (in.soft = 0 \/ ~in.enabled)]
  BY DEF BulkConfigure, Anew
<1>2. BulkType'
  <2>1. /\ peer' \in [in : {0, 1}, out : {0, 1}, got : Seq(Nat), meant : Seq(Nat),
                      acked : Nat, filled : Nat]
        /\ reads' \in Seq(Nat)
    BY <1>1 DEF NoPeer
  <2>2. /\ in' \in [enabled : BOOLEAN, tx : {"nak", "ack", "stall"}, toggle : {0, 1},
                    soft : {0, 1}, txLen : Nat, at : Nat, len : Nat, actual : Nat]
        /\ out' \in [enabled : BOOLEAN, rx : {"nak", "ack", "stall"}, toggle : {0, 1},
                     auto : BOOLEAN, len : Int, actual : Nat, armed : BOOLEAN, buf : Seq(Nat)]
    BY <1>0, <1>1 DEF BulkType
  <2>3. writes' \in [stream : Seq(Nat), busy : BOOLEAN] BY <1>0, <1>1, Emptied DEF BulkType
  <2>4. sound' \in [in : BOOLEAN, out : BOOLEAN] BY <1>0, <1>1 DEF BulkType
  <2>. QED BY <2>1, <2>2, <2>3, <2>4 DEF BulkType
<1>3. in'.enabled /\ in'.tx = "nak" /\ in'.soft = in.soft /\ ~out'.armed
  BY <1>0, <1>1 DEF BulkType
<1>4. InTransfer' BY <1>3 DEF InTransfer
<1>5. OutMeant' BY <1>0, <1>1 DEF OutMeant, NoPeer
<1>6. ASSUME sound'.in PROVE InInv'
  <2>1. in.soft = 0 BY <1>0, <1>1, <1>6 DEF BulkType, BulkInv
  <2>2. writes'.stream = <<>> BY <1>0, <1>1 DEF BulkType
  <2>. QED BY <1>1, <1>3, <2>1, <2>2 DEF InInv, Agree, NoPeer
<1>7. OutInv'
  <2>1. ~OutRepeats' /\ Held' = 0 /\ Filled' = 0 /\ out'.auto
    BY <1>0, <1>1, <1>3 DEF BulkType, OutRepeats, Held, Filled, NoPeer
  <2>. QED BY <1>1, <1>3, <2>1 DEF OutInv, Agree, NoPeer
<1>. QED BY <1>2, <1>3, <1>4, <1>5, <1>6, <1>7 DEF BulkInv

LEMMA BulkResetStep == BulkInv /\ BulkReset => BulkInv'
<1> SUFFICES ASSUME BulkInv, BulkReset PROVE BulkInv'
  OBVIOUS
<1>0. BulkType /\ Room \in Nat \ {0} BY BulkAssumption DEF BulkInv
<1>1. /\ in' = NoIn /\ out' = NoOut /\ sound' = [in |-> TRUE, out |-> TRUE]
      /\ writes' = [writes EXCEPT !.stream = <<>>] /\ reads' = <<>> /\ peer' = NoPeer
  BY DEF BulkReset, Anew
<1>2. BulkType'
  <2>1. writes' \in [stream : Seq(Nat), busy : BOOLEAN] BY <1>0, <1>1, Emptied DEF BulkType
  <2>. QED BY <1>1, <2>1 DEF BulkType, NoPeer, NoIn, NoOut
<1>3. writes'.stream = <<>> BY <1>0, <1>1 DEF BulkType
<1>4. InTransfer' /\ InInv' BY <1>1, <1>3 DEF InTransfer, InInv, Agree, NoPeer, NoIn
<1>5. OutMeant' BY <1>0, <1>1 DEF OutMeant, NoPeer
<1>6. OutInv' BY <1>1 DEF OutInv, OutRepeats, Held, Filled, Agree, NoPeer, NoOut
<1>. QED BY <1>1, <1>2, <1>4, <1>5, <1>6 DEF BulkInv, NoIn, NoOut

LEMMA SetHaltStep ==
  ASSUME BulkInv, NEW dir \in {"in", "out"}, SetHalt(dir)
  PROVE  BulkInv'
<1>0. BulkType BY DEF BulkInv
<1>1. /\ in.enabled /\ UNCHANGED <<writes, reads, peer, sound>>
      /\ in' = IF dir = "in" THEN [in EXCEPT !.tx = "stall"] ELSE in
      /\ out' = IF dir = "out" THEN [out EXCEPT !.rx = "stall"] ELSE out
  BY DEF SetHalt
<1>2. BulkType' BY <1>0, <1>1 DEF BulkType
<1>3. CASE dir = "in"
  <2>1. out' = out BY <1>1, <1>3
  <2>2. in'.tx = "stall" /\ in'.enabled /\ in'.soft = in.soft BY <1>0, <1>1, <1>3 DEF BulkType
  <2>3. InTransfer' BY <2>2 DEF InTransfer
  <2>4. InInv => InInv' BY <1>1, <2>2 DEF InInv, Agree
  <2>5. OutMeant' /\ (out.armed => out.actual = Len(out.buf))' /\ (sound.out => OutInv)'
    BY <1>1, <2>1, OutSame
  <2>. QED BY <1>1, <1>2, <2>2, <2>3, <2>4, <2>5 DEF BulkInv
<1>4. CASE dir = "out"
  <2>1. in' = in BY <1>1, <1>4
  <2>2. /\ out'.toggle = out.toggle /\ out'.auto = out.auto /\ out'.len = out.len
        /\ out'.actual = out.actual /\ out'.armed = out.armed /\ out'.buf = out.buf
    BY <1>0, <1>1, <1>4 DEF BulkType
  <2>3. /\ OutRepeats' = OutRepeats /\ Held' = Held /\ NextPacket' = NextPacket /\ Rest' = Rest
    BY <1>1, <2>2 DEF OutRepeats, Held, NextPacket, Rest
  <2>4. Filled' = Filled BY <1>1, <2>3 DEF Filled
  <2>5. OutMeant' BY <1>1, <2>3 DEF BulkInv, OutMeant
  <2>6. OutInv => OutInv' BY <1>1, <2>2, <2>3, <2>4 DEF OutInv, Agree
  <2>7. /\ InTransfer' /\ (sound.in => InInv)'
        /\ (~in.enabled => in.soft = 0 /\ in.tx = "nak")'
    BY <1>1, <2>1, InSame
  <2>. QED BY <1>1, <1>2, <2>2, <2>5, <2>6, <2>7 DEF BulkInv
<1>. QED BY <1>3, <1>4

LEMMA ClearHaltStep ==
  ASSUME BulkInv, NEW dir \in {"in", "out"}, ClearHalt(dir)
  PROVE  BulkInv'
<1>0. BulkType BY DEF BulkInv
<1>1. /\ in.enabled /\ UNCHANGED <<writes, reads>>
      /\ in' = IF dir = "in" THEN [in EXCEPT !.tx = "nak", !.toggle = 0] ELSE in
      /\ out' = IF dir = "out" THEN [out EXCEPT !.rx = "ack", !.toggle = 0, !.auto = FALSE]
                ELSE out
      /\ peer' = [peer EXCEPT ![dir] = 0]
      /\ sound' = [sound EXCEPT ![dir] = sound[dir] /\ dir = "in" /\ in.soft = 0]
  BY DEF ClearHalt
<1>2. CASE dir = "in"
  <2>1. /\ out' = out /\ peer' = [peer EXCEPT !.in = 0]
        /\ in' = [in EXCEPT !.tx = "nak", !.toggle = 0]
        /\ sound' = [sound EXCEPT !.in = sound.in /\ in.soft = 0]
    BY <1>1, <1>2
  <2>2. BulkType' BY <1>0, <1>1, <2>1 DEF BulkType
  <2>3. in'.tx = "nak" /\ in'.enabled /\ in'.soft = in.soft BY <1>0, <1>1, <2>1 DEF BulkType
  <2>4. /\ peer'.in = 0 /\ peer'.out = peer.out /\ peer'.got = peer.got
        /\ peer'.meant = peer.meant /\ peer'.acked = peer.acked /\ peer'.filled = peer.filled
        /\ sound'.out = sound.out /\ (sound'.in => sound.in /\ in.soft = 0)
    BY <1>0, <2>1 DEF BulkType
  <2>5. InTransfer' BY <2>3 DEF InTransfer
  <2>6. (sound.in => InInv)' BY <1>1, <2>3, <2>4 DEF BulkInv, InInv, Agree
  <2>7. /\ OutRepeats' = OutRepeats /\ Held' = Held /\ NextPacket' = NextPacket /\ Rest' = Rest
    <3>1. OutRepeats' = OutRepeats /\ Held' = Held /\ Rest' = Rest
      BY <2>1, <2>4 DEF OutRepeats, Held, Rest
    <3>2. NextPacket' = NextPacket BY <2>4 DEF NextPacket
    <3>. QED BY <3>1, <3>2
  <2>8. Filled' = Filled BY <2>4, <2>7 DEF Filled
  <2>9. OutMeant' BY <2>4, <2>7 DEF BulkInv, OutMeant
  <2>10. OutInv => OutInv'
    <3>1. out' = out /\ reads' = reads /\ peer'.acked = peer.acked /\ peer'.meant = peer.meant
      BY <1>1, <2>1, <2>4
    <3>. QED BY <2>7, <2>8, <3>1 DEF OutInv, Agree
  <2>. QED BY <2>1, <2>2, <2>3, <2>4, <2>5, <2>6, <2>9, <2>10 DEF BulkInv
<1>3. CASE dir = "out"
  <2>1. /\ in' = in /\ peer' = [peer EXCEPT !.out = 0]
        /\ out' = [out EXCEPT !.rx = "ack", !.toggle = 0, !.auto = FALSE]
        /\ sound' = [sound EXCEPT !.out = FALSE]
    BY <1>1, <1>3
  <2>2. BulkType' BY <1>0, <1>1, <2>1 DEF BulkType
  <2>3. /\ peer'.in = peer.in /\ peer'.got = peer.got /\ peer'.meant = peer.meant
        /\ peer'.acked = peer.acked /\ peer'.filled = peer.filled
        /\ ~sound'.out /\ sound'.in = sound.in
    BY <1>0, <2>1 DEF BulkType
  <2>4. out'.armed = out.armed /\ out'.actual = out.actual /\ out'.buf = out.buf
    BY <1>0, <2>1 DEF BulkType
  <2>5. InRepeats' = InRepeats /\ InAdds' = InAdds /\ Rest' = Rest
    BY <2>1, <2>3 DEF InRepeats, InAdds, Rest
  <2>6. InTransfer' BY <1>1, <2>1 DEF BulkInv, InTransfer
  <2>7. InInv => InInv' BY <1>1, <2>1, <2>3, <2>5 DEF InInv, Agree
  <2>8. OutMeant' BY <2>3, <2>5 DEF BulkInv, OutMeant
  <2>. QED BY <2>1, <2>2, <2>3, <2>4, <2>6, <2>7, <2>8 DEF BulkInv
<1>. QED BY <1>2, <1>3

----------------------------------------------------------------------------
(* The specification.                                                       *)

DeviceInv == used \in {"in", "out"} /\ BulkInv

LEMMA BulkSame == BulkInv /\ UNCHANGED bulkVars => BulkInv'
<1> SUFFICES ASSUME BulkInv, UNCHANGED bulkVars PROVE BulkInv'
  OBVIOUS
<1>1. UNCHANGED <<in, out, writes, reads, peer, sound>> BY DEF bulkVars
<1>2. BulkType' BY <1>1 DEF BulkInv, BulkType
<1>3. OutMeant' /\ (out.armed => out.actual = Len(out.buf))' /\ (sound.out => OutInv)'
  BY <1>1, OutSame
<1>4. /\ InTransfer' /\ (sound.in => InInv)'
      /\ (~in.enabled => in.soft = 0 /\ in.tx = "nak")'
  BY <1>1, InSame
<1>. QED BY <1>2, <1>3, <1>4 DEF BulkInv

LEMMA NextBulk == DeviceInv /\ [Next]_vars => DeviceInv'
<1> SUFFICES ASSUME DeviceInv, [Next]_vars PROVE DeviceInv'
  OBVIOUS
<1>0. used \in {"in", "out"} /\ BulkInv BY DEF DeviceInv
<1>1. CASE UNCHANGED bulkVars BY <1>0, <1>1, BulkSame DEF bulkVars, DeviceInv
<1>2. CASE BulkNext
  <2>1. used' = used BY <1>2 DEF BulkNext
  <2>2. ASSUME NEW n \in 0 .. Room, ClientWrites(n) PROVE BulkInv'
    BY <1>0, <2>2, ClientWritesStep
  <2>3. ASSUME NEW lost \in BOOLEAN, HostTakes(lost) PROVE BulkInv'
    BY <1>0, <2>3, HostTakesStep
  <2>4. ASSUME ClientReads PROVE BulkInv' BY <1>0, <2>4, ClientReadsStep
  <2>5. ASSUME NEW n \in 0 .. Room, HostBegins(n) PROVE BulkInv'
    BY <1>0, <2>5, HostBeginsStep
  <2>6. ASSUME NEW lost \in BOOLEAN, HostGives(lost) PROVE BulkInv'
    BY <1>0, <2>6, HostGivesStep
  <2>7. ASSUME BulkConfigure PROVE BulkInv' BY <1>0, <2>7, BulkConfigureStep
  <2>8. ASSUME BulkReset PROVE BulkInv' BY <1>0, <2>8, BulkResetStep
  <2>9. ASSUME SetHalt(used) PROVE BulkInv' BY <1>0, <2>9, SetHaltStep
  <2>10. ASSUME ClearHalt(used) PROVE BulkInv' BY <1>0, <2>10, ClearHaltStep
  <2>11. BulkInv'
    BY <1>2, <2>2, <2>3, <2>4, <2>5, <2>6, <2>7, <2>8, <2>9, <2>10 DEF BulkNext
  <2>. QED BY <1>0, <2>1, <2>11 DEF DeviceInv
<1>. QED BY <1>1, <1>2 DEF Next, vars

LEMMA DeviceIsInvariant == Spec => []DeviceInv
<1>1. Init => DeviceInv BY InitBulk DEF Init, BulkQuiet, BulkInit, DeviceInv
<1>. QED BY <1>1, NextBulk, PTL DEF Spec

LEMMA InvIsExact == BulkInv => BulkExact
<1> SUFFICES ASSUME BulkInv PROVE BulkExact
  OBVIOUS
<1>0. /\ peer.got \in Seq(Nat) /\ writes.stream \in Seq(Nat) /\ reads \in Seq(Nat)
      /\ peer.meant \in Seq(Nat) /\ out.buf \in Seq(Nat) /\ peer.acked \in Nat
  BY DEF BulkInv, BulkType
<1>1. ASSUME sound.in
      PROVE  IsPrefix(peer.got, writes.stream) /\ (~writes.busy => peer.got = writes.stream)
  <2>1. InInv BY <1>1 DEF BulkInv
  <2>2. Agree(peer.got, writes.stream) BY <2>1 DEF InInv
  <2>3. IsPrefix(peer.got, writes.stream) BY <1>0, <2>2, AgreeIsPrefix
  <2>4. ASSUME ~writes.busy PROVE peer.got = writes.stream
    <3>1. Len(peer.got) = Len(writes.stream) BY <2>1, <2>4 DEF InInv
    <3>2. \A i \in 1 .. Len(peer.got) : peer.got[i] = writes.stream[i] BY <2>2 DEF Agree
    <3>. QED BY <1>0, <3>1, <3>2, SeqEqual
  <2>. QED BY <2>3, <2>4
<1>2. ASSUME sound.out
      PROVE  /\ IsPrefix(reads, peer.meant)
             /\ IsPrefix(SubSeq(peer.meant, 1, peer.acked), reads \o out.buf)
  <2>1. OutInv /\ OutMeant BY <1>2 DEF BulkInv
  <2>2. Agree(reads, peer.meant) BY <2>1 DEF OutInv
  <2>3. IsPrefix(reads, peer.meant) BY <1>0, <2>2, AgreeIsPrefix
  <2>4. PICK a \in Nat : a = peer.acked /\ a <= Len(peer.meant) BY <1>0, <2>1 DEF OutMeant
  <2> DEFINE m == peer.meant
             p == SubSeq(m, 1, a)
             q == reads \o out.buf
  <2>5. p \in Seq(Nat) /\ Len(p) = a /\ \A i \in 1 .. a : p[i] = m[i]
    <3>1. 0 \in 0 .. Len(m) /\ a \in 0 .. Len(m) /\ a - 0 = a /\ 0 + 1 = 1 BY <1>0, <2>4
    <3>2. /\ SubSeq(m, 0 + 1, a) \in Seq(Nat) /\ Len(SubSeq(m, 0 + 1, a)) = a - 0
          /\ \A i \in 1 .. a - 0 : SubSeq(m, 0 + 1, a)[i] = m[0 + i]
      BY <1>0, <3>1, Part
    <3>3. \A i \in 1 .. a : 0 + i = i BY <2>4
    <3>. QED BY <3>1, <3>2, <3>3
  <2>6. PICK R \in Nat, B \in Nat : R = Len(reads) /\ B = Len(out.buf) BY <1>0
  <2>7. /\ q \in Seq(Nat) /\ Len(q) = R + B
        /\ \A i \in 1 .. R : q[i] = reads[i]
        /\ \A i \in R + 1 .. R + B : q[i] = out.buf[i - R]
    <3>1. /\ q \in Seq(Nat) /\ Len(q) = R + B
          /\ \A i \in 1 .. R + B : q[i] = IF i <= R THEN reads[i] ELSE out.buf[i - R]
      BY <1>0, <2>6, Joined
    <3>. QED BY <3>1
  <2>8. a <= R + Held
    <3>1. PICK H \in Nat : H = Held BY <1>0 DEF Held
    <3>2. PICK x \in Nat : R + H = a + x
      <4>1. CASE OutRepeats
        <5>1. NextPacket \in Seq(Nat) BY <1>0, <2>1, <4>1, PacketShape DEF BulkInv, OutInv
        <5>. QED BY <2>1, <2>4, <2>6, <3>1, <4>1, <5>1 DEF OutInv
      <4>2. CASE ~OutRepeats BY <2>1, <2>4, <2>6, <3>1, <4>2 DEF OutInv
      <4>. QED BY <4>1, <4>2
    <3>. QED BY <3>1, <3>2
  <2>9. a <= R + B BY <2>6, <2>8 DEF Held
  <2>10. ASSUME NEW i \in 1 .. a PROVE p[i] = q[i]
    <3>1. CASE i <= R
      <4>1. i \in 1 .. R BY <3>1
      <4>. QED BY <2>2, <2>5, <2>6, <2>7, <4>1 DEF Agree
    <3>2. CASE ~(i <= R)
      <4>1. out.armed /\ i - R \in 1 .. B /\ R + (i - R) = i /\ i \in R + 1 .. R + B
        BY <2>8, <2>9, <3>2 DEF Held
      <4>2. out.buf[i - R] = m[R + (i - R)] BY <2>1, <2>6, <4>1 DEF OutInv
      <4>. QED BY <2>5, <2>7, <4>1, <4>2
    <3>. QED BY <3>1, <3>2
  <2> HIDE DEF p, q, m
  <2>11. Agree(p, q) BY <2>5, <2>7, <2>9, <2>10 DEF Agree
  <2>12. IsPrefix(p, q) BY <2>5, <2>7, <2>11, AgreeIsPrefix
  <2>. QED BY <2>3, <2>4, <2>12 DEF p, q, m
<1>. QED BY <1>1, <1>2 DEF BulkExact

(* Whatever acknowledges get lost and however long the messages are, neither *)
(* direction of the bulk endpoints loses, repeats or merges bytes or         *)
(* messages: the interrupt handler (usb_dc_usbhs.c:290-349) steps its toggle *)
(* once for every packet it counts, cuts a transfer where the host does, and *)
(* calls back when the host has it all.                                      *)
THEOREM BulkIsExact == Spec => []BulkExact
BY DeviceIsInvariant, InvIsExact, PTL DEF DeviceInv

----------------------------------------------------------------------------
(* Control transfers: what the device and the host know of each other in    *)
(* each stage of a transfer.                                                *)

Kinds == {"descriptor", "coding", "address", "configuration", "interface", "unknown"}
Lengths == 0 .. Width - 1
SetupType == [kind : Kinds, dir : {"in", "out"}, len : Lengths, offer : Lengths, id : {0, 1}]
Transfer == [len : Lengths, actual : Lengths]
Device ==
  [setup : SetupType, core : SetupType, in : Transfer, out : Transfer,
   tx : {"nak", "ack", "stall"}, txLen : Lengths, txToggle : BOOLEAN, toggle : BOOLEAN,
   dma : {"setup", "data"}, at : Lengths, pos : Lengths, residue : Lengths, len : Lengths,
   zlp : BOOLEAN, data : [Lengths -> Int], address : {0, 1}, pending : {0, 1},
   configured : BOOLEAN]
Host ==
  [stage : {"idle", "in", "out", "statusIn", "statusOut"},
   result : {"none", "done", "stalled"}, req : SetupType, toggle : BOOLEAN,
   count : Lengths, got : Seq(Int), behind : BOOLEAN, address : {0, 1}]
ControlType == d \in Device /\ h \in Host /\ acted \in Seq([id : {0, 1}, data : Seq(Int)])

(* The length of the data stage to the host; what is carried out, once; and *)
(* a refusal.                                                               *)
Total == Shorter(h.req.offer, h.req.len)
Once == <<[id |-> h.req.id, data |-> IF HasDataOut(h.req) THEN Positions(0, h.req.len) ELSE <<>>]>>
Refused == d.tx = "stall" /\ acted = <<>> /\ h.req.kind \in {"unknown", "interface"}

(* The data ends with a full packet before the host has all it asked for.   *)
EmptyFollows == h.req.offer < h.req.len /\ h.req.offer % Mps = 0
(* In the data stage to the host: the packet in the endpoint is the one the *)
(* host waits for, or the host has it and the device missed the             *)
(* acknowledge.                                                             *)
Sending ==
  /\ h.req.kind = "descriptor" /\ h.req.offer > 0 /\ acted = Once
  /\ d.tx = "ack" /\ d.txToggle = d.toggle /\ d.dma = "data"
  /\ \A i \in Lengths : d.data[i] = i
  /\ d.in = [len |-> d.residue, actual |-> 0] /\ d.txLen = Shorter(d.residue, Mps)
  /\ d.pos + d.residue = Total
  /\ d.zlp = (EmptyFollows /\ d.residue > 0)
  /\ d.residue > 0 => d.at = d.pos /\ Multiple(d.pos, Mps)
  /\ d.residue = 0 => EmptyFollows
  /\ IF h.behind THEN /\ h.toggle # d.txToggle /\ d.txLen = Mps
                      /\ h.count = d.pos + Mps /\ h.count < h.req.len
     ELSE h.toggle = d.txToggle /\ h.count = d.pos
  /\ h.got = Positions(0, h.count)


(* What holds in each stage.                                                *)
IdleInv ==
  h.stage = "idle" =>
    /\ d.dma = "setup" /\ d.toggle /\ d.pending = 0
    /\ ControlExact
DataInInv ==
  h.stage = "in" =>
    /\ h.req.dir = "in" /\ h.req.len > 0 /\ d.pending = 0
    /\ Sending \/ (Refused /\ d.dma = "setup" /\ d.toggle)
StatusOutInv ==
  h.stage = "statusOut" =>
    /\ h.req.kind = "descriptor" /\ h.req.dir = "in" /\ d.pending = 0
    /\ acted = Once /\ h.got = Positions(0, Total)
    /\ ~h.behind => d.out.actual = 0
DataOutInv ==
  h.stage = "out" =>
    /\ h.req.kind \in {"coding", "unknown"} /\ HasDataOut(h.req)
    /\ d.dma = "data" /\ d.at = h.count /\ d.pos = h.count /\ h.count < h.req.len
    /\ d.residue = h.req.len - h.count /\ d.out = [len |-> d.residue, actual |-> 0]
    /\ \A i \in 0 .. h.count - 1 : d.data[i] = i
    /\ acted = <<>> /\ d.toggle /\ h.toggle /\ ~h.behind /\ ~d.zlp /\ d.pending = 0
StatusInInv ==
  h.stage = "statusIn" =>
    /\ h.req.dir = "out" /\ h.toggle /\ ~h.behind
    /\ h.req.len = 0 => d.dma = "setup" /\ d.toggle
    /\ \/ Refused /\ d.pending = 0
       \/ /\ d.tx = "ack" /\ d.txToggle /\ d.txLen = 0 /\ acted = Once
          /\ d.in = [len |-> 0, actual |-> 0] /\ d.residue = 0 /\ ~d.zlp
          /\ d.pending = (IF h.req.kind = "address" THEN 1 ELSE 0)

(* The inductive invariant: ControlExact alone says nothing of a transfer   *)
(* that is under way.                                                       *)
ControlInv ==
  clean =>
    /\ ControlType /\ Hears
    /\ h.stage # "idle" => d.core = h.req
    /\ h.stage \in {"in", "out", "statusIn"} => d.setup = h.req
    /\ IdleInv /\ DataInInv /\ StatusOutInv /\ DataOutInv /\ StatusInInv

(* The constants.                                                           *)
LEMMA WidthFacts ==
  /\ Mps \in Nat \ {0} /\ Width \in Nat \ {0} /\ BufferLen \in Nat /\ BufferLen < Width
  /\ 0 \in Lengths /\ Lengths \subseteq Nat
BY ControlAssumption DEF Lengths

(* Lengths do not wrap.                                                     *)
LEMMA ModSmall == ASSUME NEW x \in Lengths PROVE x % Width = x
<1>1. Width \in Nat \ {0} /\ x \in 0 .. Width - 1 /\ x \in Nat BY WidthFacts DEF Lengths
<1>2. (Width * 0 + x) % Width = x BY <1>1, Remainder
<1>. QED BY <1>1, <1>2

(* A difference of lengths.                                                 *)
LEMMA MinusSmall ==
  ASSUME NEW a \in Lengths, NEW b \in Lengths, b <= a
  PROVE  Minus(a, b) = a - b /\ a - b \in Lengths
<1>1. Width \in Nat \ {0} /\ a \in 0 .. Width - 1 /\ b \in 0 .. Width - 1
  BY WidthFacts DEF Lengths
<1>2. PICK c \in 0 .. Width - 1 : c = a - b BY <1>1
<1>3. (Width * 1 + c) % Width = c BY <1>1, <1>2, Remainder
<1>4. a + Width - b = Width * 1 + c BY <1>1, <1>2
<1>. QED BY <1>2, <1>3, <1>4 DEF Minus, Lengths

(* Below zero it wraps.                                                     *)
LEMMA MinusBelow ==
  ASSUME NEW a \in Lengths, NEW b \in Lengths, a < b
  PROVE  Minus(a, b) = Width + a - b
<1>1. Width \in Nat \ {0} /\ a \in 0 .. Width - 1 /\ b \in 0 .. Width - 1
  BY WidthFacts DEF Lengths
<1>2. PICK c \in 0 .. Width - 1 : c = a + Width - b BY <1>1
<1>3. (Width * 0 + c) % Width = c BY <1>1, <1>2, Remainder
<1>. QED BY <1>1, <1>2, <1>3 DEF Minus

(* The positions of the bytes a host is sent.                               *)
LEMMA PositionsShape ==
  ASSUME NEW c \in Nat
  PROVE  /\ Positions(0, c) \in Seq(Int) /\ Len(Positions(0, c)) = c
         /\ \A i \in 1 .. c : Positions(0, c)[i] = i - 1
<1>1. Positions(0, c) = [i \in 1 .. c |-> 0 + i - 1] BY DEF Positions
<1>2. \A i \in 1 .. c : 0 + i - 1 \in Int OBVIOUS
<1>. QED BY <1>1, <1>2

(* A packet continues what came before it.                                  *)
LEMMA PositionsJoin ==
  ASSUME NEW c \in Nat, NEW n \in Nat
  PROVE  Positions(0, c) \o [i \in 1 .. n |-> c + i - 1] = Positions(0, c + n)
<1> DEFINE s == Positions(0, c)
           t == [i \in 1 .. n |-> c + i - 1]
           u == Positions(0, c + n)
<1>1. s \in Seq(Int) /\ Len(s) = c /\ \A i \in 1 .. c : s[i] = i - 1 BY PositionsShape
<1>2. t \in Seq(Int) /\ Len(t) = n /\ \A i \in 1 .. n : t[i] = c + i - 1 OBVIOUS
<1>3. /\ u \in Seq(Int) /\ Len(u) = c + n
      /\ \A i \in 1 .. c + n : u[i] = i - 1
  BY PositionsShape
<1> HIDE DEF s, t, u
<1>4. /\ s \o t \in Seq(Int) /\ Len(s \o t) = c + n
      /\ \A i \in 1 .. c + n : (s \o t)[i] = IF i <= c THEN s[i] ELSE t[i - c]
  BY <1>1, <1>2, Joined
<1>5. ASSUME NEW i \in 1 .. c + n PROVE (s \o t)[i] = u[i]
  <2>1. CASE i <= c
    <3>1. i \in 1 .. c BY <2>1
    <3>. QED BY <1>1, <1>3, <1>4, <2>1, <3>1
  <2>2. CASE ~(i <= c)
    <3>1. i - c \in 1 .. n /\ c + (i - c) - 1 = i - 1 BY <2>2
    <3>. QED BY <1>2, <1>3, <1>4, <2>2, <3>1
  <2>. QED BY <2>1, <2>2
<1>6. s \o t = u BY <1>3, <1>4, <1>5, SeqEqual
<1>. QED BY <1>6 DEF s, t, u

(* The requests the host can make.                                          *)
LEMMA RequestShape ==
  ASSUME NEW r \in Requests
  PROVE  /\ r \in SetupType /\ r.id = 0
         /\ r.dir = "in" => /\ r.len > 0
                            /\ r.kind = "unknown" \/ (r.kind = "descriptor" /\ r.offer > 0)
         /\ r.dir = "out" => r.kind # "descriptor"
         /\ r.dir = "out" /\ r.len > 0 => r.kind \in {"coding", "unknown"}
         /\ r.dir = "out" /\ r.len = 0 => r.kind # "coding"
<1>1. /\ \A n \in Asked : n \in Lengths /\ n > 0
      /\ \A m \in Offered : m \in Lengths /\ m > 0
  BY ControlAssumption DEF Lengths
<1>2. CASE \E n \in Asked, m \in Offered : r = [Plain("descriptor", "in", n) EXCEPT !.offer = m]
  BY <1>1, <1>2 DEF Plain, SetupType, Kinds
<1>3. CASE \E n \in Asked : r = Plain("coding", "out", n)
  BY <1>1, <1>3, WidthFacts DEF Plain, SetupType, Kinds
<1>4. CASE \E n \in Asked : r = Plain("unknown", "in", n)
  BY <1>1, <1>4, WidthFacts DEF Plain, SetupType, Kinds
<1>5. CASE \E n \in {0} \cup Asked : r = Plain("unknown", "out", n)
  BY <1>1, <1>5, WidthFacts DEF Plain, SetupType, Kinds
<1>6. CASE r \in {Plain("address", "out", 0), Plain("configuration", "out", 0), Plain("interface", "out", 0)}
  BY <1>6, WidthFacts DEF Plain, SetupType, Kinds
<1>. QED BY <1>2, <1>3, <1>4, <1>5, <1>6 DEF Requests

(* Power-on and a reset of the bus.                                         *)
LEMMA ControlBegins ==
  /\ ControlInit => ControlInv
  /\ HostReset => ControlInv'
<1>1. NoSetup \in SetupType BY WidthFacts DEF NoSetup, Plain, SetupType, Kinds
<1>2. Unknown \in [Lengths -> Int] BY DEF Unknown, Lengths
<1>3. PowerOn \in Device BY <1>1, <1>2, WidthFacts DEF PowerOn, Device, Transfer
<1>4. Resting \in Host BY <1>1, WidthFacts DEF Resting, Host
<1>. USE DEF ControlInv, ControlType, Hears, IdleInv, DataInInv, StatusOutInv, DataOutInv, StatusInInv,
             ControlExact
<1>5. ControlInit => ControlInv
  <2> SUFFICES ASSUME ControlInit PROVE ControlInv OBVIOUS
  <2>1. d = PowerOn /\ h = Resting /\ acted = <<>> BY DEF ControlInit
  <2>2. d.dma = "setup" /\ d.toggle /\ d.pending = 0 /\ d.address = 0 BY <2>1 DEF PowerOn
  <2>3. h.stage = "idle" /\ h.result = "none" /\ h.address = 0 BY <2>1 DEF Resting
  <2>. QED BY <1>3, <1>4, <2>1, <2>2, <2>3
<1>6. HostReset => ControlInv'
  <2> SUFFICES ASSUME HostReset PROVE ControlInv' OBVIOUS
  <2>1. d' = PowerOn /\ h' = Resting /\ acted' = <<>> BY DEF HostReset, ResetDevice
  <2>2. d'.dma = "setup" /\ d'.toggle /\ d'.pending = 0 /\ d'.address = 0 BY <2>1 DEF PowerOn
  <2>3. h'.stage = "idle" /\ h'.result = "none" /\ h'.address = 0 BY <2>1 DEF Resting
  <2>. QED BY <1>3, <1>4, <2>1, <2>2, <2>3
<1>. QED BY <1>5, <1>6

(* usbd_ep_start_write, field by field.                                     *)
LEMMA StartWriteIs ==
  ASSUME NEW e \in Device, NEW n \in Lengths, NEW f, f = StartWrite(e, n)
  PROVE  /\ f \in Device
         /\ f.in = [len |-> n, actual |-> 0] /\ f.tx = "ack" /\ f.txToggle = e.toggle
         /\ f.txLen = Shorter(n, Mps)
         /\ n = 0 => f.dma = e.dma /\ f.at = e.at
         /\ n # 0 => f.dma = "data" /\ f.at = e.pos
         /\ f.setup = e.setup /\ f.core = e.core /\ f.out = e.out /\ f.toggle = e.toggle
         /\ f.pos = e.pos /\ f.residue = e.residue /\ f.zlp = e.zlp /\ f.data = e.data
         /\ f.address = e.address /\ f.pending = e.pending
<1>1. PICK i \in Transfer : i = [len |-> n, actual |-> 0] BY WidthFacts DEF Transfer
<1>2. PICK l \in Lengths : l = Shorter(n, Mps) BY WidthFacts DEF Shorter, Lengths
<1>3. e.dma \in {"setup", "data"} /\ e.at \in Lengths /\ e.pos \in Lengths /\ e.toggle \in BOOLEAN
  BY DEF Device
<1>4. PICK m \in {"setup", "data"} : m = IF n = 0 THEN e.dma ELSE "data" BY <1>3
<1>5. PICK a \in Lengths : a = IF n = 0 THEN e.at ELSE e.pos BY <1>3
<1>6. PICK g \in BOOLEAN : g = e.toggle BY <1>3
<1>7. f = [e EXCEPT !.in = i, !.tx = "ack", !.txToggle = g, !.txLen = l, !.dma = m, !.at = a]
  BY <1>1, <1>2, <1>4, <1>5, <1>6 DEF StartWrite
<1>8. /\ f \in Device /\ f.in = i /\ f.tx = "ack" /\ f.txToggle = g /\ f.txLen = l
      /\ f.dma = m /\ f.at = a
      /\ f.setup = e.setup /\ f.core = e.core /\ f.out = e.out /\ f.toggle = e.toggle
      /\ f.pos = e.pos /\ f.residue = e.residue /\ f.zlp = e.zlp /\ f.data = e.data
      /\ f.address = e.address /\ f.pending = e.pending
  BY <1>7 DEF Device
<1>. QED BY <1>1, <1>2, <1>4, <1>5, <1>6, <1>8

(* usbd_ep_start_read keeps the transmitter as it is.                       *)
LEMMA StartReadIs ==
  ASSUME NEW e \in Device, NEW n \in Lengths, NEW f, f = StartRead(e, n)
  PROVE  /\ f \in Device
         /\ f.out = [len |-> n, actual |-> 0]
         /\ n = 0 => f.dma = e.dma /\ f.at = e.at
         /\ n # 0 => f.dma = "data" /\ f.at = e.pos
         /\ f.setup = e.setup /\ f.core = e.core /\ f.in = e.in /\ f.toggle = e.toggle
         /\ f.tx = e.tx /\ f.txToggle = e.txToggle /\ f.txLen = e.txLen
         /\ f.pos = e.pos /\ f.residue = e.residue /\ f.zlp = e.zlp /\ f.data = e.data
         /\ f.address = e.address /\ f.pending = e.pending
<1>1. PICK o \in Transfer : o = [len |-> n, actual |-> 0] BY WidthFacts DEF Transfer
<1>2. e.dma \in {"setup", "data"} /\ e.at \in Lengths /\ e.pos \in Lengths BY DEF Device
<1>3. PICK m \in {"setup", "data"} : m = IF n = 0 THEN e.dma ELSE "data" BY <1>2
<1>4. PICK a \in Lengths : a = IF n = 0 THEN e.at ELSE e.pos BY <1>2
<1>5. f = [e EXCEPT !.out = o, !.dma = m, !.at = a] BY <1>1, <1>3, <1>4 DEF StartRead
<1>6. /\ f \in Device /\ f.out = o /\ f.dma = m /\ f.at = a
      /\ f.setup = e.setup /\ f.core = e.core /\ f.in = e.in /\ f.toggle = e.toggle
      /\ f.tx = e.tx /\ f.txToggle = e.txToggle /\ f.txLen = e.txLen
      /\ f.pos = e.pos /\ f.residue = e.residue /\ f.zlp = e.zlp /\ f.data = e.data
      /\ f.address = e.address /\ f.pending = e.pending
  BY <1>5 DEF Device
<1>. QED BY <1>1, <1>3, <1>4, <1>6

(* HandleRequest on what SetupComplete or the last packet left.             *)
LEMMA HandleRequestIs ==
  ASSUME NEW e \in Device, NEW r \in SetupType, NEW f, f = HandleRequest(e, r)
  PROVE  /\ f \in Device
         /\ f.len = IF r.kind = "descriptor" THEN r.offer ELSE IF r.kind = "coding" THEN e.len ELSE 0
         /\ r.kind = "descriptor" => \A i \in Lengths : f.data[i] = i
         /\ r.kind # "descriptor" => f.data = e.data
         /\ f.pending = IF r.kind = "address" THEN 1 ELSE e.pending
         /\ f.setup = e.setup /\ f.core = e.core /\ f.in = e.in /\ f.out = e.out
         /\ f.tx = e.tx /\ f.txLen = e.txLen /\ f.txToggle = e.txToggle /\ f.toggle = e.toggle
         /\ f.dma = e.dma /\ f.at = e.at /\ f.pos = e.pos /\ f.residue = e.residue
         /\ f.zlp = e.zlp /\ f.address = e.address
<1>1. /\ e.len \in Lengths /\ e.data \in [Lengths -> Int] /\ e.pending \in {0, 1}
      /\ e.configured \in BOOLEAN
  BY DEF Device
<1>2. r.offer \in Lengths BY DEF SetupType
<1>3. PICK l \in Lengths :
        l = IF r.kind = "descriptor" THEN r.offer ELSE IF r.kind = "coding" THEN e.len ELSE 0
  BY <1>1, <1>2, WidthFacts
<1>4. [i \in Lengths |-> i] \in [Lengths -> Int] BY DEF Lengths
<1>5. DOMAIN e.data = Lengths BY <1>1
<1>6. PICK v \in [Lengths -> Int] :
        v = IF r.kind = "descriptor" THEN [i \in DOMAIN e.data |-> i] ELSE e.data
  BY <1>1, <1>4, <1>5
<1>7. PICK p \in {0, 1} : p = IF r.kind = "address" THEN 1 ELSE e.pending BY <1>1
<1>8. PICK k \in BOOLEAN : k = (e.configured \/ r.kind = "configuration") BY <1>1
<1>9. f = [e EXCEPT !.len = l, !.data = v, !.pending = p, !.configured = k]
  BY <1>3, <1>6, <1>7, <1>8 DEF HandleRequest
<1>10. r.kind = "descriptor" => \A i \in Lengths : v[i] = i BY <1>5, <1>6
<1>11. /\ f \in Device /\ f.len = l /\ f.data = v /\ f.pending = p
       /\ f.setup = e.setup /\ f.core = e.core /\ f.in = e.in /\ f.out = e.out
       /\ f.tx = e.tx /\ f.txLen = e.txLen /\ f.txToggle = e.txToggle /\ f.toggle = e.toggle
       /\ f.dma = e.dma /\ f.at = e.at /\ f.pos = e.pos /\ f.residue = e.residue
       /\ f.zlp = e.zlp /\ f.address = e.address
  BY <1>9 DEF Device
<1>. QED BY <1>3, <1>6, <1>7, <1>10, <1>11

(* A SETUP packet.                                                          *)
LEMMA SetupStep ==
  ASSUME ControlInv, clean', NEW r \in Requests, HostSetup(r)
  PROVE  ControlInv'
<1> DEFINE s == [r EXCEPT !.id = 1 - h.req.id]
           e == [d EXCEPT !.setup = s]
           c == [e EXCEPT !.core = s, !.pos = 0, !.residue = s.len, !.len = s.len, !.zlp = FALSE,
                          !.data = Unknown]
           a == HandleRequest(c, s)
           n == Shorter(a.len, s.len)
           more == s.len > a.len /\ a.len % Mps = 0
<1>1. /\ h.stage = "idle" /\ clean /\ Hears /\ d \in Device /\ h \in Host
      /\ d.dma = "setup" /\ d.toggle /\ d.pending = 0
  BY DEF HostSetup, ControlInv, ControlType, IdleInv
<1>2. /\ s \in SetupType /\ s.kind = r.kind /\ s.dir = r.dir /\ s.len = r.len
      /\ s.offer = r.offer /\ s.id = 1 - h.req.id
  <2>1. h.req.id \in {0, 1} BY <1>1 DEF Host, SetupType
  <2>2. 1 - h.req.id \in {0, 1} BY <2>1
  <2>. QED BY <2>2, RequestShape DEF SetupType
<1>3. /\ d' = SetupComplete(e)[1] /\ acted' = SetupComplete(e)[2]
      /\ h' = [h EXCEPT !.stage = IF r.dir = "in" THEN "in" ELSE IF r.len > 0 THEN "out" ELSE "statusIn",
                        !.req = s, !.result = "none", !.toggle = TRUE, !.count = 0, !.got = <<>>,
                        !.behind = FALSE]
      /\ ~(HasDataOut(r) /\ r.len > BufferLen)
  BY <1>1 DEF HostSetup
<1> HIDE DEF s
<1>4. /\ e \in Device /\ e.setup = s
      /\ c \in Device /\ c.setup = s /\ c.core = s /\ c.pos = 0 /\ c.residue = s.len
      /\ c.len = s.len /\ ~c.zlp /\ c.data = Unknown /\ c.dma = "setup" /\ c.toggle
      /\ c.pending = 0 /\ c.address = d.address
  <2>1. Unknown \in [Lengths -> Int] BY DEF Unknown, Lengths
  <2>2. s.len \in Lengths BY <1>2 DEF SetupType
  <2>3. e \in Device /\ e.setup = s /\ e.dma = "setup" /\ e.toggle /\ e.pending = 0
        /\ e.address = d.address
    BY <1>1, <1>2 DEF Device
  <2> HIDE DEF e
  <2>4. PICK z \in BOOLEAN : z = FALSE OBVIOUS
  <2>5. c = [e EXCEPT !.core = s, !.pos = 0, !.residue = s.len, !.len = s.len, !.zlp = z,
                      !.data = Unknown]
    BY <2>4
  <2> HIDE DEF c
  <2>6. /\ c \in Device /\ c.setup = e.setup /\ c.core = s /\ c.pos = 0 /\ c.residue = s.len
        /\ c.len = s.len /\ c.zlp = z /\ c.data = Unknown /\ c.dma = e.dma
        /\ c.toggle = e.toggle /\ c.pending = e.pending /\ c.address = e.address
    <3>1. s \in SetupType /\ e \in Device /\ 0 \in Lengths BY <1>2, <2>3, WidthFacts
    <3>. QED BY <2>1, <2>2, <2>5, <3>1 DEF Device
  <2>. QED BY <2>3, <2>4, <2>6
<1>5. /\ h' \in Host /\ h'.req = s /\ h'.result = "none" /\ h'.toggle /\ h'.count = 0
      /\ h'.got = <<>> /\ ~h'.behind /\ h'.address = h.address
      /\ h'.stage = IF s.dir = "in" THEN "in" ELSE IF s.len > 0 THEN "out" ELSE "statusIn"
  <2>1. <<>> \in Seq(Int) BY EmptySeq
  <2>. QED BY <1>1, <1>2, <1>3, <2>1, WidthFacts DEF Host
<1>6. SetupComplete(e) =
        CASE HasDataOut(s) /\ s.len > BufferLen -> <<SetStall([e EXCEPT !.core = s]), <<>> >>
          [] HasDataOut(s) /\ s.len <= BufferLen -> <<StartRead(c, s.len), <<>> >>
          [] ~HasDataOut(s) /\ ~Accepts(c, s) -> <<SetStall(c), <<>> >>
          [] ~HasDataOut(s) /\ Accepts(c, s) ->
               <<StartWrite([a EXCEPT !.residue = n, !.zlp = more], n), <<Record(a, s)>> >>
  BY <1>4 DEF SetupComplete
<1>7. /\ s.dir = "in" => /\ s.len > 0
                         /\ s.kind = "unknown" \/ (s.kind = "descriptor" /\ s.offer > 0)
      /\ s.dir = "out" => s.kind # "descriptor"
      /\ s.dir = "out" /\ s.len > 0 => s.kind \in {"coding", "unknown"}
      /\ s.dir = "out" /\ s.len = 0 => s.kind # "coding"
      /\ s.kind \in Kinds /\ s.dir \in {"in", "out"} /\ s.len \in Lengths /\ s.offer \in Lengths
      /\ ~(HasDataOut(s) /\ s.len > BufferLen)
  BY <1>2, <1>3, RequestShape DEF SetupType, HasDataOut
<1>8. s.len \in Nat /\ BufferLen \in Nat /\ s.len >= 0
  <2>1. s.len \in Nat BY <1>7, WidthFacts
  <2>. QED BY <2>1, WidthFacts
<1> HIDE DEF s, e, c
<1>. USE DEF ControlInv, ControlType, Hears, IdleInv, DataInInv, StatusOutInv, DataOutInv, StatusInInv
<1>9. CASE HasDataOut(s)
  <2>1. s.dir = "out" /\ s.len > 0 /\ s.len <= BufferLen BY <1>7, <1>8, <1>9 DEF HasDataOut
  <2>2. SetupComplete(e) = <<StartRead(c, s.len), <<>> >> BY <1>6, <1>9, <2>1
  <2>3. d' = StartRead(c, s.len) /\ acted' = <<>> BY <1>3, <2>2
  <2>5. /\ d' \in Device /\ d'.setup = s /\ d'.core = s /\ d'.out = [len |-> s.len, actual |-> 0]
        /\ d'.dma = "data" /\ d'.at = 0 /\ d'.pos = 0 /\ d'.residue = s.len /\ ~d'.zlp
        /\ d'.toggle /\ d'.pending = 0 /\ d'.address = d.address
    BY <1>4, <1>7, <1>8, <2>1, <2>3, StartReadIs
  <2>6. h'.stage = "out" BY <1>5, <2>1
  <2>7. s.len - 0 = s.len /\ \A i \in 0 .. 0 - 1 : FALSE BY <1>8
  <2>8. DataOutInv'
    BY <1>5, <1>7, <1>9, <2>1, <2>3, <2>5, <2>6, <2>7
  <2>9. <<>> \in Seq([id : {0, 1}, data : Seq(Int)]) BY EmptySeq
  <2>. QED BY <1>1, <1>5, <2>3, <2>5, <2>6, <2>8, <2>9
<1>10. CASE ~HasDataOut(s) /\ ~Accepts(c, s)
  <2>1. SetupComplete(e) = <<SetStall(c), <<>> >> BY <1>6, <1>10
  <2>2. d' = [c EXCEPT !.tx = "stall"] /\ acted' = <<>> BY <1>3, <2>1 DEF SetStall
  <2>3. /\ d' \in Device /\ d'.setup = s /\ d'.core = s /\ d'.tx = "stall" /\ d'.dma = "setup"
        /\ d'.toggle /\ d'.pending = 0 /\ d'.address = d.address
    BY <1>4, <2>2 DEF Device
  <2>4. s.kind \in {"unknown", "interface"} BY <1>7, <1>10 DEF Accepts, Kinds
  <2>5. s.dir = "in" \/ (s.dir = "out" /\ s.len = 0) BY <1>7, <1>8, <1>10 DEF HasDataOut
  <2>6. Refused' BY <1>5, <2>2, <2>3, <2>4 DEF Refused
  <2>9. <<>> \in Seq([id : {0, 1}, data : Seq(Int)]) BY EmptySeq
  <2>10. CASE s.dir = "in"
    <3>1. h'.stage = "in" BY <1>5, <2>10
    <3>. QED BY <1>1, <1>5, <1>7, <2>2, <2>3, <2>6, <2>9, <2>10, <3>1
  <2>11. CASE s.dir = "out" /\ s.len = 0
    <3>1. h'.stage = "statusIn" BY <1>5, <2>11
    <3>. QED BY <1>1, <1>5, <1>7, <2>2, <2>3, <2>6, <2>9, <2>11, <3>1
  <2>. QED BY <2>5, <2>10, <2>11
<1>11. CASE ~HasDataOut(s) /\ Accepts(c, s)
  <2>1. SetupComplete(e) =
          <<StartWrite([a EXCEPT !.residue = n, !.zlp = more], n), <<Record(a, s)>> >>
    BY <1>6, <1>11
  <2>2. d' = StartWrite([a EXCEPT !.residue = n, !.zlp = more], n) /\ acted' = <<Record(a, s)>>
    BY <1>3, <2>1
  <2>3. Record(a, s) = [id |-> s.id, data |-> <<>>] BY <1>11 DEF Record
  <2>4. <<Record(a, s)>> \in Seq([id : {0, 1}, data : Seq(Int)])
    <3>1. s.id \in {0, 1} BY <1>2 DEF SetupType
    <3>2. <<>> \in Seq(Int) BY EmptySeq
    <3>3. Record(a, s) \in [id : {0, 1}, data : Seq(Int)] BY <2>3, <3>1, <3>2
    <3>. QED BY <3>3
  <2>5. Once' = <<Record(a, s)>> BY <1>5, <1>11, <2>3 DEF Once
  <2>6. CASE s.dir = "in"
    <3>1. s.kind = "descriptor" /\ s.offer > 0 /\ s.len > 0 BY <1>7, <1>11, <2>6 DEF Accepts
    <3>3. /\ a \in Device /\ a.setup = s /\ a.core = s /\ a.pos = 0 /\ a.len = s.offer
          /\ a.dma = "setup" /\ a.toggle /\ a.pending = 0 /\ a.address = d.address
          /\ \A i \in Lengths : a.data[i] = i
      BY <1>2, <1>4, <3>1, HandleRequestIs
    <3>4. n = Shorter(s.offer, s.len) /\ n \in Lengths /\ n > 0
      BY <1>7, <3>1, <3>3, WidthFacts DEF Shorter
    <3>5. more = (s.offer < s.len /\ s.offer % Mps = 0) /\ more \in BOOLEAN
      BY <1>7, <3>3, WidthFacts
    <3> HIDE DEF a, n, more
    <3>6. PICK m \in BOOLEAN : m = more BY <3>5
    <3>7. PICK f : f = [a EXCEPT !.residue = n, !.zlp = m] OBVIOUS
    <3>8. /\ f \in Device /\ f.setup = s /\ f.core = s /\ f.pos = 0 /\ f.dma = "setup" /\ f.toggle
          /\ f.pending = 0 /\ f.address = d.address /\ f.residue = n /\ f.zlp = m
          /\ \A i \in Lengths : f.data[i] = i
      BY <3>3, <3>4, <3>7 DEF Device
    <3>9. n # 0 BY <3>4, WidthFacts
    <3>10. d' = StartWrite(f, n) BY <2>2, <3>6, <3>7
    <3>11. /\ d' \in Device /\ d'.setup = s /\ d'.core = s /\ d'.pos = 0 /\ d'.at = 0
           /\ d'.dma = "data" /\ d'.toggle /\ d'.txToggle /\ d'.tx = "ack" /\ d'.txLen = Shorter(n, Mps)
           /\ d'.pending = 0 /\ d'.address = d.address /\ d'.residue = n /\ d'.zlp = m
           /\ d'.in = [len |-> n, actual |-> 0]
           /\ \A i \in Lengths : d'.data[i] = i
      BY <3>4, <3>8, <3>9, <3>10, StartWriteIs
    <3>12. Total' = n BY <1>5, <3>4 DEF Total
    <3>13. EmptyFollows' = m BY <1>5, <3>5, <3>6 DEF EmptyFollows
    <3>14. Multiple(0, Mps) BY NextMultiple, WidthFacts DEF Multiple
    <3>15. h'.got = Positions(0, 0) BY <1>5 DEF Positions
    <3>16. 0 + n = n /\ n # 0 /\ n > 0 BY <3>4, WidthFacts
    <3>17. Sending'
      BY <1>5, <2>2, <2>5, <3>1, <3>9, <3>11, <3>12, <3>13, <3>14, <3>15, <3>16 DEF Sending
    <3>18. h'.stage = "in" BY <1>5, <2>6
    <3>. QED BY <1>1, <1>5, <2>2, <2>4, <2>6, <3>1, <3>11, <3>17, <3>18
  <2>7. CASE s.dir = "out"
    <3>1. s.len = 0 /\ s.kind \in {"address", "configuration", "interface"}
      BY <1>7, <1>8, <1>11, <2>7 DEF Accepts, HasDataOut
    <3>2. PICK p \in {0, 1} : p = IF s.kind = "address" THEN 1 ELSE 0 OBVIOUS
    <3>3. /\ a \in Device /\ a.setup = s /\ a.core = s /\ a.pos = 0 /\ a.len = 0
          /\ a.dma = "setup" /\ a.toggle /\ a.pending = p /\ a.address = d.address
      BY <1>2, <1>4, <3>1, <3>2, HandleRequestIs
    <3>4. n = 0 /\ ~more BY <3>1, <3>3 DEF Shorter
    <3> HIDE DEF a, n, more
    <3>5. PICK f : f = [a EXCEPT !.residue = 0, !.zlp = FALSE] OBVIOUS
    <3>6. /\ f \in Device /\ f.setup = s /\ f.core = s /\ f.dma = "setup" /\ f.toggle
          /\ f.pending = p /\ f.address = d.address /\ f.residue = 0 /\ ~f.zlp
      <4>1. a \in Device /\ 0 \in Lengths BY <3>3, WidthFacts
      <4>2. f \in Device /\ f.residue = 0 /\ f.zlp = FALSE /\ f.setup = a.setup
            /\ f.core = a.core /\ f.dma = a.dma /\ f.toggle = a.toggle
            /\ f.pending = a.pending /\ f.address = a.address
        BY <3>5, <4>1 DEF Device
      <4>. QED BY <3>3, <4>2
    <3>7. Shorter(0, Mps) = 0 BY WidthFacts DEF Shorter
    <3>8. d' = StartWrite(f, 0)
      <4>1. more = FALSE BY <3>4 DEF more
      <4>. QED BY <2>2, <3>4, <3>5, <4>1
    <3>10. /\ d' \in Device /\ d'.setup = s /\ d'.core = s /\ d'.dma = "setup" /\ d'.toggle
           /\ d'.txToggle /\ d'.tx = "ack" /\ d'.txLen = 0 /\ d'.pending = p
           /\ d'.address = d.address /\ d'.residue = 0 /\ ~d'.zlp
           /\ d'.in = [len |-> 0, actual |-> 0]
      BY <3>6, <3>7, <3>8, WidthFacts, StartWriteIs
    <3>11. h'.stage = "statusIn" BY <1>5, <2>7, <3>1, <1>8
    <3>. QED BY <1>1, <1>5, <2>2, <2>4, <2>5, <2>7, <3>1, <3>2, <3>10, <3>11
  <2>. QED BY <1>7, <2>6, <2>7
<1>. QED BY <1>9, <1>10, <1>11

(* What a packet the host has acknowledged leaves, up to what follows it:   *)
(* c is the device after usbd_event_ep0_in_complete_handler has counted.    *)
LEMMA Counted ==
  ASSUME NEW e \in Device, e.in = [len |-> e.residue, actual |-> 0],
         e.pos + e.residue \in Lengths
  PROVE  \E c \in Device :
           /\ c.pos = e.pos + Shorter(e.residue, Mps)
           /\ c.residue = e.residue - Shorter(e.residue, Mps)
           /\ c.toggle = InToggle(e)
           /\ c.setup = e.setup /\ c.core = e.core /\ c.out = e.out
           /\ c.tx = e.tx /\ c.txLen = e.txLen /\ c.txToggle = e.txToggle
           /\ c.dma = e.dma /\ c.at = e.at /\ c.zlp = e.zlp /\ c.data = e.data
           /\ c.address = e.address /\ c.pending = e.pending
           /\ InTokenDone(e) =
                LET done  == CASE c.residue # 0 -> StartWrite(c, c.residue)
                               [] c.residue = 0 /\ c.zlp -> StartWrite([c EXCEPT !.zlp = FALSE], 0)
                               [] c.residue = 0 /\ ~c.zlp /\ c.core.len > 0 /\ c.core.dir = "in"
                                    -> StartRead(c, 0)
                               [] OTHER -> c
                    moved == IF done.pending > 0
                             THEN [done EXCEPT !.address = done.pending, !.pending = 0] ELSE done
                IN IF HasDataOut(moved.setup) \/ moved.setup.len = 0
                   THEN [ReadSetup(moved) EXCEPT !.toggle = TRUE] ELSE moved
<1>1. e.residue \in Lengths /\ e.pos \in Lengths BY DEF Device
<1>2. PICK n \in Lengths : n = Shorter(e.residue, Mps) BY <1>1, WidthFacts DEF Shorter, Lengths
<1>3. n <= e.residue
  <2>1. e.residue \in Nat BY <1>1, WidthFacts
  <2>. QED BY <1>2, <2>1, WidthFacts DEF Shorter
<1>4. /\ e.residue - n \in Lengths /\ Minus(e.residue, n) = e.residue - n
  BY <1>1, <1>3, MinusSmall
<1>5. e.pos + n \in Lengths /\ (e.pos + n) % Width = e.pos + n
  <2>1. e.pos + n \in Lengths
    <3>1. Width \in Nat BY WidthFacts
    <3>. QED BY <1>1, <1>3, <3>1 DEF Lengths
  <2>. QED BY <2>1, ModSmall
<1>6. PICK g \in BOOLEAN : g = InToggle(e)
  <2>1. e.toggle \in BOOLEAN BY DEF Device
  <2>. QED BY <2>1 DEF InToggle
<1>7. PICK i \in Transfer : i = [len |-> e.residue - n, actual |-> n] BY <1>4 DEF Transfer
<1> DEFINE counted == [e EXCEPT !.in = [len |-> @.len - Shorter(e.in.len, Mps),
                                        actual |-> @.actual + Shorter(e.in.len, Mps)],
                                !.toggle = InToggle(e)]
           c == [counted EXCEPT !.pos = (@ + counted.in.actual) % Width,
                                !.residue = Minus(@, counted.in.actual)]
<1>8. counted = [e EXCEPT !.in = i, !.toggle = g]
  <2>1. e.in.len = e.residue /\ e.in.actual = 0 OBVIOUS
  <2>2. 0 + n = n BY <1>2, WidthFacts
  <2>. QED BY <1>2, <1>6, <1>7, <2>1, <2>2
<1>9. /\ counted \in Device /\ counted.in = i /\ counted.toggle = g
      /\ counted.setup = e.setup /\ counted.core = e.core /\ counted.out = e.out
      /\ counted.tx = e.tx /\ counted.txLen = e.txLen /\ counted.txToggle = e.txToggle
      /\ counted.dma = e.dma /\ counted.at = e.at /\ counted.zlp = e.zlp
      /\ counted.data = e.data /\ counted.pos = e.pos /\ counted.residue = e.residue
      /\ counted.address = e.address /\ counted.pending = e.pending
  <2>. HIDE DEF counted
  <2>. QED BY <1>8 DEF Device
<1>10. InTokenDone(e) =
         LET done  == CASE c.residue # 0 -> StartWrite(c, c.residue)
                        [] c.residue = 0 /\ c.zlp -> StartWrite([c EXCEPT !.zlp = FALSE], 0)
                        [] c.residue = 0 /\ ~c.zlp /\ c.core.len > 0 /\ c.core.dir = "in"
                             -> StartRead(c, 0)
                        [] OTHER -> c
             moved == IF done.pending > 0
                      THEN [done EXCEPT !.address = done.pending, !.pending = 0] ELSE done
         IN IF HasDataOut(moved.setup) \/ moved.setup.len = 0
            THEN [ReadSetup(moved) EXCEPT !.toggle = TRUE] ELSE moved
  BY DEF InTokenDone, InComplete
<1> HIDE DEF counted
<1>11. counted.in.actual = n BY <1>7, <1>9
<1>12. c = [counted EXCEPT !.pos = e.pos + n, !.residue = e.residue - n]
  BY <1>4, <1>5, <1>9, <1>11
<1> HIDE DEF c
<1>13. /\ c \in Device /\ c.pos = e.pos + n /\ c.residue = e.residue - n
       /\ c.toggle = counted.toggle
       /\ c.setup = counted.setup /\ c.core = counted.core /\ c.out = counted.out
       /\ c.tx = counted.tx /\ c.txLen = counted.txLen /\ c.txToggle = counted.txToggle
       /\ c.dma = counted.dma /\ c.at = counted.at /\ c.zlp = counted.zlp
       /\ c.data = counted.data /\ c.address = counted.address /\ c.pending = counted.pending
  <2>1. counted \in Device BY <1>9
  <2>2. PICK p \in Lengths, q \in Lengths : p = e.pos + n /\ q = e.residue - n BY <1>4, <1>5
  <2>. QED BY <1>12, <2>1, <2>2 DEF Device
<1>. QED BY <1>2, <1>6, <1>9, <1>10, <1>13

(* The interrupt for a packet of the data stage to the host.                *)
LEMMA SentMore ==
  ASSUME NEW e \in Device, e.in = [len |-> e.residue, actual |-> 0],
         e.pos + e.residue \in Lengths, e.pending = 0, e.core = e.setup,
         e.setup.dir = "in", e.setup.len > 0
  PROVE  LET f == InTokenDone(e)
             n == Shorter(e.residue, Mps)
         IN  /\ f \in Device /\ f.setup = e.setup /\ f.core = e.core /\ f.address = e.address
             /\ f.data = e.data /\ f.pending = 0
             /\ f.pos = e.pos + n /\ f.residue = e.residue - n
             /\ f.residue # 0 =>
                  /\ f.tx = "ack" /\ f.toggle = InToggle(e) /\ f.txToggle = f.toggle
                  /\ f.txLen = Shorter(f.residue, Mps) /\ f.in = [len |-> f.residue, actual |-> 0]
                  /\ f.dma = "data" /\ f.at = f.pos /\ f.zlp = e.zlp
             /\ f.residue = 0 /\ e.zlp =>
                  /\ f.tx = "ack" /\ f.toggle = InToggle(e) /\ f.txToggle = f.toggle
                  /\ f.txLen = 0 /\ f.in = [len |-> 0, actual |-> 0]
                  /\ f.dma = e.dma /\ ~f.zlp
             /\ f.residue = 0 /\ ~e.zlp => f.out.actual = 0
<1>p. PICK n : n = Shorter(e.residue, Mps) OBVIOUS
<1>q. PICK f : f = InTokenDone(e) OBVIOUS
<1>s. SUFFICES /\ f \in Device /\ f.setup = e.setup /\ f.core = e.core /\ f.address = e.address
               /\ f.data = e.data /\ f.pending = 0
               /\ f.pos = e.pos + n /\ f.residue = e.residue - n
               /\ f.residue # 0 =>
                    /\ f.tx = "ack" /\ f.toggle = InToggle(e) /\ f.txToggle = f.toggle
                    /\ f.txLen = Shorter(f.residue, Mps) /\ f.in = [len |-> f.residue, actual |-> 0]
                    /\ f.dma = "data" /\ f.at = f.pos /\ f.zlp = e.zlp
               /\ f.residue = 0 /\ e.zlp =>
                    /\ f.tx = "ack" /\ f.toggle = InToggle(e) /\ f.txToggle = f.toggle
                    /\ f.txLen = 0 /\ f.in = [len |-> 0, actual |-> 0]
                    /\ f.dma = e.dma /\ ~f.zlp
               /\ f.residue = 0 /\ ~e.zlp => f.out.actual = 0
  BY <1>p, <1>q
<1>1. PICK c \in Device :
        /\ c.pos = e.pos + n
        /\ c.residue = e.residue - n
        /\ c.toggle = InToggle(e)
        /\ c.setup = e.setup /\ c.core = e.core /\ c.out = e.out
        /\ c.tx = e.tx /\ c.txLen = e.txLen /\ c.txToggle = e.txToggle
        /\ c.dma = e.dma /\ c.at = e.at /\ c.zlp = e.zlp /\ c.data = e.data
        /\ c.address = e.address /\ c.pending = e.pending
        /\ InTokenDone(e) =
             LET done  == CASE c.residue # 0 -> StartWrite(c, c.residue)
                            [] c.residue = 0 /\ c.zlp -> StartWrite([c EXCEPT !.zlp = FALSE], 0)
                            [] c.residue = 0 /\ ~c.zlp /\ c.core.len > 0 /\ c.core.dir = "in"
                                 -> StartRead(c, 0)
                            [] OTHER -> c
                 moved == IF done.pending > 0
                          THEN [done EXCEPT !.address = done.pending, !.pending = 0] ELSE done
             IN IF HasDataOut(moved.setup) \/ moved.setup.len = 0
                THEN [ReadSetup(moved) EXCEPT !.toggle = TRUE] ELSE moved
  BY <1>p, Counted
<1> DEFINE done == CASE c.residue # 0 -> StartWrite(c, c.residue)
                     [] c.residue = 0 /\ c.zlp -> StartWrite([c EXCEPT !.zlp = FALSE], 0)
                     [] c.residue = 0 /\ ~c.zlp /\ c.core.len > 0 /\ c.core.dir = "in"
                          -> StartRead(c, 0)
                     [] OTHER -> c
<1>2. c.residue \in Lengths /\ c.zlp \in BOOLEAN /\ c.pos \in Lengths /\ 0 \in Lengths
  BY <1>1, WidthFacts DEF Device
<1>3. ASSUME done.pending = 0, done.setup = e.setup
      PROVE  InTokenDone(e) = done
  <2>. HIDE DEF done
  <2>1. ~(done.pending > 0) BY <1>3
  <2>2. ~HasDataOut(done.setup) BY <1>3 DEF HasDataOut
  <2>3. done.setup.len # 0
    <3>1. e.setup.len \in Lengths BY DEF Device, SetupType
    <3>2. e.setup.len \in Nat BY <3>1, WidthFacts
    <3>. QED BY <1>3, <3>2
  <2>. QED BY <1>1, <2>1, <2>2, <2>3 DEF done
<1>4. CASE c.residue # 0
  <2>1. done = StartWrite(c, c.residue) BY <1>4
  <2> HIDE DEF done
  <2>2. /\ done \in Device /\ done.setup = c.setup /\ done.core = c.core
        /\ done.address = c.address /\ done.data = c.data /\ done.pending = c.pending
        /\ done.pos = c.pos /\ done.residue = c.residue /\ done.tx = "ack"
        /\ done.toggle = c.toggle /\ done.txToggle = c.toggle
        /\ done.txLen = Shorter(c.residue, Mps)
        /\ done.in = [len |-> c.residue, actual |-> 0]
        /\ done.dma = "data" /\ done.at = c.pos /\ done.zlp = c.zlp
    BY <1>2, <1>4, <2>1, StartWriteIs
  <2>3. f = done BY <1>q, <1>1, <1>3, <2>2
  <2>. QED BY <1>1, <1>4, <2>2, <2>3
<1>5. CASE c.residue = 0 /\ c.zlp
  <2>1. PICK b : b = [c EXCEPT !.zlp = FALSE] OBVIOUS
  <2>2. /\ b \in Device /\ b.setup = c.setup /\ b.core = c.core /\ b.address = c.address
        /\ b.data = c.data /\ b.pending = c.pending /\ b.pos = c.pos /\ b.residue = c.residue
        /\ b.toggle = c.toggle /\ b.dma = c.dma /\ b.zlp = FALSE
    BY <2>1 DEF Device
  <2>3. done = StartWrite(b, 0) BY <1>5, <2>1
  <2> HIDE DEF done
  <2>4. Shorter(0, Mps) = 0 BY WidthFacts DEF Shorter
  <2>5. /\ done \in Device /\ done.setup = b.setup /\ done.core = b.core
        /\ done.address = b.address /\ done.data = b.data /\ done.pending = b.pending
        /\ done.pos = b.pos /\ done.residue = b.residue /\ done.tx = "ack"
        /\ done.toggle = b.toggle /\ done.txToggle = b.toggle /\ done.txLen = 0
        /\ done.in = [len |-> 0, actual |-> 0] /\ done.dma = b.dma /\ done.zlp = b.zlp
    BY <1>2, <2>2, <2>3, <2>4, StartWriteIs
  <2>6. f = done BY <1>q, <1>1, <1>3, <2>2, <2>5
  <2>7. /\ f \in Device /\ f.setup = e.setup /\ f.core = e.core /\ f.address = e.address
        /\ f.data = e.data /\ f.pending = 0
        /\ f.pos = e.pos + n /\ f.residue = e.residue - n
    BY <1>1, <2>2, <2>5, <2>6
  <2>8. /\ f.tx = "ack" /\ f.toggle = InToggle(e) /\ f.txToggle = f.toggle
        /\ f.txLen = 0 /\ f.in = [len |-> 0, actual |-> 0]
        /\ f.dma = e.dma /\ ~f.zlp
    BY <1>1, <2>2, <2>5, <2>6
  <2>9. f.residue = 0 /\ e.zlp BY <1>1, <1>5, <2>7
  <2>. QED BY <2>7, <2>8, <2>9
<1>6. CASE c.residue = 0 /\ ~c.zlp
  <2>1. done = StartRead(c, 0) BY <1>1, <1>6
  <2> HIDE DEF done
  <2>2. /\ done \in Device /\ done.setup = c.setup /\ done.core = c.core
        /\ done.address = c.address /\ done.data = c.data /\ done.pending = c.pending
        /\ done.pos = c.pos /\ done.residue = c.residue
        /\ done.out = [len |-> 0, actual |-> 0]
    BY <1>2, <2>1, StartReadIs
  <2>3. f = done BY <1>q, <1>1, <1>3, <2>2
  <2>7. /\ f \in Device /\ f.setup = e.setup /\ f.core = e.core /\ f.address = e.address
        /\ f.data = e.data /\ f.pending = 0
        /\ f.pos = e.pos + n /\ f.residue = e.residue - n
    BY <1>1, <2>2, <2>3
  <2>8. f.out.actual = 0 BY <2>2, <2>3
  <2>9. f.residue = 0 /\ ~e.zlp BY <1>1, <1>6, <2>7
  <2>. QED BY <2>7, <2>8, <2>9
<1>. QED BY <1>2, <1>4, <1>5, <1>6

(* The numbers of a data stage to the host.                                 *)
LEMMA SendingNumbers ==
  ASSUME ControlType, Sending
  PROVE  /\ d.pos \in Lengths /\ d.residue \in Lengths /\ d.txLen \in Lengths
         /\ h.req.len \in Lengths /\ h.req.offer \in Lengths /\ Total \in Lengths
         /\ Total <= h.req.len /\ (Total < h.req.len => Total = h.req.offer)
         /\ (h.req.offer < h.req.len => Total = h.req.offer)
         /\ d.txLen = Shorter(d.residue, Mps) /\ d.pos + d.residue = Total
         /\ d.txLen <= d.residue /\ d.txLen <= Mps /\ d.pos + d.txLen \in Lengths
         /\ (d.txLen < Mps => d.txLen = d.residue)
<1>1. /\ d.pos \in Lengths /\ d.residue \in Lengths /\ d.txLen \in Lengths
      /\ h.req.len \in Lengths /\ h.req.offer \in Lengths
  BY DEF ControlType, Device, Host, SetupType
<1>2. PICK o \in Nat, l \in Nat : o = h.req.offer /\ l = h.req.len BY <1>1, WidthFacts
<1>3. Total = IF o < l THEN o ELSE l BY <1>2 DEF Total, Shorter
<1>4. PICK p \in Nat, r \in Nat : p = d.pos /\ r = d.residue BY <1>1, WidthFacts
<1>5. d.txLen = IF r < Mps THEN r ELSE Mps BY <1>4 DEF Sending, Shorter
<1>6. p + r = Total BY <1>4 DEF Sending
<1>7. Total \in Lengths BY <1>1, <1>2, <1>3
<1>8. d.txLen <= r /\ d.txLen <= Mps /\ (d.txLen < Mps => d.txLen = r) BY <1>4, <1>5, WidthFacts
<1>9. p + d.txLen \in Lengths
  <2>1. PICK t \in Nat : t = d.txLen BY <1>1, WidthFacts
  <2>2. PICK w \in Nat : w = Width BY WidthFacts
  <2>3. p + r <= w - 1 BY <1>6, <1>7, <2>2 DEF Lengths
  <2>. QED BY <1>8, <2>1, <2>2, <2>3 DEF Lengths
<1>. QED BY <1>1, <1>2, <1>3, <1>4, <1>6, <1>7, <1>8, <1>9 DEF Sending

(* What the packet holds.                                                   *)
LEMMA SentDataIs ==
  ASSUME ControlType, Sending
  PROVE  SentData = [i \in 1 .. d.txLen |-> d.pos + i - 1]
<1>1. /\ d.pos \in Nat /\ d.txLen \in Nat /\ d.txLen <= d.residue /\ d.residue \in Nat
      /\ d.pos + d.txLen \in Lengths /\ Width \in Nat
  BY SendingNumbers, WidthFacts
<1>2. SentData = [i \in 1 .. d.txLen |-> d.data[(d.at + i - 1) % Width]]
  BY DEF SentData, Sending
<1>3. ASSUME NEW i \in 1 .. d.txLen PROVE d.data[(d.at + i - 1) % Width] = d.pos + i - 1
  <2>1. d.residue > 0 BY <1>1
  <2>2. d.at = d.pos BY <2>1 DEF Sending
  <2>3. PICK j \in Lengths : j = d.pos + i - 1
    <3>1. d.pos + i - 1 \in 0 .. d.pos + d.txLen BY <1>1
    <3>2. \A x \in Lengths : \A y \in 0 .. x : y \in Lengths BY <1>1 DEF Lengths
    <3>. QED BY <1>1, <3>1, <3>2
  <2>4. j % Width = j BY ModSmall
  <2>5. d.data[j] = j BY DEF Sending
  <2>. QED BY <2>2, <2>3, <2>4, <2>5
<1>. QED BY <1>2, <1>3

(* After a full packet the device goes on where the host does.              *)
LEMMA StillSending ==
  ASSUME ControlType, Sending, d.core = h.req, d.setup = h.req, h.req.dir = "in",
         h.req.len > 0, d.pending = 0,
         d' = InTokenDone(d), acted' = acted, h'.req = h.req,
         d.txLen = Mps, h'.count = d.pos + Mps, h'.count < h.req.len,
         h'.got = Positions(0, h'.count), h'.toggle = ~d.toggle, ~h'.behind
  PROVE  /\ Sending' /\ d' \in Device /\ d'.setup = d.setup /\ d'.core = d.core
         /\ d'.address = d.address /\ d'.pending = 0
<1>1. /\ d.pos \in Lengths /\ d.residue \in Lengths
      /\ h.req.len \in Lengths /\ h.req.offer \in Lengths /\ Total \in Lengths
      /\ Total <= h.req.len /\ (Total < h.req.len => Total = h.req.offer)
      /\ Mps = Shorter(d.residue, Mps) /\ d.pos + d.residue = Total
      /\ Mps <= d.residue /\ Mps \in Lengths /\ d \in Device
      /\ d.in = [len |-> d.residue, actual |-> 0]
  BY SendingNumbers DEF Sending, ControlType
<1>2. /\ d' \in Device /\ d'.setup = d.setup /\ d'.core = d.core /\ d'.address = d.address
      /\ d'.data = d.data /\ d'.pending = 0
      /\ d'.pos = d.pos + Mps /\ d'.residue = d.residue - Mps
      /\ d'.residue # 0 =>
           /\ d'.tx = "ack" /\ d'.toggle = InToggle(d) /\ d'.txToggle = d'.toggle
           /\ d'.txLen = Shorter(d'.residue, Mps) /\ d'.in = [len |-> d'.residue, actual |-> 0]
           /\ d'.dma = "data" /\ d'.at = d'.pos /\ d'.zlp = d.zlp
      /\ d'.residue = 0 /\ d.zlp =>
           /\ d'.tx = "ack" /\ d'.toggle = InToggle(d) /\ d'.txToggle = d'.toggle
           /\ d'.txLen = 0 /\ d'.in = [len |-> 0, actual |-> 0]
           /\ d'.dma = d.dma /\ ~d'.zlp
  <2>1. /\ d.pos + d.residue \in Lengths /\ d.core = d.setup /\ d.setup.dir = "in"
        /\ d.setup.len > 0
    BY <1>1
  <2>2. d \in Device /\ d.in = [len |-> d.residue, actual |-> 0] /\ Shorter(d.residue, Mps) = Mps
    BY <1>1
  <2>. HIDE DEF Sending
  <2>. QED BY <2>1, <2>2, SentMore
<1>3. PICK p \in Nat, r \in Nat, m \in Nat \ {0} : p = d.pos /\ r = d.residue /\ m = Mps
  BY <1>1, WidthFacts
<1>4. r > 0 /\ Multiple(p, m) /\ d.zlp = EmptyFollows
  <2>1. r > 0 BY <1>1, <1>3
  <2>2. d.residue > 0 BY <1>3, <2>1
  <2>3. d.zlp = (EmptyFollows /\ d.residue > 0) /\ Multiple(d.pos, Mps)
    BY <2>2 DEF Sending
  <2>4. d.zlp = EmptyFollows
    <3>1. EmptyFollows \in BOOLEAN BY DEF EmptyFollows
    <3>. HIDE DEF Sending
    <3>. QED BY <2>2, <2>3, <3>1
  <2>. QED BY <1>3, <2>1, <2>3, <2>4
<1>5. Multiple(d'.pos, Mps) BY <1>2, <1>3, <1>4, NextMultiple
<1>6. d'.pos + d'.residue = Total' /\ Total' = Total /\ EmptyFollows' = EmptyFollows
  <2>1. p + m + (r - m) = p + r OBVIOUS
  <2>. QED BY <1>1, <1>2, <1>3, <2>1 DEF Total, EmptyFollows
<1>7. InToggle(d) = ~d.toggle /\ d.toggle \in BOOLEAN
  <2>1. d.in.len = r /\ r >= Mps BY <1>1, <1>3
  <2>. QED BY <1>1, <2>1 DEF InToggle, Device
<1>8. ASSUME d'.residue = 0 PROVE EmptyFollows
  <2>1. r = m BY <1>2, <1>3, <1>8
  <2>2. Total = p + m BY <1>1, <1>3, <2>1
  <2>3. Total < h.req.len /\ Total = h.req.offer BY <1>1, <1>3, <2>2
  <2>4. (p + m) % m = 0
    <3>1. m \in 0 .. m OBVIOUS
    <3>. QED BY <1>4, <3>1, FullMultiple
  <2>. QED BY <1>3, <2>2, <2>3, <2>4 DEF EmptyFollows
<1>9. /\ d'.tx = "ack" /\ d'.toggle = InToggle(d) /\ d'.txToggle = d'.toggle
      /\ d'.txLen = Shorter(d'.residue, Mps) /\ d'.in = [len |-> d'.residue, actual |-> 0]
      /\ d'.dma = "data" /\ (d'.residue # 0 => d'.at = d'.pos)
      /\ d'.zlp = (EmptyFollows /\ d'.residue # 0)
  <2>1. CASE d'.residue # 0
    <3>1. d'.zlp = (EmptyFollows /\ d'.residue # 0)
      <4>1. d'.zlp = d.zlp BY <1>2, <2>1
      <4>2. d.zlp = EmptyFollows BY <1>4
      <4>3. EmptyFollows \in BOOLEAN BY DEF EmptyFollows
      <4>. QED BY <2>1, <4>1, <4>2, <4>3
    <3>. QED BY <1>2, <2>1, <3>1
  <2>2. CASE d'.residue = 0
    <3>1. d.zlp BY <1>4, <1>8, <2>2
    <3>2. Shorter(0, Mps) = 0 BY WidthFacts DEF Shorter
    <3>3. d.dma = "data" BY DEF Sending
    <3>4. d'.zlp \in BOOLEAN BY <1>2 DEF Device
    <3>. QED BY <1>2, <2>2, <3>1, <3>2, <3>3, <3>4
  <2>. QED BY <2>1, <2>2
<1>10. d'.residue \in Nat /\ (d'.residue # 0 <=> d'.residue > 0)
  <2>1. d'.residue \in Lengths BY <1>2 DEF Device
  <2>2. d'.residue \in Nat BY <2>1, WidthFacts
  <2>. QED BY <2>2
<1>11. \A i \in Lengths : d'.data[i] = i BY <1>2 DEF Sending
<1>12. acted' = Once' BY DEF Sending, Once
<1>13. Sending'
  BY <1>2, <1>5, <1>6, <1>7, <1>8, <1>9, <1>10, <1>11, <1>12 DEF Sending
<1>. QED BY <1>2, <1>13

(* An IN token of the data stage.                                           *)
LEMMA DataInStep ==
  ASSUME ControlInv, clean', NEW lost \in BOOLEAN, HostIn(lost), h.stage = "in"
  PROVE  ControlInv'
<1>1. /\ clean /\ d.tx = "ack" /\ acted' = acted
      /\ h' = [Arrived EXCEPT !.behind = lost]
      /\ d' = IF lost THEN d ELSE InTokenDone(d)
  BY DEF HostIn
<1>2. ControlType /\ Hears /\ d.core = h.req /\ d.setup = h.req /\ DataInInv
  BY <1>1 DEF ControlInv
<1>3. d \in Device /\ h \in Host /\ acted \in Seq([id : {0, 1}, data : Seq(Int)])
  BY <1>2 DEF ControlType
<1>4. /\ h.req.dir = "in" /\ h.req.len > 0 /\ d.pending = 0 /\ Sending
  BY <1>1, <1>2 DEF DataInInv, Refused
<1>5. /\ d.pos \in Lengths /\ d.residue \in Lengths /\ d.txLen \in Lengths
      /\ h.req.len \in Lengths /\ h.req.offer \in Lengths /\ Total \in Lengths
      /\ Total <= h.req.len /\ (h.req.offer < h.req.len => Total = h.req.offer)
      /\ d.txLen = Shorter(d.residue, Mps) /\ d.pos + d.residue = Total
      /\ d.txLen <= d.residue /\ d.txLen <= Mps /\ d.pos + d.txLen \in Lengths
      /\ (d.txLen < Mps => d.txLen = d.residue)
  BY <1>2, <1>4, SendingNumbers
<1>6. /\ h.req.kind = "descriptor" /\ acted = Once /\ d.txToggle = d.toggle
      /\ d.in = [len |-> d.residue, actual |-> 0]
      /\ IF h.behind THEN /\ h.toggle # d.txToggle /\ d.txLen = Mps
                          /\ h.count = d.pos + Mps /\ h.count < h.req.len
         ELSE h.toggle = d.txToggle /\ h.count = d.pos
      /\ h.got = Positions(0, h.count)
  BY <1>4 DEF Sending
<1>7. /\ h.toggle \in BOOLEAN /\ d.toggle \in BOOLEAN /\ h.behind \in BOOLEAN
      /\ h.count \in Lengths /\ h.got \in Seq(Int)
  BY <1>3 DEF Device, Host
<1>8. PICK p \in Nat, r \in Nat, n \in Nat, m \in Nat \ {0}, l \in Nat :
        p = d.pos /\ r = d.residue /\ n = d.txLen /\ m = Mps /\ l = h.req.len
  BY <1>5, WidthFacts
(* A packet the host waits for or has seen, not its last: the host stays in *)
(* the data stage.                                                          *)
<1>9. ASSUME h' \in Host, h'.stage = "in", h'.req = h.req, h'.address = h.address,
             h'.behind = lost, h'.count = p + m, p + m < l, n = m,
             h'.got = Positions(0, p + m), h'.toggle = ~d.toggle
      PROVE  ControlInv'
  <2>1. CASE lost
    <3>1. d' = d BY <1>1, <2>1
    <3>2. /\ Total' = Total /\ EmptyFollows' = EmptyFollows /\ Once' = Once
      BY <1>9 DEF Total, EmptyFollows, Once
    <3>3. Sending'
      <4>1. h'.behind /\ h'.toggle # d'.txToggle /\ d'.txLen = Mps
            /\ h'.count = d'.pos + Mps /\ h'.count < h'.req.len
            /\ h'.got = Positions(0, h'.count)
        BY <1>6, <1>7, <1>8, <1>9, <2>1, <3>1
      <4>. QED BY <1>1, <1>4, <1>9, <3>1, <3>2, <4>1 DEF Sending
    <3>4. DataInInv' BY <1>4, <1>9, <3>1, <3>3 DEF DataInInv
    <3>5. ControlType' /\ Hears'
      BY <1>1, <1>2, <1>3, <1>9, <3>1 DEF ControlType, Hears
    <3>. QED BY <1>2, <1>9, <3>1, <3>4, <3>5
         DEF ControlInv, IdleInv, StatusOutInv, DataOutInv, StatusInInv
  <2>2. CASE ~lost
    <3>1. d' = InTokenDone(d) BY <1>1, <2>2
    <3>2. d.txLen = Mps /\ h'.count = d.pos + Mps /\ h'.count < h.req.len
          /\ h'.got = Positions(0, h'.count) /\ ~h'.behind
      BY <1>8, <1>9, <2>2
    <3>3. /\ Sending' /\ d' \in Device /\ d'.setup = d.setup /\ d'.core = d.core
          /\ d'.address = d.address /\ d'.pending = 0
      BY <1>1, <1>2, <1>4, <1>9, <3>1, <3>2, StillSending
    <3>4. DataInInv' BY <1>4, <1>9, <3>3 DEF DataInInv
    <3>5. ControlType' /\ Hears'
      BY <1>1, <1>2, <1>3, <1>9, <3>3 DEF ControlType, Hears
    <3>. QED BY <1>2, <1>9, <3>3, <3>4, <3>5
         DEF ControlInv, IdleInv, StatusOutInv, DataOutInv, StatusInInv
  <2>. QED BY <2>1, <2>2
<1>10. CASE h.behind
  <2>1. Arrived = h BY <1>6, <1>10 DEF Arrived
  <2>2. h' = [h EXCEPT !.behind = lost] BY <1>1, <2>1
  <2>3. /\ h' \in Host /\ h'.stage = "in" /\ h'.req = h.req /\ h'.address = h.address
        /\ h'.behind = lost /\ h'.count = h.count /\ h'.got = h.got /\ h'.toggle = h.toggle
    BY <1>3, <2>2 DEF Host
  <2>4. h.count = p + m /\ p + m < l /\ n = m /\ h.toggle = ~d.toggle
    BY <1>6, <1>7, <1>8, <1>10
  <2>. QED BY <1>6, <1>9, <2>3, <2>4
<1>11. CASE ~h.behind
  <2>1. h.toggle = d.txToggle /\ h.count = p BY <1>6, <1>8, <1>11
  <2>2. Positions(0, p) \o SentData = Positions(0, p + n)
    <3>1. SentData = [i \in 1 .. n |-> p + i - 1] BY <1>2, <1>4, <1>8, SentDataIs
    <3>. QED BY <3>1, PositionsJoin
  <2>3. PICK g \in Seq(Int) : g = Positions(0, p + n)
    <3>1. p + n \in Nat OBVIOUS
    <3>. QED BY <3>1, PositionsShape
  <2>4. PICK k \in Lengths : k = p + n BY <1>5, <1>8
  <2>5. PICK t \in BOOLEAN : t = ~h.toggle BY <1>7
  <2> DEFINE next == [h EXCEPT !.toggle = ~@, !.count = @ + d.txLen, !.got = @ \o SentData]
  <2>6. next = [h EXCEPT !.toggle = t, !.count = k, !.got = g]
    BY <1>6, <1>8, <2>1, <2>2, <2>3, <2>4, <2>5
  <2>7. Arrived = IF d.txLen < Mps \/ next.count >= h.req.len
                  THEN [next EXCEPT !.stage = "statusOut"] ELSE next
    BY <2>1 DEF Arrived
  <2> HIDE DEF next
  <2>8. /\ next \in Host /\ next.stage = "in" /\ next.req = h.req /\ next.address = h.address
        /\ next.count = k /\ next.got = g /\ next.toggle = t
    BY <1>3, <2>6 DEF Host
  <2>9. CASE n < m \/ k >= l
    <3>1. h' = [[next EXCEPT !.stage = "statusOut"] EXCEPT !.behind = lost]
      BY <1>1, <1>8, <2>7, <2>8, <2>9
    <3>2. /\ h' \in Host /\ h'.stage = "statusOut" /\ h'.req = h.req /\ h'.address = h.address
          /\ h'.got = g /\ h'.behind = lost
      BY <2>8, <3>1 DEF Host
    <3>3. k = Total
      <4>1. CASE n < m BY <1>5, <1>8, <2>4, <4>1
      <4>2. CASE k >= l
        <5>1. p + n <= p + r BY <1>5, <1>8
        <5>. QED BY <1>5, <1>8, <2>4, <4>2, <5>1
      <4>. QED BY <2>9, <4>1, <4>2
    <3>4. g = Positions(0, Total') /\ Once' = Once
      BY <2>3, <2>4, <3>2, <3>3 DEF Total, Once
    <3>5. r - n = 0 /\ ~(EmptyFollows /\ r > 0)
      <4>1. r - n = 0 BY <1>5, <1>8, <2>4, <3>3
      <4>2. ASSUME EmptyFollows, r > 0 PROVE FALSE
        <5>1. Total < l /\ Total = h.req.offer /\ h.req.offer % m = 0
          BY <1>5, <1>8, <4>2 DEF EmptyFollows
        <5>2. n < m
          <6>1. k < l BY <3>3, <5>1
          <6>2. ~(k >= l) BY <1>8, <2>4, <6>1
          <6>. QED BY <2>9, <6>2
        <5>3. n = r /\ Total = p + n BY <1>5, <1>8, <5>2
        <5>4. Multiple(p, m) BY <1>4, <1>8, <4>2 DEF Sending
        <5>5. n \in 0 .. m /\ n # 0 /\ n # m BY <4>2, <5>2, <5>3
        <5>6. (p + n) % m # 0 BY <5>4, <5>5, FullMultiple
        <5>. QED BY <5>1, <5>3, <5>6
      <4>. QED BY <4>1, <4>2
    <3>6. ASSUME ~lost
          PROVE  /\ d' \in Device /\ d'.setup = d.setup /\ d'.core = d.core
                 /\ d'.address = d.address /\ d'.pending = 0 /\ d'.out.actual = 0
      <4>1. d' = InTokenDone(d) BY <1>1, <3>6
      <4>2. /\ d.pos + d.residue \in Lengths /\ d.core = d.setup /\ d.setup.dir = "in"
            /\ d.setup.len > 0
        BY <1>2, <1>4, <1>5
      <4>3. ~d.zlp
        <5>1. d.zlp = (EmptyFollows /\ r > 0) BY <1>4, <1>8 DEF Sending
        <5>. QED BY <3>5, <5>1
      <4>4. d.residue - Shorter(d.residue, Mps) = 0 BY <1>5, <1>8, <3>5
      <4>5. d.in = [len |-> d.residue, actual |-> 0] /\ d.pending = 0 BY <1>4, <1>6
      <4>6. /\ d' \in Device /\ d'.setup = d.setup /\ d'.core = d.core
            /\ d'.address = d.address /\ d'.pending = 0
            /\ d'.residue = d.residue - Shorter(d.residue, Mps)
            /\ d'.residue = 0 /\ ~d.zlp => d'.out.actual = 0
        BY <1>3, <4>1, <4>2, <4>5, SentMore
      <4>. QED BY <4>3, <4>4, <4>6
    <3>7. /\ d' \in Device /\ d'.setup = d.setup /\ d'.core = d.core
          /\ d'.address = d.address /\ d'.pending = 0
      BY <1>1, <1>3, <1>4, <3>6
    <3>8. StatusOutInv'
      BY <1>1, <1>4, <1>6, <3>2, <3>4, <3>6, <3>7 DEF StatusOutInv
    <3>9. ControlType' /\ Hears'
      BY <1>1, <1>2, <1>3, <3>2, <3>7 DEF ControlType, Hears
    <3>. QED BY <1>2, <3>2, <3>7, <3>8, <3>9
         DEF ControlInv, IdleInv, DataInInv, DataOutInv, StatusInInv
  <2>10. CASE ~(n < m \/ k >= l)
    <3>1. h' = [next EXCEPT !.behind = lost] BY <1>1, <1>8, <2>7, <2>8, <2>10
    <3>2. /\ h' \in Host /\ h'.stage = "in" /\ h'.req = h.req /\ h'.address = h.address
          /\ h'.got = g /\ h'.behind = lost /\ h'.count = k /\ h'.toggle = t
      BY <2>8, <3>1 DEF Host
    <3>3. n = m /\ k = p + m /\ p + m < l /\ t = ~d.toggle
      BY <1>5, <1>6, <1>7, <1>8, <2>1, <2>4, <2>5, <2>10
    <3>. QED BY <1>9, <2>3, <3>2, <3>3
  <2>. QED BY <2>9, <2>10
<1>. QED BY <1>10, <1>11

(* An IN token of the status of a transfer from the host.                   *)
LEMMA StatusInStep ==
  ASSUME ControlInv, clean', NEW lost \in BOOLEAN, HostIn(lost), h.stage = "statusIn"
  PROVE  ControlInv'
<1>1. /\ clean /\ d.tx = "ack" /\ acted' = acted
      /\ h' = [Arrived EXCEPT !.behind = lost]
      /\ d' = IF lost THEN d ELSE InTokenDone(d)
      /\ ~(lost /\ (h.req.len > 0 \/ h.req.kind = "address"))
  BY DEF HostIn
<1>2. ControlType /\ Hears /\ d.core = h.req /\ d.setup = h.req /\ StatusInInv
  BY <1>1 DEF ControlInv
<1>3. d \in Device /\ h \in Host /\ acted \in Seq([id : {0, 1}, data : Seq(Int)])
  BY <1>2 DEF ControlType
<1>4. /\ h.req.dir = "out" /\ h.toggle /\ ~h.behind
      /\ (h.req.len = 0 => d.dma = "setup" /\ d.toggle)
      /\ d.txToggle /\ d.txLen = 0 /\ acted = Once
      /\ d.in = [len |-> 0, actual |-> 0] /\ d.residue = 0 /\ ~d.zlp
      /\ d.pending = (IF h.req.kind = "address" THEN 1 ELSE 0)
  BY <1>1, <1>2 DEF StatusInInv, Refused
<1>5. Arrived = Done(h)
  <2>1. d.txToggle = h.toggle
    <3>1. d.txToggle \in BOOLEAN /\ h.toggle \in BOOLEAN BY <1>3 DEF Device, Host
    <3>. QED BY <1>4, <3>1
  <2>. QED BY <2>1 DEF Arrived
<1>6. PICK x \in {0, 1} : x = IF h.req.kind = "address" THEN 1 ELSE h.address
  BY <1>3 DEF Host
<1>7. Done(h) = [h EXCEPT !.stage = "idle", !.result = "done", !.address = x] BY <1>6 DEF Done
<1>8. /\ h' \in Host /\ h'.stage = "idle" /\ h'.result = "done" /\ h'.address = x
      /\ h'.req = h.req
  <2>1. h' = [[h EXCEPT !.stage = "idle", !.result = "done", !.address = x] EXCEPT !.behind = lost]
    BY <1>1, <1>5, <1>7
  <2>. QED BY <1>3, <2>1 DEF Host
<1>9. h.req.len \in Nat
  <2>1. h.req.len \in Lengths BY <1>3 DEF Host, SetupType
  <2>. QED BY <2>1, WidthFacts
<1>10. /\ d' \in Device /\ d'.dma = "setup" /\ d'.toggle /\ d'.pending = 0 /\ d'.address = x
       /\ d'.core = d.core /\ d'.setup = d.setup
  <2>1. CASE lost
    <3>1. d' = d /\ h.req.len = 0 /\ h.req.kind # "address" BY <1>1, <1>9, <2>1
    <3>. QED BY <1>2, <1>3, <1>4, <1>6, <3>1 DEF Hears
  <2>2. CASE ~lost
    <3>1. d.pos \in Lengths /\ d.pos + 0 = d.pos /\ 0 - 0 = 0
      <4>1. d.pos \in Lengths BY <1>3 DEF Device
      <4>2. d.pos \in Nat BY <4>1, WidthFacts
      <4>. QED BY <4>1, <4>2
    <3>2. d.in = [len |-> d.residue, actual |-> 0] /\ d.pos + d.residue \in Lengths
      BY <1>4, <3>1
    <3>3. Shorter(d.residue, Mps) = 0 BY <1>4, WidthFacts DEF Shorter
    <3>4. PICK c \in Device :
            /\ c.pos = d.pos + Shorter(d.residue, Mps)
            /\ c.residue = d.residue - Shorter(d.residue, Mps)
            /\ c.toggle = InToggle(d)
            /\ c.setup = d.setup /\ c.core = d.core /\ c.out = d.out
            /\ c.tx = d.tx /\ c.txLen = d.txLen /\ c.txToggle = d.txToggle
            /\ c.dma = d.dma /\ c.at = d.at /\ c.zlp = d.zlp /\ c.data = d.data
            /\ c.address = d.address /\ c.pending = d.pending
            /\ InTokenDone(d) =
                 LET done  == CASE c.residue # 0 -> StartWrite(c, c.residue)
                                [] c.residue = 0 /\ c.zlp -> StartWrite([c EXCEPT !.zlp = FALSE], 0)
                                [] c.residue = 0 /\ ~c.zlp /\ c.core.len > 0 /\ c.core.dir = "in"
                                     -> StartRead(c, 0)
                                [] OTHER -> c
                     moved == IF done.pending > 0
                              THEN [done EXCEPT !.address = done.pending, !.pending = 0] ELSE done
                 IN IF HasDataOut(moved.setup) \/ moved.setup.len = 0
                    THEN [ReadSetup(moved) EXCEPT !.toggle = TRUE] ELSE moved
      BY <1>3, <3>2, Counted
    <3>5. c.residue = 0 /\ ~c.zlp /\ c.core.dir = "out" /\ c.setup = h.req /\ c.core = h.req
      BY <1>2, <1>4, <3>1, <3>3, <3>4
    <3> DEFINE moved == IF c.pending > 0
                        THEN [c EXCEPT !.address = c.pending, !.pending = 0] ELSE c
    <3>6. InTokenDone(d) = IF HasDataOut(moved.setup) \/ moved.setup.len = 0
                           THEN [ReadSetup(moved) EXCEPT !.toggle = TRUE] ELSE moved
      BY <3>4, <3>5
    <3>7. /\ moved \in Device /\ moved.setup = h.req /\ moved.core = h.req
          /\ moved.pending = 0 /\ moved.address = x
      <4>1. CASE h.req.kind = "address"
        <5>1. c.pending = 1 /\ 1 > 0 /\ x = 1 BY <1>4, <1>6, <3>4, <4>1
        <5>2. moved = [c EXCEPT !.address = 1, !.pending = 0] BY <5>1
        <5>. HIDE DEF moved
        <5>. QED BY <3>5, <5>1, <5>2 DEF Device
      <4>2. CASE h.req.kind # "address"
        <5>1. c.pending = 0 /\ ~(0 > 0) /\ x = c.address BY <1>2, <1>4, <1>6, <3>4, <4>2 DEF Hears
        <5>. QED BY <3>5, <5>1
      <4>. QED BY <4>1, <4>2
    <3> HIDE DEF moved
    <3>8. HasDataOut(moved.setup) \/ moved.setup.len = 0
      BY <1>4, <1>9, <3>7 DEF HasDataOut
    <3>9. d' = [[moved EXCEPT !.dma = "setup"] EXCEPT !.toggle = TRUE]
      BY <1>1, <2>2, <3>6, <3>8 DEF ReadSetup
    <3>10. /\ d' \in Device /\ d'.dma = "setup" /\ d'.toggle = TRUE /\ d'.pending = moved.pending
           /\ d'.address = moved.address /\ d'.core = moved.core /\ d'.setup = moved.setup
      BY <3>7, <3>9 DEF Device
    <3>. QED BY <1>2, <3>7, <3>10
  <2>. QED BY <2>1, <2>2
<1>11. acted' = Once' BY <1>1, <1>4, <1>8 DEF Once
<1>12. ControlExact'
  <2>1. h'.req.dir # "in" BY <1>4, <1>8
  <2>. QED BY <1>8, <1>11, <2>1 DEF ControlExact, Once
<1>13. ControlType' /\ Hears' BY <1>1, <1>3, <1>8, <1>10 DEF ControlType, Hears
<1>. QED BY <1>2, <1>8, <1>10, <1>12, <1>13
     DEF ControlInv, IdleInv, DataInInv, StatusOutInv, DataOutInv, StatusInInv

(* The device refuses.                                                      *)
LEMMA StalledStep ==
  ASSUME ControlInv, clean', HostStalled
  PROVE  ControlInv'
<1>1. /\ clean /\ d.tx = "stall" /\ acted' = acted /\ d' = d
      /\ h.stage \in {"in", "statusIn"} /\ ~HasDataOut(h.req)
      /\ h' = [h EXCEPT !.stage = "idle", !.result = "stalled"]
  BY DEF HostStalled
<1>2. ControlType /\ Hears /\ DataInInv /\ StatusInInv BY <1>1 DEF ControlInv
<1>3. d \in Device /\ h \in Host BY <1>2 DEF ControlType
<1>4. /\ h' \in Host /\ h'.stage = "idle" /\ h'.result = "stalled" /\ h'.address = h.address
      /\ h'.req = h.req
  BY <1>1, <1>3 DEF Host
<1>5. Refused /\ d.pending = 0 /\ d.dma = "setup" /\ d.toggle
  <2>1. CASE h.stage = "in" BY <1>1, <1>2, <2>1 DEF DataInInv, Sending
  <2>2. CASE h.stage = "statusIn"
    <3>1. h.req.len \in Lengths BY <1>3 DEF Host, SetupType
    <3>2. h.req.len \in Nat BY <3>1, WidthFacts
    <3>3. h.req.len = 0 BY <1>1, <1>2, <2>2, <3>2 DEF StatusInInv, HasDataOut
    <3>. QED BY <1>1, <1>2, <2>2, <3>3 DEF StatusInInv
  <2>. QED BY <1>1, <2>1, <2>2
<1>6. ControlExact' BY <1>1, <1>4, <1>5 DEF ControlExact, Refused
<1>7. ControlType' /\ Hears' BY <1>1, <1>2, <1>4 DEF ControlType, Hears
<1>. QED BY <1>1, <1>4, <1>5, <1>6, <1>7
     DEF ControlInv, IdleInv, DataInInv, StatusOutInv, DataOutInv, StatusInInv

(* The status of a transfer to the host.                                    *)
LEMMA StatusOutStep ==
  ASSUME ControlInv, clean', NEW lost \in BOOLEAN, HostStatusOut(lost)
  PROVE  ControlInv'
<1>1. /\ clean /\ h.stage = "statusOut" /\ ~(h.behind /\ d.out.actual > 0)
      /\ d' = OutTokenDone(d, 0)[1] /\ Acted(OutTokenDone(d, 0)[2])
      /\ h' = IF lost THEN h ELSE Done(h)
  BY DEF HostStatusOut
<1>2. ControlType /\ Hears /\ StatusOutInv /\ d.core = h.req BY <1>1 DEF ControlInv
<1>3. d \in Device /\ h \in Host /\ acted \in Seq([id : {0, 1}, data : Seq(Int)])
  BY <1>2 DEF ControlType
<1>4. /\ h.req.kind = "descriptor" /\ h.req.dir = "in" /\ d.pending = 0
      /\ acted = Once /\ h.got = Positions(0, Total) /\ (~h.behind => d.out.actual = 0)
  BY <1>1, <1>2 DEF StatusOutInv
<1>5. d.out.len \in Lengths /\ d.out.actual = 0
  <2>1. d.out.len \in Lengths /\ d.out.actual \in Lengths BY <1>3 DEF Device, Transfer
  <2>2. d.out.actual \in Nat BY <2>1, WidthFacts
  <2>. QED BY <1>1, <1>4, <2>1, <2>2
<1>6. (0 + 0) % Width = 0 /\ 0 \in Lengths
  <2>1. 0 \in Lengths /\ 0 + 0 = 0 BY WidthFacts
  <2>. QED BY <2>1, ModSmall
<1>7. Minus(d.out.len, 0) \in Lengths
  <2>1. 0 <= d.out.len
    <3>1. d.out.len \in Nat BY <1>5, WidthFacts
    <3>. QED BY <3>1
  <2>2. Minus(d.out.len, 0) = d.out.len - 0 /\ d.out.len - 0 \in Lengths
    BY <1>5, <1>6, <2>1, MinusSmall
  <2>. QED BY <2>2
<1>8. PICK o \in Transfer : o = [len |-> Minus(d.out.len, 0), actual |-> 0]
  BY <1>6, <1>7 DEF Transfer
<1> DEFINE counted == [d EXCEPT !.out = [len |-> Minus(@.len, 0), actual |-> (@.actual + 0) % Width]]
<1>9. counted = [d EXCEPT !.out = o] BY <1>5, <1>6, <1>8
<1>10. OutTokenDone(d, 0) =
         LET done == OutComplete(counted, counted.out.actual)
         IN <<[ReadSetup(done[1]) EXCEPT !.toggle = TRUE], done[2]>>
  BY DEF OutTokenDone
<1> HIDE DEF counted
<1>11. /\ counted \in Device /\ counted.out = o /\ counted.setup = d.setup /\ counted.core = d.core
       /\ counted.address = d.address /\ counted.pending = d.pending
  BY <1>3, <1>9 DEF Device
<1>12. OutComplete(counted, counted.out.actual) = <<counted, <<>> >>
  <2>1. counted.out.actual = 0 BY <1>8, <1>11
  <2>. QED BY <2>1 DEF OutComplete
<1>13. d' = [[counted EXCEPT !.dma = "setup"] EXCEPT !.toggle = TRUE] /\ Acted(<<>>)
  BY <1>1, <1>10, <1>12 DEF ReadSetup
<1>14. /\ d' \in Device /\ d'.dma = "setup" /\ d'.toggle = TRUE /\ d'.out = o
       /\ d'.core = d.core /\ d'.address = d.address /\ d'.pending = 0
  <2>1. /\ d' \in Device /\ d'.dma = "setup" /\ d'.toggle = TRUE /\ d'.out = counted.out
        /\ d'.core = counted.core /\ d'.address = counted.address /\ d'.pending = counted.pending
    BY <1>11, <1>13 DEF Device
  <2>. QED BY <1>4, <1>11, <2>1
<1>15. acted' = acted
  <2>1. acted \o <<>> = acted BY <1>3
  <2>. QED BY <1>13, <2>1 DEF Acted
<1>16. CASE lost
  <2>1. h' = h BY <1>1, <1>16
  <2>2. Total' = Total /\ Once' = Once BY <2>1 DEF Total, Once
  <2>3. StatusOutInv' BY <1>4, <1>8, <1>14, <1>15, <2>1, <2>2 DEF StatusOutInv
  <2>4. ControlType' /\ Hears' BY <1>2, <1>3, <1>14, <1>15, <2>1 DEF ControlType, Hears
  <2>. QED BY <1>1, <1>2, <1>14, <2>1, <2>3, <2>4
       DEF ControlInv, IdleInv, DataInInv, DataOutInv, StatusInInv
<1>17. CASE ~lost
  <2>1. h' = [h EXCEPT !.stage = "idle", !.result = "done", !.address = h.address]
    BY <1>1, <1>4, <1>17 DEF Done
  <2>2. /\ h' \in Host /\ h'.stage = "idle" /\ h'.result = "done" /\ h'.address = h.address
        /\ h'.req = h.req /\ h'.got = h.got
    BY <1>3, <2>1 DEF Host
  <2>3. Total = Shorter(h.req.len, h.req.offer)
    <3>1. h.req.len \in Lengths /\ h.req.offer \in Lengths BY <1>3 DEF Host, SetupType
    <3>2. h.req.len \in Nat /\ h.req.offer \in Nat BY <3>1, WidthFacts
    <3>. QED BY <3>2 DEF Total, Shorter
  <2>4. ControlExact' BY <1>4, <1>15, <2>2, <2>3 DEF ControlExact, Once
  <2>5. ControlType' /\ Hears' BY <1>2, <1>3, <1>14, <1>15, <2>2 DEF ControlType, Hears
  <2>. QED BY <1>14, <2>2, <2>4, <2>5
       DEF ControlInv, IdleInv, DataInInv, StatusOutInv, DataOutInv, StatusInInv
<1>. QED BY <1>16, <1>17

(* The DMA writes the packet behind what came before it.                    *)
LEMMA Stored ==
  ASSUME NEW a \in Lengths, NEW n \in Nat \ {0}, a + n \in Lengths,
         NEW v \in [Lengths -> Int], \A i \in 0 .. a - 1 : v[i] = i,
         NEW u, u = [i \in DOMAIN v |-> IF Minus(i, a) < n THEN a + Minus(i, a) ELSE v[i]]
  PROVE  /\ u \in [Lengths -> Int]
         /\ \A i \in 0 .. a + n - 1 : u[i] = i
<1>1. a \in Nat /\ Width \in Nat /\ a + n <= Width - 1 /\ DOMAIN v = Lengths
  BY WidthFacts DEF Lengths
<1>2. ASSUME NEW i \in Lengths
      PROVE  /\ Minus(i, a) \in Int
             /\ i >= a => Minus(i, a) = i - a
             /\ i < a => ~(Minus(i, a) < n)
  <2>1. i \in Nat BY WidthFacts
  <2>2. CASE i >= a BY <1>1, <2>1, <2>2, MinusSmall
  <2>3. CASE i < a
    <3>1. Minus(i, a) = Width + i - a BY <2>3, MinusBelow
    <3>. QED BY <1>1, <2>1, <2>3, <3>1
  <2>. QED BY <1>1, <2>1, <2>2, <2>3
<1>3. u = [i \in Lengths |-> IF Minus(i, a) < n THEN a + Minus(i, a) ELSE v[i]] BY <1>1
<1>4. u \in [Lengths -> Int] BY <1>1, <1>2, <1>3
<1>5. ASSUME NEW i \in 0 .. a + n - 1 PROVE u[i] = i
  <2>1. i \in Lengths BY <1>1 DEF Lengths
  <2>2. u[i] = IF Minus(i, a) < n THEN a + Minus(i, a) ELSE v[i] BY <1>3, <2>1
  <2>3. CASE i >= a
    <3>1. Minus(i, a) = i - a BY <1>2, <2>1, <2>3
    <3>. QED BY <1>1, <2>2, <2>3, <3>1
  <2>4. CASE i < a
    <3>1. ~(Minus(i, a) < n) /\ i \in 0 .. a - 1 BY <1>1, <1>2, <2>1, <2>4
    <3>. QED BY <2>2, <3>1
  <2>. QED BY <1>1, <2>3, <2>4
<1>. QED BY <1>4, <1>5

(* A packet of the data stage from the host.                                *)
LEMMA DataOutStep ==
  ASSUME ControlInv, clean', NEW lost \in BOOLEAN, HostOut(lost)
  PROVE  ControlInv'
<1> DEFINE w == Shorter(Mps, h.req.len - h.count)
<1>1. h.stage = "out" /\ clean /\ ~lost BY DEF HostOut
<1>2. ControlType /\ Hears /\ DataOutInv /\ d.core = h.req /\ d.setup = h.req
  BY <1>1 DEF ControlInv
<1>3. d \in Device /\ h \in Host /\ acted \in Seq([id : {0, 1}, data : Seq(Int)])
  BY <1>2 DEF ControlType
<1>4. /\ h.req.kind \in {"coding", "unknown"} /\ HasDataOut(h.req)
      /\ d.dma = "data" /\ d.at = h.count /\ d.pos = h.count /\ h.count < h.req.len
      /\ d.residue = h.req.len - h.count /\ d.out = [len |-> d.residue, actual |-> 0]
      /\ \A i \in 0 .. h.count - 1 : d.data[i] = i
      /\ acted = <<>> /\ d.toggle /\ h.toggle /\ ~h.behind /\ ~d.zlp /\ d.pending = 0
  BY <1>1, <1>2 DEF DataOutInv
<1>5. h.req \in SetupType /\ h.count \in Lengths /\ h.req.len \in Lengths /\ d.residue \in Lengths
  BY <1>3 DEF Device, Host, SetupType
<1>6. PICK k \in Nat, l \in Nat, m \in Nat \ {0} : k = h.count /\ l = h.req.len /\ m = Mps
  BY <1>5, WidthFacts
<1>7. PICK n \in Nat \ {0} : n = w BY <1>4, <1>6 DEF Shorter
<1>8. k + n <= l /\ n <= l - k /\ d.residue = l - k
  <2>1. n = IF m < l - k THEN m ELSE l - k BY <1>6, <1>7 DEF Shorter
  <2>. QED BY <1>4, <1>6, <2>1
<1>9. /\ n \in Lengths /\ k + n \in Lengths /\ l - k - n \in Lengths
      /\ Minus(d.residue, n) = l - k - n /\ (k + n) % Width = k + n /\ (0 + n) % Width = n
  <2>1. l \in 0 .. Width - 1 /\ Width \in Nat BY <1>5, <1>6, WidthFacts DEF Lengths
  <2>2. n \in Lengths /\ k + n \in Lengths /\ l - k - n \in Lengths
    BY <1>8, <2>1 DEF Lengths
  <2>3. n <= d.residue BY <1>8
  <2>4. Minus(d.residue, n) = d.residue - n BY <1>5, <2>2, <2>3, MinusSmall
  <2>5. 0 + n = n OBVIOUS
  <2>. QED BY <1>8, <2>2, <2>4, <2>5, ModSmall
<1> DEFINE u == [i \in DOMAIN d.data |-> IF Minus(i, d.at) < w THEN h.count + Minus(i, d.at)
                                                                ELSE d.data[i]]
           stored == [d EXCEPT !.data = u]
           counted == [stored EXCEPT !.out = [len |-> Minus(@.len, w), actual |-> (@.actual + w) % Width]]
           c == [counted EXCEPT !.pos = (@ + n) % Width, !.residue = Minus(@, n)]
           b == [c EXCEPT !.pos = 0]
<1>10. d' = OutTokenDone(stored, w)[1] /\ Acted(OutTokenDone(stored, w)[2])
  BY <1>4 DEF HostOut
<1>11. h' = IF k + n = l THEN [h EXCEPT !.count = @ + w, !.stage = "statusIn"]
            ELSE [h EXCEPT !.count = @ + w]
  BY <1>1, <1>6, <1>7 DEF HostOut
<1>12. OutTokenDone(stored, w) = OutComplete(counted, counted.out.actual)
  <2>1. w # 0 BY <1>7
  <2>2. OutTokenDone(stored, w) =
          LET done == OutComplete(counted, counted.out.actual)
          IN IF w = 0 THEN <<[ReadSetup(done[1]) EXCEPT !.toggle = TRUE], done[2]>> ELSE done
    BY DEF OutTokenDone
  <2>. HIDE DEF w, counted
  <2>. QED BY <2>1, <2>2
<1>13. u \in [Lengths -> Int] /\ \A i \in 0 .. k + n - 1 : u[i] = i
  <2>1. d.data \in [Lengths -> Int] BY <1>3 DEF Device
  <2>2. u = [i \in DOMAIN d.data |-> IF Minus(i, k) < n THEN k + Minus(i, k) ELSE d.data[i]]
    BY <1>4, <1>6, <1>7
  <2>3. k \in Lengths /\ \A i \in 0 .. k - 1 : d.data[i] = i BY <1>4, <1>5, <1>6
  <2>. HIDE DEF u
  <2>4. k + n \in Lengths BY <1>9
  <2>. QED BY <2>1, <2>2, <2>3, <2>4, Stored
<1> HIDE DEF u
<1>14. /\ stored \in Device /\ stored.data = u /\ stored.setup = h.req /\ stored.core = h.req
       /\ stored.out = [len |-> l - k, actual |-> 0] /\ stored.dma = "data" /\ stored.toggle
       /\ stored.pos = k /\ stored.residue = l - k /\ ~stored.zlp
       /\ stored.address = d.address /\ stored.pending = 0
  <2>1. /\ stored \in Device /\ stored.data = u /\ stored.setup = d.setup /\ stored.core = d.core
        /\ stored.out = d.out /\ stored.dma = d.dma /\ stored.toggle = d.toggle
        /\ stored.pos = d.pos /\ stored.residue = d.residue /\ stored.zlp = d.zlp
        /\ stored.address = d.address /\ stored.pending = d.pending
    BY <1>3, <1>13 DEF Device
  <2> HIDE DEF stored
  <2>. QED BY <1>2, <1>4, <1>6, <1>8, <2>1
<1> HIDE DEF stored
<1>15. PICK o \in Transfer : o = [len |-> l - k - n, actual |-> n] BY <1>9 DEF Transfer
<1>16. counted = [stored EXCEPT !.out = o]
  <2>1. stored.out.len = d.residue /\ stored.out.actual = 0 BY <1>8, <1>14
  <2>2. stored.out.len = d.residue /\ stored.out.actual = 0 /\ n = w BY <1>7, <2>1
  <2>. HIDE DEF w
  <2>. QED BY <1>9, <1>15, <2>2
<1> HIDE DEF counted, w
<1>17. /\ counted \in Device /\ counted.data = stored.data /\ counted.setup = stored.setup
       /\ counted.core = stored.core /\ counted.out = o /\ counted.dma = stored.dma
       /\ counted.toggle = stored.toggle /\ counted.pos = stored.pos
       /\ counted.residue = stored.residue /\ counted.zlp = stored.zlp
       /\ counted.address = stored.address /\ counted.pending = stored.pending
  BY <1>14, <1>16 DEF Device
<1>18. c = [counted EXCEPT !.pos = k + n, !.residue = l - k - n]
  <2>1. counted.pos = k /\ counted.residue = d.residue BY <1>8, <1>14, <1>17
  <2>. QED BY <1>9, <2>1
<1>19. counted.out.actual = n BY <1>15, <1>17
<1>20. OutComplete(counted, n) =
         CASE n = 0 -> <<counted, <<>> >>
           [] n > 0 /\ c.residue # 0 -> <<StartRead(c, c.residue), <<>> >>
           [] n > 0 /\ c.residue = 0 /\ ~Accepts(b, b.core) -> <<SetStall(b), <<>> >>
           [] n > 0 /\ c.residue = 0 /\ Accepts(b, b.core) ->
                <<StartWrite(HandleRequest(b, b.core), 0), <<Record(b, b.core)>> >>
  BY DEF OutComplete
<1> HIDE DEF c
<1>21. /\ c \in Device /\ c.data = u /\ c.setup = h.req /\ c.core = h.req /\ c.dma = "data"
       /\ c.toggle /\ c.pos = k + n /\ c.residue = l - k - n /\ ~c.zlp
       /\ c.address = d.address /\ c.pending = 0
  <2>1. PICK p \in Lengths, q \in Lengths : p = k + n /\ q = l - k - n BY <1>9
  <2>2. /\ c \in Device /\ c.data = counted.data /\ c.setup = counted.setup
        /\ c.core = counted.core /\ c.dma = counted.dma /\ c.toggle = counted.toggle
        /\ c.pos = p /\ c.residue = q /\ c.zlp = counted.zlp
        /\ c.address = counted.address /\ c.pending = counted.pending
    BY <1>17, <1>18, <2>1 DEF Device
  <2>. QED BY <1>14, <1>17, <2>1, <2>2
<1>22. n > 0 /\ n # 0 OBVIOUS
<1>23. d' = OutComplete(counted, n)[1] /\ Acted(OutComplete(counted, n)[2])
  BY <1>10, <1>12, <1>19
<1>24. /\ h' \in Host /\ h'.count = k + n /\ h'.req = h.req /\ h'.toggle = h.toggle
       /\ h'.behind = h.behind /\ h'.address = h.address
       /\ h'.stage = IF k + n = l THEN "statusIn" ELSE "out"
  <2>1. PICK p \in Lengths : p = k + n BY <1>9
  <2>2. h.count + w = p BY <1>6, <1>7, <2>1
  <2>3. CASE k + n = l
    <3>1. h' = [h EXCEPT !.count = p, !.stage = "statusIn"] BY <1>11, <2>2, <2>3
    <3>. QED BY <1>3, <2>1, <2>3, <3>1 DEF Host
  <2>4. CASE k + n # l
    <3>1. h' = [h EXCEPT !.count = p] BY <1>11, <2>2, <2>4
    <3>2. h' \in Host /\ h'.count = p /\ h'.req = h.req /\ h'.toggle = h.toggle
          /\ h'.behind = h.behind /\ h'.address = h.address /\ h'.stage = h.stage
      BY <1>3, <3>1 DEF Host
    <3>. QED BY <1>1, <2>1, <2>4, <3>2
  <2>. QED BY <2>3, <2>4
<1>25. <<>> \in Seq([id : {0, 1}, data : Seq(Int)]) /\ <<>> \o <<>> = <<>> BY EmptySeq
(* More is to come.                                                         *)
<1>26. CASE k + n # l
  <2>1. l - k - n # 0 /\ k + n < l BY <1>8, <1>26
  <2>2. OutComplete(counted, n) = <<StartRead(c, c.residue), <<>> >>
    BY <1>20, <1>21, <1>22, <2>1
  <2>3. d' = StartRead(c, c.residue) /\ Acted(<<>>) BY <1>23, <2>2
  <2>4. acted' = <<>> BY <1>4, <1>25, <2>3 DEF Acted
  <2>5. /\ d' \in Device /\ d'.out = [len |-> c.residue, actual |-> 0] /\ d'.dma = "data"
        /\ d'.at = c.pos /\ d'.setup = c.setup /\ d'.core = c.core /\ d'.toggle = c.toggle
        /\ d'.pos = c.pos /\ d'.residue = c.residue /\ d'.zlp = c.zlp /\ d'.data = c.data
        /\ d'.address = c.address /\ d'.pending = c.pending
    <3>1. c.residue \in Lengths /\ c.residue # 0 BY <1>9, <1>21, <2>1
    <3>2. c \in Device /\ d' = StartRead(c, c.residue) BY <1>21, <2>3
    <3>. QED BY <3>1, <3>2, StartReadIs
  <2>6. h'.stage = "out" BY <1>24, <1>26
  <2>7. l - (k + n) = l - k - n OBVIOUS
  <2>8. DataOutInv'
    BY <1>4, <1>6, <1>13, <1>21, <1>24, <2>1, <2>4, <2>5, <2>7 DEF DataOutInv
  <2>9. ControlType' /\ Hears'
    BY <1>2, <1>21, <1>24, <1>25, <2>4, <2>5 DEF ControlType, Hears
  <2>. QED BY <1>21, <1>24, <2>5, <2>6, <2>8, <2>9
       DEF ControlInv, IdleInv, DataInInv, StatusOutInv, StatusInInv
(* All has come.                                                            *)
<1>27. CASE k + n = l
  <2>1. l - k - n = 0 /\ c.residue = 0 BY <1>21, <1>27
  <2>2. h'.stage = "statusIn" BY <1>24, <1>27
  <2>3. h.req.dir = "out" /\ h.req.len > 0 /\ l # 0 BY <1>4, <1>6 DEF HasDataOut
  <2>4. /\ b \in Device /\ b.data = c.data /\ b.setup = c.setup /\ b.core = c.core
        /\ b.toggle = c.toggle /\ b.residue = c.residue /\ b.zlp = c.zlp
        /\ b.address = c.address /\ b.pending = c.pending
    BY <1>21, WidthFacts DEF Device
  <2> HIDE DEF b
  <2>5. CASE h.req.kind = "unknown"
    <3>1. ~Accepts(b, b.core) BY <1>21, <2>4, <2>5 DEF Accepts
    <3>2. OutComplete(counted, n) = <<SetStall(b), <<>> >> BY <1>20, <1>22, <2>1, <3>1
    <3>3. d' = [b EXCEPT !.tx = "stall"] /\ Acted(<<>>) BY <1>23, <3>2 DEF SetStall
    <3>4. acted' = <<>> BY <1>4, <1>25, <3>3 DEF Acted
    <3>5. /\ d' \in Device /\ d'.tx = "stall" /\ d'.setup = b.setup /\ d'.core = b.core
          /\ d'.address = b.address /\ d'.pending = b.pending
      BY <2>4, <3>3 DEF Device
    <3>6. Refused' BY <1>24, <2>5, <3>4, <3>5 DEF Refused
    <3>7. StatusInInv'
      BY <1>4, <1>6, <1>21, <1>24, <2>3, <2>4, <3>5, <3>6 DEF StatusInInv
    <3>8. ControlType' /\ Hears'
      BY <1>2, <1>21, <1>24, <1>25, <2>4, <3>4, <3>5 DEF ControlType, Hears
    <3>. QED BY <1>21, <1>24, <2>2, <2>4, <3>5, <3>7, <3>8
         DEF ControlInv, IdleInv, DataInInv, StatusOutInv, DataOutInv
  <2>6. CASE h.req.kind = "coding"
    <3>1. Accepts(b, b.core) BY <1>21, <2>4, <2>6 DEF Accepts
    <3>2. OutComplete(counted, n) =
            <<StartWrite(HandleRequest(b, b.core), 0), <<Record(b, b.core)>> >>
      BY <1>20, <1>22, <2>1, <3>1
    <3>3. PICK a : a = HandleRequest(b, b.core) OBVIOUS
    <3>4. PICK r : r = Record(b, b.core) OBVIOUS
    <3>5. d' = StartWrite(a, 0) /\ Acted(<<r>>) BY <1>23, <3>2, <3>3, <3>4
    <3>6. /\ a \in Device /\ a.setup = b.setup /\ a.core = b.core /\ a.toggle = b.toggle
          /\ a.residue = b.residue /\ a.zlp = b.zlp /\ a.address = b.address
          /\ a.pending = b.pending
      <4>1. b.core \in SetupType /\ b.core.kind # "address" BY <1>5, <1>21, <2>4, <2>6
      <4>. QED BY <2>4, <3>3, <4>1, HandleRequestIs
    <3>7. Shorter(0, Mps) = 0 BY WidthFacts DEF Shorter
    <3>8. /\ d' \in Device /\ d'.setup = a.setup /\ d'.core = a.core /\ d'.tx = "ack"
          /\ d'.txToggle = a.toggle /\ d'.txLen = 0 /\ d'.in = [len |-> 0, actual |-> 0]
          /\ d'.residue = a.residue /\ d'.zlp = a.zlp
          /\ d'.address = a.address /\ d'.pending = a.pending
      BY <3>5, <3>6, <3>7, WidthFacts, StartWriteIs
    <3>9. r = [id |-> h.req.id, data |-> Positions(0, l)]
      <4>1. r = [id |-> h.req.id, data |-> [i \in 1 .. l |-> b.data[i - 1]]]
        BY <1>4, <1>6, <1>21, <2>4, <3>4 DEF Record
      <4>2. ASSUME NEW i \in 1 .. l PROVE b.data[i - 1] = 0 + i - 1
        <5>1. i - 1 \in 0 .. k + n - 1 /\ 0 + i - 1 = i - 1 BY <1>27
        <5>. QED BY <1>13, <1>21, <2>4, <5>1
      <4>3. [i \in 1 .. l |-> b.data[i - 1]] = Positions(0, l) BY <4>2 DEF Positions
      <4>. QED BY <4>1, <4>3
    <3>10. <<r>> = Once' BY <1>4, <1>6, <1>24, <3>9 DEF Once
    <3>11. <<r>> \in Seq([id : {0, 1}, data : Seq(Int)])
      <4>1. h.req.id \in {0, 1} BY <1>5 DEF SetupType
      <4>2. Positions(0, l) \in Seq(Int) BY PositionsShape
      <4>3. r \in [id : {0, 1}, data : Seq(Int)] BY <3>9, <4>1, <4>2
      <4>. QED BY <4>3
    <3>12. acted' = <<r>>
      <4>1. <<>> \o <<r>> = <<r>> BY <3>11
      <4>2. acted' = <<>> \o <<r>> BY <1>4, <3>5 DEF Acted
      <4>. QED BY <4>1, <4>2
    <3>13. StatusInInv'
      BY <1>4, <1>6, <1>21, <1>24, <2>1, <2>3, <2>4, <2>6, <3>6, <3>8, <3>10, <3>12
         DEF StatusInInv
    <3>14. ControlType' /\ Hears'
      BY <1>2, <1>21, <1>24, <2>4, <3>6, <3>8, <3>11, <3>12 DEF ControlType, Hears
    <3>. QED BY <1>21, <1>24, <2>2, <2>4, <3>6, <3>8, <3>13, <3>14
         DEF ControlInv, IdleInv, DataInInv, StatusOutInv, DataOutInv
  <2>. QED BY <1>4, <2>5, <2>6
<1>. QED BY <1>26, <1>27

(* No step breaks it.                                                       *)
LEMMA ControlStep == ControlInv /\ ControlNext => ControlInv'
<1> SUFFICES ASSUME ControlInv, ControlNext PROVE ControlInv'
  OBVIOUS
<1>1. CASE ~clean' BY <1>1 DEF ControlInv
<1>2. CASE HostReset BY <1>2, ControlBegins
<1>3. CASE clean' /\ ~HostReset
  <2>1. ASSUME NEW r \in Requests, HostSetup(r) PROVE ControlInv' BY <1>3, <2>1, SetupStep
  <2>2. ASSUME NEW lost \in BOOLEAN, HostIn(lost) PROVE ControlInv'
    <3>1. h.stage \in {"in", "statusIn"} BY <2>2 DEF HostIn
    <3>2. CASE h.stage = "in" BY <1>3, <2>2, <3>2, DataInStep
    <3>3. CASE h.stage = "statusIn" BY <1>3, <2>2, <3>3, StatusInStep
    <3>. QED BY <3>1, <3>2, <3>3
  <2>3. ASSUME NEW lost \in BOOLEAN, HostOut(lost) PROVE ControlInv' BY <1>3, <2>3, DataOutStep
  <2>4. ASSUME NEW lost \in BOOLEAN, HostStatusOut(lost) PROVE ControlInv'
    BY <1>3, <2>4, StatusOutStep
  <2>5. ASSUME HostStalled PROVE ControlInv' BY <1>3, <2>5, StalledStep
  <2>6. ASSUME HostGivesUp PROVE FALSE BY <1>3, <2>6 DEF HostGivesUp
  <2>. QED BY <1>3, <2>1, <2>2, <2>3, <2>4, <2>5, <2>6 DEF ControlNext
<1>. QED BY <1>1, <1>2, <1>3

(* So it holds.                                                             *)
LEMMA ControlIsInvariant == Spec => []ControlInv
<1>1. Init => ControlInv BY ControlBegins DEF Init, ControlQuiet
<1>2. ControlInv /\ [Next]_vars => ControlInv'
  <2> SUFFICES ASSUME ControlInv, [Next]_vars PROVE ControlInv' OBVIOUS
  <2>1. CASE ControlNext BY <2>1, ControlStep
  <2>2. CASE UNCHANGED controlVars
    <3>1. d' = d /\ h' = h /\ acted' = acted /\ clean' = clean BY <2>2 DEF controlVars
    <3>2. /\ ControlType' = ControlType /\ Hears' = Hears /\ Once' = Once /\ Total' = Total
          /\ Refused' = Refused /\ EmptyFollows' = EmptyFollows
      BY <3>1 DEF ControlType, Hears, Once, Total, Refused, EmptyFollows
    <3>3. Sending' = Sending BY <3>1, <3>2 DEF Sending
    <3>4. /\ IdleInv => IdleInv' BY <3>1 DEF IdleInv, ControlExact
    <3>5. /\ DataInInv => DataInInv' BY <3>1, <3>2, <3>3 DEF DataInInv
    <3>6. /\ StatusOutInv => StatusOutInv' BY <3>1, <3>2 DEF StatusOutInv
    <3>7. /\ DataOutInv => DataOutInv' BY <3>1 DEF DataOutInv
    <3>8. /\ StatusInInv => StatusInInv' BY <3>1, <3>2 DEF StatusInInv
    <3>. QED BY <3>1, <3>2, <3>4, <3>5, <3>6, <3>7, <3>8 DEF ControlInv
  <2>. QED BY <2>1, <2>2 DEF Next, vars
<1>. QED BY <1>1, <1>2, PTL DEF Spec

(* What the invariant is for.                                               *)
LEMMA ControlInvImplies == ControlInv => ControlExact /\ ControlProceeds
<1> SUFFICES ASSUME ControlInv, clean PROVE ControlExact /\ ControlProceeds
  BY DEF ControlExact, ControlProceeds
<1>1. /\ ControlType /\ Hears /\ IdleInv /\ DataInInv /\ StatusInInv BY DEF ControlInv
<1>2. ControlExact BY <1>1 DEF IdleInv, ControlExact
<1>3. h.stage = "idle" => d.dma = "setup" BY <1>1 DEF IdleInv
<1>4. h.stage = "in" => d.tx = "stall" \/ (d.tx = "ack" /\ (h.behind \/ d.txToggle = h.toggle))
  <2>1. CASE Refused BY <2>1 DEF Refused
  <2>2. CASE Sending
    <3>1. h.behind \in BOOLEAN BY <1>1 DEF ControlType, Host
    <3>. QED BY <2>2, <3>1 DEF Sending
  <2>. QED BY <1>1, <2>1, <2>2 DEF DataInInv
<1>5. h.stage = "statusIn" =>
        d.tx = "stall" \/ (d.tx = "ack" /\ (h.behind \/ d.txToggle = h.toggle))
  <2>1. h.toggle \in BOOLEAN /\ d.txToggle \in BOOLEAN BY <1>1 DEF ControlType, Host, Device
  <2>. QED BY <1>1, <2>1 DEF StatusInInv, Refused
<1>. QED BY <1>1, <1>2, <1>3, <1>4, <1>5 DEF ControlProceeds

(* A control transfer that ends well did what the host asked, once and with *)
(* all its data, and one is refused only for want of a handler, for every   *)
(* packet size, length of a request and length of a descriptor: the state   *)
(* machine of usbd_core.c:1007-1127 over the endpoint handling of           *)
(* usb_dc_usbhs.c:259-332, under bus resets and while `clean` holds: with   *)
(* the acknowledges lost of data to the host, of the status packet after it *)
(* and of the status of a request without data, but not where a repeated    *)
(* packet runs a handler twice (data from the host, its status, the status  *)
(* of SET_ADDRESS, usbd_core.c:1124) or a transfer is given up, too long,   *)
(* or refused with data from the host.                                      *)
THEOREM ControlIsExact == Spec => []ControlExact
BY ControlIsInvariant, ControlInvImplies, PTL

(* In every stage the device has ready what the host waits for, or refuses; *)
(* and when the host rests, the next SETUP packet is stored where           *)
(* usbd_event_ep0_setup_complete_handler reads it.                          *)
THEOREM ControlAlwaysProceeds == Spec => []ControlProceeds
BY ControlIsInvariant, ControlInvImplies, PTL
=============================================================================

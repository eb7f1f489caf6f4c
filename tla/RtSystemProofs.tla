--------------------------- MODULE RtSystemProofs ---------------------------
(***************************************************************************)
(* Proofs about the kernel of RtKernel and the threads, interrupts and     *)
(* objects of RtIpc, for any threads and priorities, any width of the tick *)
(* and any size of a mailbox and a pool.                                   *)
(*                                                                         *)
(* The invariant is IpcInv.  Its part on the kernel alone is Sound; the    *)
(* rest ties the kernel to what the threads are about to do.  First come   *)
(* the operators of RtKernel, each with what it does to a sound kernel;    *)
(* then the kinds of steps there are, whatever the object; then the object *)
(* and how many threads have been woken for it; last the actions.          *)
(***************************************************************************)
EXTENDS RtSystem, TLAPS, SequenceTheorems, FiniteSetTheorems, WellFoundedInduction

----------------------------------------------------------------------------
(* The kernel by itself.                                                    *)
Stats == {"init", "ready", "running", "suspend", "close"}
Timers == [t : Everyone, at : 0..TickWidth - 1]
Errors == {"ok", "intr", "timeout", "error"}
Kernels ==
    [current : Everyone, prio : [Everyone -> Priorities], stat : [Everyone -> Stats],
     yield : [Everyone -> BOOLEAN], ready : [Priorities -> Seq(Everyone)], group : SUBSET Priorities,
     error : [Everyone -> Errors], list : [WaitLists -> Seq(Everyone)],
     timers : Seq(Timers), tick : 0..TickWidth - 1, lock : {0, 1}]

Awake(j, t) == j.stat[t] \in {"ready", "running"}
Remaining(j, m) == Before(j.tick, m.at)

Once(s) == \A a, b \in 1..Len(s) : s[a].t = s[b].t => a = b
Sorted(s, now) == \A a, b \in 1..Len(s) : a <= b => Before(now, s[a].at) <= Before(now, s[b].at)

QueuesMatch(ready, group, stat, prio) ==
    /\ \A p \in Priorities : IsInjective(ready[p])
    /\ \A p \in Priorities : ToSet(ready[p]) = {t \in Everyone : stat[t] = "ready" /\ prio[t] = p}
    /\ group = {p \in Priorities : ready[p] # <<>>}
QueuesSound(j) ==
    /\ QueuesMatch(j.ready, j.group, j.stat, j.prio)
    /\ j.stat[j.current] # "ready"
    /\ \A t \in Everyone : j.stat[t] = "running" => t = j.current
    /\ Awake(j, Idle)
ListsSound(j) ==
    /\ \A l \in WaitLists : IsInjective(j.list[l])
    /\ \A t \in Everyone : t \in ToSet(j.list["wait"]) => j.stat[t] = "suspend" /\ t \notin ToSet(j.list["send"])
    /\ \A t \in Everyone : t \in ToSet(j.list["send"]) => j.stat[t] = "suspend"
    /\ \A t \in Everyone : t \in ToSet(j.list["dead"]) => j.stat[t] = "close"
TimersSound(j) ==
    /\ Once(j.timers) /\ Sorted(j.timers, j.tick)
    /\ \A m \in ToSet(j.timers) : j.stat[m.t] = "suspend" /\ Remaining(j, m) < Half
Sound(j) == j \in Kernels /\ QueuesSound(j) /\ ListsSound(j) /\ TimersSound(j)

(* What a step of the kernel leaves alone.                                  *)
SameQueues(j, n) ==
    n.current = j.current /\ n.stat = j.stat /\ n.yield = j.yield /\ n.ready = j.ready /\ n.group = j.group
SameClock(j, n) == n.prio = j.prio /\ n.tick = j.tick /\ n.lock = j.lock
SameStatus(j, n) ==
    \A t \in Everyone : (Awake(n, t) <=> Awake(j, t)) /\ (~Awake(j, t) => n.stat[t] = j.stat[t])

(* Thread t is awake and on no list, with no timer; the others are as before. *)
Woke(j, n, t) ==
    /\ Sound(n) /\ SameClock(j, n) /\ Awake(n, t)
    /\ \A u \in Everyone : u # t => (Awake(n, u) <=> Awake(j, u)) /\ (~Awake(j, u) => n.stat[u] = j.stat[u])
    /\ \A l \in WaitLists : ToSet(n.list[l]) = ToSet(j.list[l]) \ {t}
    /\ ToSet(n.timers) = {m \in ToSet(j.timers) : m.t # t}

(* Thread t, which ran, is suspended on the lists in S, with a timer for c  *)
(* ticks if c is positive.                                                  *)
Blocked(j, n, t, S, c) ==
    /\ Sound(n) /\ SameClock(j, n) /\ n.current = j.current /\ n.stat = [j.stat EXCEPT ![t] = "suspend"]
    /\ \A l \in WaitLists : ToSet(n.list[l]) = IF l \in S THEN ToSet(j.list[l]) \cup {t} ELSE ToSet(j.list[l])
    /\ c <= 0 => n.timers = j.timers
    /\ c > 0 => \E m \in Timers : m.t = t /\ Remaining(j, m) = c /\ ToSet(n.timers) = ToSet(j.timers) \cup {m}

(* Something is there to wake a thread that is suspended.                   *)
Wakeable(j) ==
    \A t \in Everyone : j.stat[t] = "suspend" =>
        t \in ToSet(j.list["wait"]) \cup ToSet(j.list["send"]) \/ \E m \in ToSet(j.timers) : m.t = t
Highest(j) == \A p \in j.group : j.prio[j.current] <= p

----------------------------------------------------------------------------
(* The kernel j and the calls c, with the tick handler at is, the loop lp   *)
(* and the object kd.                                                       *)
MailValues == Mails \cup {0}
CallsOf ==
    [pc : {"user", "sched", "woken", "again", "mark", "locked"},
     op : {"none", "take", "send", "recv", "alloc", "done", "sleep"},
     left : -1..Half - 1, spent : 0..Half - 1, value : MailValues]

CurrentSound(j, c) ==
    /\ j.stat[j.current] \in {"running", "suspend"}
    /\ j.stat[j.current] = "suspend" => c[j.current].pc \in {"mark", "sched"}
    /\ j.lock = 1 <=> \E t \in Threads : c[t].pc = "locked"
    /\ \A t \in Threads : c[t].pc = "locked" => t = j.current
CallsSound(c) ==
    /\ c \in [Threads -> CallsOf]
    /\ \A t \in Threads : /\ c[t].pc \in {"user", "locked"} => c[t].op = "none"
                          /\ c[t].pc = "mark" => c[t].op = "sleep"
                          /\ c[t].pc = "again" => c[t].op = "alloc"
                          /\ c[t].spent = 0 \/ c[t].spent <= c[t].left
LoopSound(j, c, is, lp, kd) ==
    /\ is \in {"none", "tick"} /\ lp \in {"none", "timers", "reset"}
    /\ lp = "timers" => is = "tick"
    /\ lp = "reset" => kd \in {"sem", "mailbox"}
    /\ lp = "reset" /\ kd = "mailbox" => is = "none" /\ j.current \in Threads /\ c[j.current].pc = "user"

WaitOp(kd) ==
    CASE kd = "sem" -> "take" [] kd = "mailbox" -> "recv" [] kd = "pool" -> "alloc" [] OTHER -> "done"
WaitersSound(j, c, kd) ==
    /\ \A t \in Threads : t \in ToSet(j.list["wait"]) => c[t].op = WaitOp(kd)
    /\ \A t \in Threads : t \in ToSet(j.list["send"]) => c[t].op = "send" /\ kd = "mailbox"
    /\ \A t \in Threads : c[t].op \in {"none", "sleep", WaitOp(kd)} \/ (kd = "mailbox" /\ c[t].op = "send")
    /\ kd = "completion" => \A t, u \in Threads : c[t].op = "done" /\ c[u].op = "done" => t = u

TimedOne(d, r, is) ==
    /\ is = "none" => d >= 1
    /\ r.op # "sleep" => d <= r.left
    /\ r.op \in Retried => d = r.left - r.spent
TimedSound(j, c, is) == \A m \in ToSet(j.timers) : TimedOne(Remaining(j, m), c[m.t], is)

HighSound(j, c, lp) ==
    lp # "reset" /\ j.lock = 0 /\ (j.current \in Threads => c[j.current].pc \in {"user", "woken", "again"})
      => Highest(j)

CoreInv(j, c, is, lp, kd) ==
    /\ Sound(j) /\ Wakeable(j) /\ CurrentSound(j, c) /\ CallsSound(c) /\ LoopSound(j, c, is, lp, kd)
    /\ WaitersSound(j, c, kd) /\ TimedSound(j, c, is)

(* Who runs after a step: the same thread, or one that rt_schedule chose.   *)
TurnSound(j, n) ==
    \/ n.current = j.current /\ (n.stat[n.current] = j.stat[j.current] \/ n.stat[n.current] = "running")
    \/ j.lock = 0 /\ n.stat[n.current] = "running"
----------------------------------------------------------------------------
(* Sequences.                                                               *)
LEMMA RemovedAt ==
    ASSUME NEW S, NEW s \in Seq(S), NEW i \in 1..Len(s)
    PROVE /\ RemoveAt(s, i) \in Seq(S) /\ Len(RemoveAt(s, i)) = Len(s) - 1
          /\ \A a \in 1..Len(s) - 1 : RemoveAt(s, i)[a] = s[IF a < i THEN a ELSE a + 1]
<1>. DEFINE u == SubSeq(s, 1, i - 1)
            v == SubSeq(s, i + 1, Len(s))
<1>1. Len(s) \in Nat /\ i \in Nat /\ i >= 1 /\ i <= Len(s) BY LenProperties
<1>2. \A a \in 1..Len(s) : s[a] \in S BY ElementOfSeq
<1>3. /\ u \in Seq(S) /\ Len(u) = i - 1 /\ \A a \in 1..i - 1 : u[a] = s[a]
  <2>1. 1 \in Int /\ i - 1 \in Int /\ \A a \in 1..i - 1 : s[a] \in S BY <1>1, <1>2
  <2>2. \A a \in 1..i - 1 - 1 + 1 : u[a] = s[1 + a - 1] /\ u \in Seq(S) BY <2>1, SubSeqProperties
  <2>. QED BY <1>1, <2>1, SubSeqProperties
<1>4. /\ v \in Seq(S) /\ Len(v) = Len(s) - i /\ \A a \in 1..Len(s) - i : v[a] = s[i + a]
  <2>1. Len(s) \in Int /\ i + 1 \in Int /\ \A a \in i + 1..Len(s) : s[a] \in S BY <1>1, <1>2
  <2>. QED BY <1>1, <2>1, SubSeqProperties
<1>5. RemoveAt(s, i) = u \o v BY DEF RemoveAt
<1>. HIDE DEF u, v
<1>6. /\ u \o v \in Seq(S) /\ Len(u \o v) = Len(u) + Len(v)
      /\ \A a \in 1..Len(u) + Len(v) : (u \o v)[a] = IF a <= Len(u) THEN u[a] ELSE v[a - Len(u)]
  BY <1>3, <1>4, ConcatProperties
<1>7. ASSUME NEW a \in 1..Len(s) - 1 PROVE RemoveAt(s, i)[a] = s[IF a < i THEN a ELSE a + 1]
  <2>1. CASE a < i BY <1>1, <1>3, <1>4, <1>5, <1>6, <2>1
  <2>2. CASE a >= i
    <3>1. RemoveAt(s, i)[a] = v[a - (i - 1)] BY <1>1, <1>3, <1>4, <1>5, <1>6, <2>2
    <3>2. a - (i - 1) \in 1..Len(s) - i /\ i + (a - (i - 1)) = a + 1 BY <1>1, <2>2
    <3>. QED BY <1>1, <1>4, <2>2, <3>1, <3>2
  <2>. QED BY <1>1, <2>1, <2>2
<1>. QED BY <1>1, <1>3, <1>4, <1>5, <1>6, <1>7

LEMMA InsertedAt ==
    ASSUME NEW S, NEW s \in Seq(S), NEW e \in S, NEW i \in 1..Len(s) + 1
    PROVE /\ InsertAt(s, i, e) \in Seq(S) /\ Len(InsertAt(s, i, e)) = Len(s) + 1
          /\ \A a \in 1..Len(s) + 1 :
               InsertAt(s, i, e)[a] = IF a < i THEN s[a] ELSE IF a = i THEN e ELSE s[a - 1]
<1>. DEFINE u == SubSeq(s, 1, i - 1)
            v == SubSeq(s, i, Len(s))
            m == <<e>>
<1>1. Len(s) \in Nat /\ i \in Nat /\ i >= 1 /\ i <= Len(s) + 1 BY LenProperties
<1>2. \A a \in 1..Len(s) : s[a] \in S BY ElementOfSeq
<1>3. /\ u \in Seq(S) /\ Len(u) = i - 1 /\ \A a \in 1..i - 1 : u[a] = s[a]
  <2>1. 1 \in Int /\ i - 1 \in Int /\ \A a \in 1..i - 1 : s[a] \in S BY <1>1, <1>2
  <2>2. \A a \in 1..i - 1 - 1 + 1 : u[a] = s[1 + a - 1] /\ u \in Seq(S) BY <2>1, SubSeqProperties
  <2>. QED BY <1>1, <2>1, SubSeqProperties
<1>4. /\ v \in Seq(S) /\ Len(v) = Len(s) - i + 1 /\ \A a \in 1..Len(s) - i + 1 : v[a] = s[i + a - 1]
  <2>1. Len(s) \in Int /\ i \in Int /\ \A a \in i..Len(s) : s[a] \in S BY <1>1, <1>2
  <2>. QED BY <1>1, <2>1, SubSeqProperties
<1>5. m \in Seq(S) /\ Len(m) = 1 /\ m[1] = e OBVIOUS
<1>6. InsertAt(s, i, e) = (u \o m) \o v BY DEF InsertAt
<1>. HIDE DEF u, v, m
<1>7. PICK w : w = u \o m OBVIOUS
<1>8. /\ w \in Seq(S) /\ Len(w) = i
      /\ \A a \in 1..i : w[a] = IF a <= i - 1 THEN u[a] ELSE m[a - (i - 1)]
  <2>1. /\ u \o m \in Seq(S) /\ Len(u \o m) = Len(u) + Len(m)
        /\ \A a \in 1..Len(u) + Len(m) : (u \o m)[a] = IF a <= Len(u) THEN u[a] ELSE m[a - Len(u)]
    BY <1>3, <1>5, ConcatProperties
  <2>. QED BY <1>1, <1>3, <1>5, <1>7, <2>1
<1>9. /\ w \o v \in Seq(S) /\ Len(w \o v) = Len(w) + Len(v)
      /\ \A a \in 1..Len(w) + Len(v) : (w \o v)[a] = IF a <= Len(w) THEN w[a] ELSE v[a - Len(w)]
  BY <1>4, <1>8, ConcatProperties
<1>10. ASSUME NEW a \in 1..Len(s) + 1
       PROVE (w \o v)[a] = IF a < i THEN s[a] ELSE IF a = i THEN e ELSE s[a - 1]
  <2>1. ASSUME a < i PROVE (w \o v)[a] = s[a]
    <3>1. (w \o v)[a] = w[a] BY <1>1, <1>4, <1>8, <1>9, <2>1
    <3>. QED BY <1>1, <1>3, <1>8, <2>1, <3>1
  <2>2. ASSUME a = i PROVE (w \o v)[a] = e
    <3>1. (w \o v)[a] = w[a] BY <1>1, <1>4, <1>8, <1>9, <2>2
    <3>. QED BY <1>1, <1>5, <1>8, <2>2, <3>1
  <2>3. ASSUME a > i PROVE (w \o v)[a] = s[a - 1]
    <3>1. (w \o v)[a] = v[a - i] BY <1>1, <1>4, <1>8, <1>9, <2>3
    <3>2. a - i \in 1..Len(s) - i + 1 /\ i + (a - i) - 1 = a - 1 BY <1>1, <2>3
    <3>. QED BY <1>1, <1>4, <2>3, <3>1, <3>2
  <2>4. PICK x : x = (w \o v)[a] OBVIOUS
  <2>5. i \in Int /\ a \in Int BY <1>1
  <2>6. (a < i => x = s[a]) /\ (a = i => x = e) /\ (a > i => x = s[a - 1]) BY <2>1, <2>2, <2>3, <2>4
  <2>7. x = IF a < i THEN s[a] ELSE IF a = i THEN e ELSE s[a - 1]
    <3>1. CASE a < i BY <2>6, <3>1
    <3>2. CASE a = i
      <4>1. ~(a < i) BY <2>5, <3>2
      <4>. QED BY <2>6, <3>2, <4>1, Zenon
    <3>3. CASE a > i
      <4>1. ~(a < i) /\ a # i BY <2>5, <3>3
      <4>. QED BY <2>6, <3>3, <4>1, Zenon
    <3>. QED BY <2>5, <3>1, <3>2, <3>3
  <2>. QED BY <2>4, <2>7
<1>. QED BY <1>1, <1>4, <1>6, <1>7, <1>8, <1>9, <1>10

LEMMA Members ==
    ASSUME NEW S, NEW s \in Seq(S)
    PROVE /\ \A x : x \in ToSet(s) <=> \E i \in 1..Len(s) : s[i] = x
          /\ ToSet(s) \subseteq S /\ Len(s) \in Nat
          /\ s = <<>> <=> ToSet(s) = {}
          /\ s # <<>> => Head(s) \in ToSet(s) /\ Head(s) = s[1]
          /\ IsInjective(s) <=> \A i, j \in 1..Len(s) : s[i] = s[j] => i = j
<1>1. DOMAIN s = 1..Len(s) /\ Len(s) \in Nat BY LenProperties
<1>2. \A x : x \in ToSet(s) <=> \E i \in 1..Len(s) : s[i] = x BY <1>1 DEF ToSet
<1>3. ToSet(s) \subseteq S BY <1>2, ElementOfSeq
<1>4. s # <<>> => Len(s) >= 1 BY <1>1, EmptySeq
<1>5. s # <<>> => 1 \in 1..Len(s) BY <1>1, <1>4
<1>6. s = <<>> => Len(s) = 0 BY EmptySeq
<1>7. s = <<>> => ToSet(s) = {} BY <1>2, <1>6
<1>8. s # <<>> => Head(s) = s[1] BY <1>4
<1>9. IsInjective(s) <=> \A i, j \in 1..Len(s) : s[i] = s[j] => i = j BY <1>1 DEF IsInjective
<1>. QED BY <1>1, <1>2, <1>3, <1>5, <1>7, <1>8, <1>9

LEMMA WithoutIs ==
    ASSUME NEW S, NEW s \in Seq(S), IsInjective(s), NEW t
    PROVE /\ Without(s, t) \in Seq(S) /\ IsInjective(Without(s, t))
          /\ ToSet(Without(s, t)) = ToSet(s) \ {t}
          /\ t \notin ToSet(s) => Without(s, t) = s
<1>1. CASE t \notin ToSet(s) BY <1>1 DEF Without
<1>2. CASE t \in ToSet(s)
  <2>1. /\ \A x : x \in ToSet(s) <=> \E i \in 1..Len(s) : s[i] = x
        /\ Len(s) \in Nat /\ \A i, j \in 1..Len(s) : s[i] = s[j] => i = j
    BY Members
  <2>2. PICK i \in 1..Len(s) : i = CHOOSE n \in 1..Len(s) : s[n] = t BY <1>2, <2>1
  <2>3. s[i] = t BY <1>2, <2>1, <2>2
  <2>4. PICK r : r = RemoveAt(s, i) OBVIOUS
  <2>5. Without(s, t) = r BY <1>2, <2>2, <2>4 DEF Without
  <2>6. /\ r \in Seq(S) /\ Len(r) = Len(s) - 1
        /\ \A a \in 1..Len(s) - 1 : r[a] = s[IF a < i THEN a ELSE a + 1]
    BY <2>4, RemovedAt
  <2>7. /\ \A x : x \in ToSet(r) <=> \E a \in 1..Len(r) : r[a] = x
        /\ IsInjective(r) <=> \A a, b \in 1..Len(r) : r[a] = r[b] => a = b
    BY <2>6, Members
  <2>8. \A a \in 1..Len(s) - 1 : /\ (IF a < i THEN a ELSE a + 1) \in 1..Len(s)
                                 /\ (IF a < i THEN a ELSE a + 1) # i
    BY <2>1
  <2>9. ASSUME NEW a \in 1..Len(r), NEW b \in 1..Len(r), r[a] = r[b] PROVE a = b
    <3>1. a \in 1..Len(s) - 1 /\ b \in 1..Len(s) - 1 BY <2>6
    <3>2. PICK c \in 1..Len(s) : c = (IF a < i THEN a ELSE a + 1) BY <2>8, <3>1
    <3>3. PICK d \in 1..Len(s) : d = (IF b < i THEN b ELSE b + 1) BY <2>8, <3>1
    <3>4. s[c] = s[d] BY <2>6, <2>9, <3>1, <3>2, <3>3
    <3>5. c = d BY <2>1, <3>4
    <3>. QED BY <2>1, <3>1, <3>2, <3>3, <3>5
  <2>10. ASSUME NEW x \in ToSet(r) PROVE x \in ToSet(s) /\ x # t
    <3>1. PICK a \in 1..Len(s) - 1 : x = s[IF a < i THEN a ELSE a + 1] BY <2>6, <2>7
    <3>. QED BY <2>1, <2>3, <2>8, <3>1
  <2>11. ASSUME NEW x \in ToSet(s), x # t PROVE x \in ToSet(r)
    <3>1. PICK c \in 1..Len(s) : s[c] = x BY <2>1
    <3>2. c # i BY <2>3, <2>11, <3>1
    <3>3. CASE c < i
      <4>1. c \in 1..Len(s) - 1 BY <2>1, <3>3
      <4>2. r[c] = x BY <2>6, <3>1, <3>3, <4>1
      <4>. QED BY <2>6, <2>7, <4>1, <4>2
    <3>4. CASE c > i
      <4>1. c - 1 \in 1..Len(s) - 1 /\ ~(c - 1 < i) /\ c - 1 + 1 = c BY <2>1, <3>4
      <4>2. r[c - 1] = x BY <2>6, <3>1, <4>1
      <4>. QED BY <2>6, <2>7, <4>1, <4>2
    <3>. QED BY <2>1, <3>2, <3>3, <3>4
  <2>12. ToSet(r) = ToSet(s) \ {t} BY <2>10, <2>11
  <2>13. IsInjective(r) BY <2>7, <2>9
  <2>. QED BY <1>2, <2>5, <2>6, <2>12, <2>13
<1>. QED BY <1>1, <1>2

LEMMA AppendIs ==
    ASSUME NEW S, NEW s \in Seq(S), IsInjective(s), NEW t \in S, t \notin ToSet(s)
    PROVE /\ Append(s, t) \in Seq(S) /\ IsInjective(Append(s, t))
          /\ ToSet(Append(s, t)) = ToSet(s) \cup {t}
<1>. DEFINE r == Append(s, t)
<1>1. /\ \A x : x \in ToSet(s) <=> \E i \in 1..Len(s) : s[i] = x
      /\ Len(s) \in Nat /\ \A i, j \in 1..Len(s) : s[i] = s[j] => i = j
  BY Members
<1>2. /\ r \in Seq(S) /\ Len(r) = Len(s) + 1
      /\ \A a \in 1..Len(s) : r[a] = s[a]
      /\ r[Len(s) + 1] = t
  BY <1>1
<1>. HIDE DEF r
<1>3. /\ \A x : x \in ToSet(r) <=> \E a \in 1..Len(r) : r[a] = x
      /\ IsInjective(r) <=> \A a, b \in 1..Len(r) : r[a] = r[b] => a = b
  BY <1>2, Members
<1>4. \A a \in 1..Len(r) : a \in 1..Len(s) \/ a = Len(s) + 1 BY <1>1, <1>2
<1>5. \A a \in 1..Len(s) : a \in 1..Len(r) BY <1>1, <1>2
<1>6. Len(s) + 1 \in 1..Len(r) BY <1>1, <1>2
<1>7. \A a \in 1..Len(s) : s[a] # t BY <1>1
<1>8. IsInjective(r) BY <1>1, <1>2, <1>3, <1>4, <1>7
<1>9. ToSet(r) = ToSet(s) \cup {t} BY <1>1, <1>2, <1>3, <1>4, <1>5, <1>6
<1>. QED BY <1>2, <1>8, <1>9 DEF r

LEMMA PrependIs ==
    ASSUME NEW S, NEW s \in Seq(S), IsInjective(s), NEW t \in S, t \notin ToSet(s)
    PROVE /\ <<t>> \o s \in Seq(S) /\ IsInjective(<<t>> \o s)
          /\ ToSet(<<t>> \o s) = ToSet(s) \cup {t}
<1>. DEFINE r == <<t>> \o s
<1>1. /\ \A x : x \in ToSet(s) <=> \E i \in 1..Len(s) : s[i] = x
      /\ Len(s) \in Nat /\ \A i, j \in 1..Len(s) : s[i] = s[j] => i = j
  BY Members
<1>2. /\ r \in Seq(S) /\ Len(r) = Len(s) + 1
      /\ \A a \in 1..Len(r) : r[a] = IF a = 1 THEN t ELSE s[a - 1]
  <2>1. <<t>> \in Seq(S) /\ Len(<<t>>) = 1 /\ <<t>>[1] = t OBVIOUS
  <2>2. /\ r \in Seq(S) /\ Len(r) = 1 + Len(s)
        /\ \A a \in 1..1 + Len(s) : r[a] = IF a <= 1 THEN <<t>>[a] ELSE s[a - 1]
    BY <2>1, ConcatProperties
  <2>. HIDE DEF r
  <2>3. \A a \in 1..1 + Len(s) : a <= 1 <=> a = 1 BY <1>1
  <2>. QED BY <1>1, <2>1, <2>2, <2>3
<1>. HIDE DEF r
<1>3. /\ \A x : x \in ToSet(r) <=> \E a \in 1..Len(r) : r[a] = x
      /\ IsInjective(r) <=> \A a, b \in 1..Len(r) : r[a] = r[b] => a = b
  BY <1>2, Members
<1>4. \A a \in 1..Len(r) : a # 1 => a - 1 \in 1..Len(s) BY <1>1, <1>2
<1>5. \A a \in 1..Len(s) : a + 1 \in 1..Len(r) /\ a + 1 # 1 /\ a + 1 - 1 = a BY <1>1, <1>2
<1>6. 1 \in 1..Len(r) BY <1>1, <1>2
<1>7. \A a \in 1..Len(s) : s[a] # t BY <1>1
<1>8. IsInjective(r)
  <2>1. ASSUME NEW a \in 1..Len(r), NEW b \in 1..Len(r), r[a] = r[b] PROVE a = b
    <3>1. CASE a = 1 BY <1>2, <1>4, <1>7, <2>1, <3>1
    <3>2. CASE a # 1
      <4>1. b # 1 BY <1>2, <1>4, <1>7, <2>1, <3>2
      <4>2. a - 1 = b - 1 BY <1>1, <1>2, <1>4, <2>1, <3>2, <4>1
      <4>. QED BY <1>2, <4>2
    <3>. QED BY <3>1, <3>2
  <2>. QED BY <1>3, <2>1
<1>9. ToSet(r) = ToSet(s) \cup {t}
  <2>1. ASSUME NEW x \in ToSet(r) PROVE x \in ToSet(s) \cup {t} BY <1>1, <1>2, <1>3, <1>4
  <2>2. t \in ToSet(r) BY <1>2, <1>3, <1>6
  <2>3. ASSUME NEW x \in ToSet(s) PROVE x \in ToSet(r)
    <3>1. PICK a \in 1..Len(s) : s[a] = x BY <1>1
    <3>2. r[a + 1] = x BY <1>2, <1>5, <3>1
    <3>. QED BY <1>3, <1>5, <3>2
  <2>. QED BY <2>1, <2>2, <2>3
<1>. QED BY <1>2, <1>8, <1>9 DEF r

----------------------------------------------------------------------------
(* The tick counter.                                                        *)
LEMMA Folded ==
    ASSUME NEW n \in Nat \ {0}, NEW a \in Nat, a < 2 * n
    PROVE a % n = IF a < n THEN a ELSE a - n
<1>1. CASE a < n BY <1>1
<1>2. CASE a >= n
  <2>1. a - n \in 0..n - 1 BY <1>2
  <2>2. a = n * 1 + (a - n) BY <1>2
  <2>. QED BY <1>2, <2>1, <2>2
<1>. QED BY <1>1, <1>2

LEMMA Halves == TickWidth \in Nat /\ Half \in Nat /\ Half >= 1 /\ TickWidth >= 2 * Half + 1
BY KernelAssumption DEF Half

LEMMA BeforeIs ==
    ASSUME NEW a \in 0..TickWidth - 1, NEW b \in 0..TickWidth - 1
    PROVE /\ Before(a, b) = IF b >= a THEN b - a ELSE b - a + TickWidth
          /\ Before(a, b) \in 0..TickWidth - 1
<1>1. TickWidth \in Nat \ {0} BY KernelAssumption
<1>2. PICK c \in Nat : c = b + TickWidth - a /\ c < 2 * TickWidth BY <1>1
<1>3. c % TickWidth = IF c < TickWidth THEN c ELSE c - TickWidth BY <1>1, <1>2, Folded
<1>. QED BY <1>1, <1>2, <1>3 DEF Before

(* A timer set n ticks ahead has n to go.                                   *)
LEMMA Ahead ==
    ASSUME NEW a \in 0..TickWidth - 1, NEW n \in 0..TickWidth - 1
    PROVE (a + n) % TickWidth \in 0..TickWidth - 1 /\ Before(a, (a + n) % TickWidth) = n
<1>1. TickWidth \in Nat \ {0} BY KernelAssumption
<1>2. PICK b \in 0..TickWidth - 1 : b = (a + n) % TickWidth /\ b = IF a + n < TickWidth THEN a + n ELSE a + n - TickWidth
  BY <1>1, Folded
<1>3. Before(a, b) = IF b >= a THEN b - a ELSE b - a + TickWidth BY BeforeIs
<1>. QED BY <1>1, <1>2, <1>3

(* The order in which two timers are due does not depend on the wrap.       *)
LEMMA Compared ==
    ASSUME NEW now \in 0..TickWidth - 1, NEW a \in 0..TickWidth - 1, NEW b \in 0..TickWidth - 1,
           Before(now, a) < Half, Before(now, b) < Half
    PROVE Before(a, b) \in 1..Half - 1 <=> Before(now, b) > Before(now, a)
<1>1. /\ Before(now, a) = IF a >= now THEN a - now ELSE a - now + TickWidth
      /\ Before(now, b) = IF b >= now THEN b - now ELSE b - now + TickWidth
      /\ Before(a, b) = IF b >= a THEN b - a ELSE b - a + TickWidth
  BY BeforeIs
<1>. QED BY <1>1, Halves

(* A timer that is still to come is one tick nearer after a tick, and one   *)
(* is due when nothing is left.                                             *)
LEMMA Ticked ==
    ASSUME NEW now \in 0..TickWidth - 1, NEW a \in 0..TickWidth - 1, Before(now, a) >= 1
    PROVE /\ (now + 1) % TickWidth \in 0..TickWidth - 1
          /\ Before((now + 1) % TickWidth, a) = Before(now, a) - 1
<1>1. TickWidth \in Nat \ {0} BY KernelAssumption
<1>2. PICK m \in 0..TickWidth - 1 : m = (now + 1) % TickWidth /\ m = IF now + 1 < TickWidth THEN now + 1 ELSE 0
  <2>1. PICK w \in Nat : w = now + 1 /\ w < 2 * TickWidth BY <1>1
  <2>2. w % TickWidth = IF w < TickWidth THEN w ELSE w - TickWidth BY <1>1, <2>1, Folded
  <2>. QED BY <1>1, <2>1, <2>2
<1>3. /\ Before(now, a) = IF a >= now THEN a - now ELSE a - now + TickWidth
      /\ Before(m, a) = IF a >= m THEN a - m ELSE a - m + TickWidth
  BY BeforeIs
<1>. QED BY <1>1, <1>2, <1>3

LEMMA DueIs ==
    ASSUME NEW now \in 0..TickWidth - 1, NEW a \in 0..TickWidth - 1, Before(now, a) < Half
    PROVE Before(a, now) < Half <=> Before(now, a) = 0
<1>1. /\ Before(now, a) = IF a >= now THEN a - now ELSE a - now + TickWidth
      /\ Before(a, now) = IF now >= a THEN now - a ELSE now - a + TickWidth
  BY BeforeIs
<1>. QED BY <1>1, Halves

(* The least of some naturals.                                              *)
LEMMA LowestIs ==
    ASSUME NEW S \in SUBSET Nat, S # {}
    PROVE Lowest(S) \in S /\ \A q \in S : Lowest(S) <= q
<1>. DEFINE R == {ss \in Nat \X Nat : ss[1] < ss[2]}
<1>1. IsWellFoundedOn(R, Nat) BY NatLessThanWellFounded DEF OpToRel
<1>2. \E p \in S : \A q \in S : ~(<<q, p>> \in R)
  <2>. HIDE DEF R
  <2>. QED BY <1>1, WFMin
<1>3. PICK p \in S : \A q \in S : ~(<<q, p>> \in R) BY <1>2
<1>4. ASSUME NEW q \in S PROVE p <= q
  <2>1. <<q, p>> \in Nat \X Nat /\ <<q, p>>[1] = q /\ <<q, p>>[2] = p OBVIOUS
  <2>2. ~(q < p) BY <1>3, <2>1
  <2>. QED BY <2>2
<1>. QED BY <1>4 DEF Lowest

----------------------------------------------------------------------------
(* The timers as a sequence.                                                *)
LEMMA TimerIs ==
    ASSUME NEW now \in 0..TickWidth - 1, NEW m \in Timers
    PROVE m.t \in Everyone /\ m.at \in 0..TickWidth - 1 /\ Before(now, m.at) \in Nat
<1>1. m.t \in Everyone /\ m.at \in 0..TickWidth - 1 BY DEF Timers
<1>2. Before(now, m.at) \in 0..TickWidth - 1 BY <1>1, BeforeIs
<1>. QED BY <1>1, <1>2, Halves

(* One timer leaves.                                                        *)
Shortened(r, s, i) == Len(r) = Len(s) - 1 /\ \A a \in 1..Len(s) - 1 : r[a] = s[IF a < i THEN a ELSE a + 1]
LEMMA TimerLeaves ==
    ASSUME NEW now, NEW s \in Seq(Timers), Once(s), Sorted(s, now), NEW i \in 1..Len(s),
           NEW r \in Seq(Timers), Shortened(r, s, i)
    PROVE Once(r) /\ Sorted(r, now) /\ ToSet(r) = {m \in ToSet(s) : m.t # s[i].t}
<1>1. /\ \A x : x \in ToSet(s) <=> \E a \in 1..Len(s) : s[a] = x
      /\ \A x : x \in ToSet(r) <=> \E a \in 1..Len(r) : r[a] = x
      /\ Len(s) \in Nat /\ Len(r) = Len(s) - 1
      /\ \A a \in 1..Len(s) - 1 : r[a] = s[IF a < i THEN a ELSE a + 1]
  BY Members DEF Shortened
<1>. DEFINE From(a) == IF a < i THEN a ELSE a + 1
<1>2. \A a \in 1..Len(r) : From(a) \in 1..Len(s) /\ From(a) # i /\ r[a] = s[From(a)]
  BY <1>1
<1>3. \A a, b \in 1..Len(r) : a <= b => From(a) <= From(b) BY <1>1
<1>4. \A a, b \in 1..Len(r) : From(a) = From(b) => a = b BY <1>1
<1>5. \A c \in 1..Len(s) : c # i => \E a \in 1..Len(r) : From(a) = c
  <2>1. SUFFICES ASSUME NEW c \in 1..Len(s), c # i PROVE \E a \in 1..Len(r) : From(a) = c OBVIOUS
  <2>2. CASE c < i
    <3>1. c \in 1..Len(r) /\ From(c) = c BY <1>1, <2>2
    <3>. QED BY <3>1
  <2>3. CASE c > i
    <3>1. c - 1 \in 1..Len(r) /\ From(c - 1) = c BY <1>1, <2>3
    <3>. QED BY <3>1
  <2>. QED BY <2>1, <2>2, <2>3
<1>. HIDE DEF From
<1>6. Once(r) BY <1>2, <1>4 DEF Once
<1>7. Sorted(r, now) BY <1>2, <1>3 DEF Sorted
<1>8. ASSUME NEW x \in ToSet(r) PROVE x \in ToSet(s) /\ x.t # s[i].t
  <2>1. PICK a \in 1..Len(r) : r[a] = x BY <1>1
  <2>2. x = s[From(a)] /\ From(a) \in 1..Len(s) /\ From(a) # i BY <1>2, <2>1
  <2>. QED BY <1>1, <2>2 DEF Once
<1>9. ASSUME NEW x \in ToSet(s), x.t # s[i].t PROVE x \in ToSet(r)
  <2>1. PICK c \in 1..Len(s) : s[c] = x BY <1>1
  <2>2. c # i BY <1>9, <2>1
  <2>3. PICK a \in 1..Len(r) : From(a) = c BY <1>5, <2>2
  <2>4. r[a] = x BY <1>2, <2>1, <2>3
  <2>. QED BY <1>1, <2>4
<1>. QED BY <1>6, <1>7, <1>8, <1>9

LEMMA FirstLeaves ==
    ASSUME NEW now, NEW s \in Seq(Timers), Once(s), Sorted(s, now), s # <<>>
    PROVE /\ Tail(s) \in Seq(Timers) /\ Once(Tail(s)) /\ Sorted(Tail(s), now)
          /\ ToSet(Tail(s)) = {m \in ToSet(s) : m.t # Head(s).t}
<1>1. Len(s) \in Nat /\ Len(s) >= 1 /\ Head(s) = s[1] BY Members, EmptySeq, LenProperties
<1>2. /\ Tail(s) \in Seq(Timers) /\ Len(Tail(s)) = Len(s) - 1
      /\ \A a \in 1..Len(s) - 1 : Tail(s)[a] = s[a + 1]
  BY HeadTailProperties
<1>3. \A a \in 1..Len(s) - 1 : Tail(s)[a] = s[IF a < 1 THEN a ELSE a + 1] BY <1>1, <1>2
<1>4. PICK i \in 1..Len(s) : i = 1 BY <1>1
<1>5. PICK r \in Seq(Timers) : r = Tail(s) BY <1>2
<1>6. Shortened(r, s, i) BY <1>2, <1>3, <1>4, <1>5 DEF Shortened
<1>7. Once(r) /\ Sorted(r, now) /\ ToSet(r) = {m \in ToSet(s) : m.t # s[i].t} BY <1>6, TimerLeaves
<1>. QED BY <1>1, <1>4, <1>5, <1>7

(* One timer comes in where it is due.                                      *)
LEMMA TimerEnters ==
    ASSUME NEW now, NEW s \in Seq(Timers), Once(s), Sorted(s, now), NEW i \in 1..Len(s) + 1,
           NEW m \in Timers, \A x \in ToSet(s) : x.t # m.t,
           \A a \in 1..Len(s) : a < i => Before(now, s[a].at) <= Before(now, m.at),
           \A a \in 1..Len(s) : a >= i => Before(now, m.at) <= Before(now, s[a].at),
           Before(now, m.at) <= Before(now, m.at)
    PROVE /\ InsertAt(s, i, m) \in Seq(Timers) /\ Once(InsertAt(s, i, m))
          /\ Sorted(InsertAt(s, i, m), now)
          /\ ToSet(InsertAt(s, i, m)) = ToSet(s) \cup {m}
<1>1. PICK r : r = InsertAt(s, i, m) OBVIOUS
<1>2. /\ r \in Seq(Timers) /\ Len(r) = Len(s) + 1
      /\ \A a \in 1..Len(s) + 1 : r[a] = IF a < i THEN s[a] ELSE IF a = i THEN m ELSE s[a - 1]
  <2>1. /\ InsertAt(s, i, m) \in Seq(Timers) /\ Len(InsertAt(s, i, m)) = Len(s) + 1
        /\ \A a \in 1..Len(s) + 1 :
             InsertAt(s, i, m)[a] = IF a < i THEN s[a] ELSE IF a = i THEN m ELSE s[a - 1]
    BY InsertedAt
  <2>. QED BY <1>1, <2>1
<1>3. /\ \A x : x \in ToSet(s) <=> \E a \in 1..Len(s) : s[a] = x
      /\ \A x : x \in ToSet(r) <=> \E a \in 1..Len(r) : r[a] = x
      /\ Len(s) \in Nat
  BY <1>2, Members
<1>. DEFINE From(a) == IF a < i THEN a ELSE a - 1
<1>4. \A a \in 1..Len(r) : a # i => From(a) \in 1..Len(s) /\ r[a] = s[From(a)]
  <2>1. SUFFICES ASSUME NEW a \in 1..Len(r), a # i PROVE From(a) \in 1..Len(s) /\ r[a] = s[From(a)]
    OBVIOUS
  <2>2. CASE a < i BY <1>2, <1>3, <2>2
  <2>3. CASE a > i BY <1>2, <1>3, <2>3
  <2>. QED BY <2>1, <2>2, <2>3
<1>5. r[i] = m /\ i \in 1..Len(r) BY <1>2, <1>3
<1>6. \A a, b \in 1..Len(r) : a # i /\ b # i /\ a <= b => From(a) <= From(b) BY <1>3
<1>7. \A a, b \in 1..Len(r) : a # i /\ b # i /\ From(a) = From(b) => a = b BY <1>3
<1>8. \A a \in 1..Len(r) : a # i => (a < i => From(a) < i) /\ (a > i => From(a) >= i) BY <1>3
<1>9. \A c \in 1..Len(s) : \E a \in 1..Len(r) : a # i /\ From(a) = c
  <2>1. SUFFICES ASSUME NEW c \in 1..Len(s) PROVE \E a \in 1..Len(r) : a # i /\ From(a) = c OBVIOUS
  <2>2. CASE c < i
    <3>1. c \in 1..Len(r) /\ From(c) = c /\ c # i BY <1>2, <1>3, <2>2
    <3>. QED BY <3>1
  <2>3. CASE c >= i
    <3>1. c + 1 \in 1..Len(r) /\ From(c + 1) = c /\ c + 1 # i BY <1>2, <1>3, <2>3
    <3>. QED BY <3>1
  <2>. QED BY <2>2, <2>3
<1>. HIDE DEF From
<1>10. Once(r)
  <2>1. ASSUME NEW a \in 1..Len(r), NEW b \in 1..Len(r), r[a].t = r[b].t PROVE a = b
    <3>1. CASE a # i /\ b # i BY <1>4, <1>7, <2>1, <3>1 DEF Once
    <3>2. CASE a = i /\ b # i
      <4>1. r[b] \in ToSet(s) BY <1>3, <1>4, <3>2
      <4>. QED BY <1>5, <2>1, <3>2, <4>1
    <3>3. CASE a # i /\ b = i
      <4>1. r[a] \in ToSet(s) BY <1>3, <1>4, <3>3
      <4>. QED BY <1>5, <2>1, <3>3, <4>1
    <3>. QED BY <3>1, <3>2, <3>3
  <2>. QED BY <2>1 DEF Once
<1>11. Sorted(r, now)
  <2>1. ASSUME NEW a \in 1..Len(r), NEW b \in 1..Len(r), a <= b
        PROVE Before(now, r[a].at) <= Before(now, r[b].at)
    <3>1. CASE a # i /\ b # i BY <1>4, <1>6, <2>1, <3>1 DEF Sorted
    <3>2. CASE a = i /\ b = i BY <1>5, <3>2
    <3>3. CASE a = i /\ b # i
      <4>1. b > i BY <2>1, <3>3
      <4>2. From(b) \in 1..Len(s) /\ From(b) >= i BY <1>4, <1>8, <3>3, <4>1
      <4>. QED BY <1>4, <1>5, <3>3, <4>2
    <3>4. CASE a # i /\ b = i
      <4>1. a < i BY <2>1, <3>4
      <4>2. From(a) \in 1..Len(s) /\ From(a) < i BY <1>4, <1>8, <3>4, <4>1
      <4>. QED BY <1>4, <1>5, <3>4, <4>2
    <3>. QED BY <3>1, <3>2, <3>3, <3>4
  <2>. QED BY <2>1 DEF Sorted
<1>12. ToSet(r) = ToSet(s) \cup {m}
  <2>1. ASSUME NEW x \in ToSet(r) PROVE x \in ToSet(s) \cup {m} BY <1>3, <1>4, <1>5
  <2>2. m \in ToSet(r) BY <1>3, <1>5
  <2>3. ASSUME NEW x \in ToSet(s) PROVE x \in ToSet(r)
    <3>1. PICK c \in 1..Len(s) : s[c] = x BY <1>3
    <3>2. PICK a \in 1..Len(r) : a # i /\ From(a) = c BY <1>9
    <3>3. r[a] = x BY <1>4, <3>1, <3>2
    <3>. QED BY <1>3, <3>3
  <2>. QED BY <2>1, <2>2, <2>3
<1>. QED BY <1>1, <1>2, <1>10, <1>11, <1>12

----------------------------------------------------------------------------
(* What the parts of the kernel do to a sound one.                          *)
LEMMA FieldsOf ==
    ASSUME NEW j \in Kernels
    PROVE /\ j.current \in Everyone /\ j.prio \in [Everyone -> Priorities] /\ j.stat \in [Everyone -> Stats]
          /\ j.yield \in [Everyone -> BOOLEAN] /\ j.ready \in [Priorities -> Seq(Everyone)]
          /\ j.group \subseteq Priorities /\ j.error \in [Everyone -> Errors]
          /\ j.list \in [WaitLists -> Seq(Everyone)] /\ j.timers \in Seq(Timers)
          /\ j.tick \in 0..TickWidth - 1 /\ j.lock \in {0, 1}
BY DEF Kernels

LEMMA SameKernel ==
    ASSUME NEW j \in Kernels, NEW n \in Kernels, SameQueues(j, n), SameClock(j, n),
           n.error = j.error, n.list = j.list, n.timers = j.timers
    PROVE n = j
<1>1. \A x \in Kernels :
        x = [current |-> x.current, prio |-> x.prio, stat |-> x.stat, yield |-> x.yield, ready |-> x.ready,
             group |-> x.group, error |-> x.error, list |-> x.list, timers |-> x.timers, tick |-> x.tick,
             lock |-> x.lock]
  BY DEF Kernels
<1>2. j = [current |-> j.current, prio |-> j.prio, stat |-> j.stat, yield |-> j.yield, ready |-> j.ready,
             group |-> j.group, error |-> j.error, list |-> j.list, timers |-> j.timers, tick |-> j.tick,
             lock |-> j.lock]
  BY <1>1
<1>3. n = [current |-> n.current, prio |-> n.prio, stat |-> n.stat, yield |-> n.yield, ready |-> n.ready,
             group |-> n.group, error |-> n.error, list |-> n.list, timers |-> n.timers, tick |-> n.tick,
             lock |-> n.lock]
  BY <1>1
<1>. QED BY <1>2, <1>3, Zenon DEF SameQueues, SameClock

LEMMA QueuesKept ==
    ASSUME NEW j, NEW n, QueuesSound(j), SameQueues(j, n), n.prio = j.prio
    PROVE QueuesSound(n)
BY DEF QueuesSound, SameQueues, Awake

LEMMA ListsKept ==
    ASSUME NEW j, NEW n, ListsSound(j), n.list = j.list, n.stat = j.stat
    PROVE ListsSound(n)
BY DEF ListsSound

LEMMA TimersKept ==
    ASSUME NEW j, NEW n, TimersSound(j), n.timers = j.timers, n.stat = j.stat, n.tick = j.tick
    PROVE TimersSound(n)
BY DEF TimersSound, Remaining

(* A change of the error, of who yields or of the lock.                     *)
LEMMA MarkIs ==
    ASSUME NEW j, Sound(j), NEW n \in Kernels, n.current = j.current, n.stat = j.stat,
           n.ready = j.ready, n.group = j.group, n.prio = j.prio, n.tick = j.tick,
           n.list = j.list, n.timers = j.timers
    PROVE Sound(n)
BY DEF Sound, QueuesSound, ListsSound, TimersSound, Awake, Remaining

(* Where a thread cannot be.                                                *)
LEMMA NotThere ==
    ASSUME NEW j, Sound(j), NEW t \in Everyone
    PROVE /\ j.stat[t] # "ready" => \A p \in Priorities : t \notin ToSet(j.ready[p])
          /\ j.stat[t] # "suspend" => /\ t \notin ToSet(j.list["wait"]) /\ t \notin ToSet(j.list["send"])
                                      /\ \A m \in ToSet(j.timers) : m.t # t
          /\ j.stat[t] # "close" => t \notin ToSet(j.list["dead"])
BY DEF Sound, QueuesSound, QueuesMatch, ListsSound, TimersSound

Unlinked(j, n, t) ==
    /\ Sound(n) /\ SameQueues(j, n) /\ SameClock(j, n) /\ n.error = j.error /\ n.timers = j.timers
    /\ \A l \in WaitLists : ToSet(n.list[l]) = ToSet(j.list[l]) \ {t}
    /\ (\A l \in WaitLists : t \notin ToSet(j.list[l])) => n = j

LEMMA UnlinkIs ==
    ASSUME NEW j, Sound(j), NEW t \in Everyone, j.stat[t] # "ready", NEW n, n = Unlink(j, t)
    PROVE Unlinked(j, n, t)
<1>1. j \in Kernels /\ QueuesSound(j) /\ ListsSound(j) /\ TimersSound(j) BY DEF Sound
<1>2. j.ready \in [Priorities -> Seq(Everyone)] /\ j.list \in [WaitLists -> Seq(Everyone)]
  BY <1>1, FieldsOf
<1>. DEFINE ready == [p \in Priorities |-> Without(j.ready[p], t)]
            list == [l \in WaitLists |-> Without(j.list[l], t)]
<1>3. n = [j EXCEPT !.ready = ready, !.list = list] BY DEF Unlink
<1>4. ASSUME NEW p \in Priorities PROVE Without(j.ready[p], t) = j.ready[p]
  <2>1. j.ready[p] \in Seq(Everyone) /\ IsInjective(j.ready[p]) BY <1>1, <1>2 DEF QueuesSound, QueuesMatch
  <2>2. t \notin ToSet(j.ready[p]) BY NotThere
  <2>. QED BY <2>1, <2>2, WithoutIs
<1>5. ready = j.ready BY <1>2, <1>4
<1>6. ASSUME NEW l \in WaitLists
      PROVE /\ Without(j.list[l], t) \in Seq(Everyone) /\ IsInjective(Without(j.list[l], t))
            /\ ToSet(Without(j.list[l], t)) = ToSet(j.list[l]) \ {t}
            /\ t \notin ToSet(j.list[l]) => Without(j.list[l], t) = j.list[l]
  <2>1. j.list[l] \in Seq(Everyone) /\ IsInjective(j.list[l]) BY <1>1, <1>2 DEF ListsSound
  <2>. QED BY <2>1, WithoutIs
<1>7. /\ list \in [WaitLists -> Seq(Everyone)]
      /\ \A l \in WaitLists : IsInjective(list[l]) /\ ToSet(list[l]) = ToSet(j.list[l]) \ {t}
      /\ (\A l \in WaitLists : t \notin ToSet(j.list[l])) => list = j.list
  BY <1>2, <1>6
<1>. HIDE DEF ready, list
<1>8. /\ n \in Kernels /\ n.current = j.current /\ n.stat = j.stat /\ n.yield = j.yield /\ n.ready = j.ready
      /\ n.group = j.group /\ n.prio = j.prio /\ n.tick = j.tick /\ n.lock = j.lock
      /\ n.error = j.error /\ n.timers = j.timers /\ n.list = list
  BY <1>1, <1>2, <1>3, <1>5, <1>7 DEF Kernels
<1>9. SameQueues(j, n) /\ SameClock(j, n) BY <1>8 DEF SameQueues, SameClock
<1>10. {"wait", "send", "dead"} = WaitLists BY DEF WaitLists
<1>11. ListsSound(n) BY <1>1, <1>7, <1>8, <1>10 DEF ListsSound
<1>12. Sound(n) BY <1>1, <1>8, <1>9, <1>11, QueuesKept, TimersKept DEF Sound
<1>13. ASSUME \A l \in WaitLists : t \notin ToSet(j.list[l]) PROVE n = j
  <2>1. n.list = j.list BY <1>7, <1>8, <1>13
  <2>. QED BY <1>1, <1>8, <1>9, <2>1, SameKernel
<1>. QED BY <1>7, <1>8, <1>9, <1>12, <1>13 DEF Unlinked

(* rt_list_remove of a thread that runs changes nothing.                    *)
LEMMA RemoveRunning ==
    ASSUME NEW j, Sound(j), NEW t \in Everyone, j.stat[t] = "running"
    PROVE RemoveThread(j, t) = j
<1>1. j \in Kernels /\ QueuesSound(j) BY DEF Sound
<1>2. \A l \in WaitLists : t \notin ToSet(j.list[l]) BY NotThere DEF WaitLists
<1>3. Unlink(j, t) = j
  <2>1. Unlinked(j, Unlink(j, t), t) BY UnlinkIs
  <2>. QED BY <1>2, <2>1 DEF Unlinked
<1>4. j.prio[t] \in Priorities BY <1>1, FieldsOf
<1>5. (IF j.ready[j.prio[t]] = <<>> THEN j.group \ {j.prio[t]} ELSE j.group) = j.group
  BY <1>1, <1>4 DEF QueuesSound, QueuesMatch
<1>. QED BY <1>1, <1>3, <1>5 DEF RemoveThread, Kernels

LEMMA TimerStopIs ==
    ASSUME NEW j, Sound(j), NEW t \in Everyone, NEW n, n = TimerStop(j, t)
    PROVE /\ Sound(n) /\ SameQueues(j, n) /\ SameClock(j, n) /\ n.error = j.error /\ n.list = j.list
          /\ ToSet(n.timers) = {m \in ToSet(j.timers) : m.t # t}
          /\ (\A m \in ToSet(j.timers) : m.t # t) => n = j
<1>1. j \in Kernels /\ QueuesSound(j) /\ ListsSound(j) /\ TimersSound(j) BY DEF Sound
<1>2. j.timers \in Seq(Timers) BY <1>1, FieldsOf
<1>3. \A x : x \in ToSet(j.timers) <=> \E i \in 1..Len(j.timers) : j.timers[i] = x BY <1>2, Members
<1>4. CASE TimersOf(j, t) = {}
  <2>1. \A i \in 1..Len(j.timers) : j.timers[i].t # t BY <1>4 DEF TimersOf
  <2>2. n = j BY <1>4 DEF TimerStop
  <2>. QED BY <1>3, <2>1, <2>2 DEF SameQueues, SameClock
<1>5. CASE TimersOf(j, t) # {}
  <2>1. PICK i \in TimersOf(j, t) : i = CHOOSE h \in TimersOf(j, t) : TRUE BY <1>5
  <2>2. i \in 1..Len(j.timers) /\ j.timers[i].t = t BY <2>1 DEF TimersOf
  <2>3. PICK r : r = RemoveAt(j.timers, i) OBVIOUS
  <2>4. n = [j EXCEPT !.timers = r] BY <1>5, <2>1, <2>3 DEF TimerStop
  <2>5. /\ r \in Seq(Timers) /\ Len(r) = Len(j.timers) - 1
        /\ \A a \in 1..Len(j.timers) - 1 : r[a] = j.timers[IF a < i THEN a ELSE a + 1]
    BY <1>2, <2>2, <2>3, RemovedAt
  <2>6. Once(r) /\ Sorted(r, j.tick) /\ ToSet(r) = {m \in ToSet(j.timers) : m.t # j.timers[i].t}
    <3>1. Once(j.timers) /\ Sorted(j.timers, j.tick) BY <1>1 DEF TimersSound
    <3>2. PICK s \in Seq(Timers) : s = j.timers BY <1>2
    <3>3. Once(s) /\ Sorted(s, j.tick) /\ i \in 1..Len(s) BY <2>2, <3>1, <3>2
    <3>4. Shortened(r, s, i) BY <2>5, <3>2 DEF Shortened
    <3>5. Once(r) /\ Sorted(r, j.tick) /\ ToSet(r) = {m \in ToSet(s) : m.t # s[i].t}
      BY <2>5, <3>3, <3>4, TimerLeaves
    <3>. QED BY <3>2, <3>5
  <2>7. /\ n \in Kernels /\ n.current = j.current /\ n.stat = j.stat /\ n.yield = j.yield /\ n.ready = j.ready
        /\ n.group = j.group /\ n.prio = j.prio /\ n.tick = j.tick /\ n.lock = j.lock
        /\ n.error = j.error /\ n.list = j.list /\ n.timers = r
    BY <1>1, <2>4, <2>5 DEF Kernels
  <2>8. TimersSound(n) BY <1>1, <2>6, <2>7 DEF TimersSound, Remaining
  <2>9. SameQueues(j, n) /\ SameClock(j, n) BY <2>7 DEF SameQueues, SameClock
  <2>10. Sound(n) BY <1>1, <2>7, <2>8, <2>9, QueuesKept, ListsKept DEF Sound
  <2>11. j.timers[i] \in ToSet(j.timers) /\ ~\A m \in ToSet(j.timers) : m.t # t BY <1>3, <2>2
  <2>. QED BY <2>2, <2>6, <2>7, <2>9, <2>10, <2>11
<1>. QED BY <1>4, <1>5

(* A timer set for a suspended thread that has none.                        *)
LEMMA TimerStartIs ==
    ASSUME NEW j, Sound(j), NEW t \in Everyone, j.stat[t] = "suspend",
           \A m \in ToSet(j.timers) : m.t # t, NEW c \in 1..Half - 1, NEW n, n = TimerStart(j, t, c)
    PROVE /\ Sound(n) /\ SameQueues(j, n) /\ SameClock(j, n) /\ n.error = j.error /\ n.list = j.list
          /\ \E m \in Timers : /\ m.t = t /\ Remaining(j, m) = c
                               /\ ToSet(n.timers) = ToSet(j.timers) \cup {m}
<1>1. j \in Kernels /\ QueuesSound(j) /\ ListsSound(j) /\ TimersSound(j) BY DEF Sound
<1>2. j.timers \in Seq(Timers) /\ j.tick \in 0..TickWidth - 1 BY <1>1, FieldsOf
<1>3. TimerStop(j, t) = j BY TimerStopIs
<1>4. c \in 0..TickWidth - 1 /\ c \in Nat BY Halves
<1>5. PICK at \in 0..TickWidth - 1 : at = (j.tick + c) % TickWidth /\ Before(j.tick, at) = c
  BY <1>2, <1>4, Ahead
<1>6. PICK m \in Timers : m = [t |-> t, at |-> at] BY <1>5 DEF Timers
<1>. DEFINE behind == {i \in 1..Len(j.timers) : Later(j.timers[i], at)}
            place == IF behind = {} THEN Len(j.timers) + 1 ELSE Lowest(behind)
<1>7. n = [j EXCEPT !.timers = InsertAt(j.timers, place, m)]
  BY <1>3, <1>5, <1>6 DEF TimerStart
<1>8. /\ \A x : x \in ToSet(j.timers) <=> \E a \in 1..Len(j.timers) : j.timers[a] = x
      /\ Len(j.timers) \in Nat
  BY <1>2, Members
<1>9. ASSUME NEW a \in 1..Len(j.timers)
      PROVE Before(j.tick, j.timers[a].at) \in Nat /\ (a \in behind <=> Before(j.tick, j.timers[a].at) > c)
  <2>1. j.timers[a] \in Timers /\ j.timers[a] \in ToSet(j.timers) BY <1>2, <1>8, ElementOfSeq
  <2>2. j.timers[a].at \in 0..TickWidth - 1 /\ Before(j.tick, j.timers[a].at) \in Nat
    BY <1>2, <2>1, TimerIs
  <2>3. Before(j.tick, j.timers[a].at) < Half BY <1>1, <2>1 DEF TimersSound, Remaining
  <2>4. Before(at, j.timers[a].at) \in 1..Half - 1 <=> Before(j.tick, j.timers[a].at) > c
    <3>1. PICK b \in 0..TickWidth - 1 : b = j.timers[a].at BY <2>2
    <3>2. Before(j.tick, b) < Half /\ Before(j.tick, at) < Half BY <1>5, <2>3, <3>1, Halves
    <3>3. Before(at, b) \in 1..Half - 1 <=> Before(j.tick, b) > Before(j.tick, at)
      BY <1>2, <3>2, Compared
    <3>. QED BY <1>5, <3>1, <3>3
  <2>. QED BY <2>2, <2>4 DEF Later
<1>10. behind \subseteq 1..Len(j.timers) OBVIOUS
<1>. HIDE DEF behind
<1>11. /\ place \in 1..Len(j.timers) + 1
       /\ \A a \in 1..Len(j.timers) : a < place => Before(j.tick, j.timers[a].at) <= c
       /\ \A a \in 1..Len(j.timers) : a >= place => c <= Before(j.tick, j.timers[a].at)
  <2>1. CASE behind = {} BY <1>4, <1>8, <1>9, <2>1
  <2>2. CASE behind # {}
    <3>1. behind \in SUBSET Nat BY <1>8, <1>10
    <3>2. PICK i \in behind : i = Lowest(behind) /\ \A q \in behind : i <= q BY <2>2, <3>1, LowestIs
    <3>3. place = i /\ i \in 1..Len(j.timers) BY <1>10, <2>2, <3>2
    <3>4. \A a \in 1..Len(j.timers) : a < i => a \notin behind BY <3>2, <3>3
    <3>5. Before(j.tick, j.timers[i].at) > c BY <1>9, <3>2, <3>3
    <3>6. \A a \in 1..Len(j.timers) : a >= i => Before(j.tick, j.timers[i].at) <= Before(j.tick, j.timers[a].at)
      BY <1>1, <3>3 DEF TimersSound, Sorted
    <3>7. \A a \in 1..Len(j.timers) : a >= i => c <= Before(j.tick, j.timers[a].at)
      BY <1>4, <1>9, <3>3, <3>5, <3>6
    <3>8. \A a \in 1..Len(j.timers) : a < i => Before(j.tick, j.timers[a].at) <= c
      BY <1>4, <1>9, <3>4
    <3>9. i \in 1..Len(j.timers) + 1 BY <1>8, <3>3
    <3>. HIDE DEF place
    <3>. QED BY <3>3, <3>7, <3>8, <3>9
  <2>. QED BY <2>1, <2>2
<1>. HIDE DEF place
<1>12. m.t = t /\ m.at = at BY <1>6
<1>13. PICK r : r = InsertAt(j.timers, place, m) OBVIOUS
<1>14. r \in Seq(Timers) /\ Once(r) /\ Sorted(r, j.tick) /\ ToSet(r) = ToSet(j.timers) \cup {m}
  <2>1. Once(j.timers) /\ Sorted(j.timers, j.tick) BY <1>1 DEF TimersSound
  <2>2. \A x \in ToSet(j.timers) : x.t # m.t BY <1>12
  <2>3. /\ \A a \in 1..Len(j.timers) : a < place => Before(j.tick, j.timers[a].at) <= Before(j.tick, m.at)
        /\ \A a \in 1..Len(j.timers) : a >= place => Before(j.tick, m.at) <= Before(j.tick, j.timers[a].at)
        /\ Before(j.tick, m.at) <= Before(j.tick, m.at)
    BY <1>4, <1>5, <1>11, <1>12
  <2>4. PICK s \in Seq(Timers) : s = j.timers BY <1>2
  <2>5. PICK i \in 1..Len(s) + 1 : i = place BY <1>11, <2>4
  <2>6. /\ Once(s) /\ Sorted(s, j.tick) /\ (\A x \in ToSet(s) : x.t # m.t)
        /\ (\A a \in 1..Len(s) : a < i => Before(j.tick, s[a].at) <= Before(j.tick, m.at))
        /\ (\A a \in 1..Len(s) : a >= i => Before(j.tick, m.at) <= Before(j.tick, s[a].at))
        /\ Before(j.tick, m.at) <= Before(j.tick, m.at)
    BY <2>1, <2>2, <2>3, <2>4, <2>5
  <2>7. /\ InsertAt(s, i, m) \in Seq(Timers) /\ Once(InsertAt(s, i, m))
        /\ Sorted(InsertAt(s, i, m), j.tick)
        /\ ToSet(InsertAt(s, i, m)) = ToSet(s) \cup {m}
    BY <2>6, TimerEnters
  <2>. QED BY <1>13, <2>4, <2>5, <2>7
<1>15. /\ n \in Kernels /\ n.current = j.current /\ n.stat = j.stat /\ n.yield = j.yield /\ n.ready = j.ready
       /\ n.group = j.group /\ n.prio = j.prio /\ n.tick = j.tick /\ n.lock = j.lock
       /\ n.error = j.error /\ n.list = j.list /\ n.timers = r
  BY <1>1, <1>7, <1>13, <1>14 DEF Kernels
<1>16. Remaining(j, m) = c /\ c < Half BY <1>5, <1>12, Halves DEF Remaining
<1>17. TimersSound(n) BY <1>1, <1>12, <1>14, <1>15, <1>16 DEF TimersSound, Remaining
<1>18. SameQueues(j, n) /\ SameClock(j, n) BY <1>15 DEF SameQueues, SameClock
<1>19. Sound(n) BY <1>1, <1>15, <1>17, <1>18, QueuesKept, ListsKept DEF Sound
<1>. QED BY <1>12, <1>14, <1>15, <1>16, <1>18, <1>19

----------------------------------------------------------------------------
(* The queues of the threads that are ready.                                *)
InQueue(prio, stat, ready, group, t, r, g, st) ==
    /\ r = [ready EXCEPT ![prio[t]] = Append(@, t)] \/ r = [ready EXCEPT ![prio[t]] = <<t>> \o @]
    /\ g = group \cup {prio[t]} /\ st = [stat EXCEPT ![t] = "ready"]
OutOfQueue(prio, stat, ready, group, t, r, g, st) ==
    /\ r = [p \in Priorities |-> Without(ready[p], t)]
    /\ g = IF r[prio[t]] = <<>> THEN group \ {prio[t]} ELSE group
    /\ \E s \in Stats : s # "ready" /\ st = [stat EXCEPT ![t] = s]

LEMMA QueueIn ==
    ASSUME NEW prio \in [Everyone -> Priorities], NEW stat \in [Everyone -> Stats],
           NEW ready \in [Priorities -> Seq(Everyone)], NEW group, QueuesMatch(ready, group, stat, prio),
           NEW t \in Everyone, stat[t] # "ready",
           NEW r, NEW g, NEW st, InQueue(prio, stat, ready, group, t, r, g, st)
    PROVE r \in [Priorities -> Seq(Everyone)] /\ QueuesMatch(r, g, st, prio)
<1>1. PICK p \in Priorities : p = prio[t] OBVIOUS
<1>2. PICK s \in Seq(Everyone) : s = ready[p] BY <1>1
<1>3. IsInjective(s) /\ t \notin ToSet(s) BY <1>1, <1>2 DEF QueuesMatch
<1>7. PICK q : /\ q = Append(ready[prio[t]], t) \/ q = <<t>> \o ready[prio[t]]
               /\ r = [ready EXCEPT ![prio[t]] = q]
  BY DEF InQueue
<1>4. q \in Seq(Everyone) /\ IsInjective(q) /\ ToSet(q) = ToSet(s) \cup {t}
  <2>1. /\ Append(s, t) \in Seq(Everyone) /\ IsInjective(Append(s, t))
        /\ ToSet(Append(s, t)) = ToSet(s) \cup {t}
    BY <1>3, AppendIs
  <2>2. <<t>> \o s \in Seq(Everyone) /\ IsInjective(<<t>> \o s) /\ ToSet(<<t>> \o s) = ToSet(s) \cup {t}
    BY <1>3, PrependIs
  <2>3. q = Append(s, t) \/ q = <<t>> \o s BY <1>1, <1>2, <1>7
  <2>. QED BY <2>1, <2>2, <2>3
<1>5. q # <<>> BY <1>4, Members
<1>8. r \in [Priorities -> Seq(Everyone)] /\ r[p] = q /\ \A x \in Priorities : x # p => r[x] = ready[x]
  BY <1>1, <1>7, <1>4
<1>9. st[t] = "ready" /\ \A x \in Everyone : x # t => st[x] = stat[x] BY DEF InQueue
<1>10. \A x \in Priorities : IsInjective(r[x]) BY <1>4, <1>8 DEF QueuesMatch
<1>11. ASSUME NEW x \in Priorities PROVE ToSet(r[x]) = {u \in Everyone : st[u] = "ready" /\ prio[u] = x}
  <2>1. ToSet(ready[x]) = {u \in Everyone : stat[u] = "ready" /\ prio[u] = x} BY DEF QueuesMatch
  <2>2. CASE x = p BY <1>1, <1>2, <1>4, <1>8, <1>9, <2>1, <2>2
  <2>3. CASE x # p BY <1>1, <1>8, <1>9, <2>1, <2>3
  <2>. QED BY <2>2, <2>3
<1>12. group \cup {p} = {x \in Priorities : r[x] # <<>>} BY <1>5, <1>8 DEF QueuesMatch
<1>13. g = group \cup {p} BY <1>1 DEF InQueue
<1>. QED BY <1>8, <1>10, <1>11, <1>12, <1>13 DEF QueuesMatch

LEMMA QueueOut ==
    ASSUME NEW prio \in [Everyone -> Priorities], NEW stat \in [Everyone -> Stats],
           NEW ready \in [Priorities -> Seq(Everyone)], NEW group, QueuesMatch(ready, group, stat, prio),
           NEW t \in Everyone, NEW r, NEW g, NEW st, OutOfQueue(prio, stat, ready, group, t, r, g, st)
    PROVE /\ r \in [Priorities -> Seq(Everyone)]
          /\ QueuesMatch(r, g, st, prio)
<1>0. r = [p \in Priorities |-> Without(ready[p], t)] BY DEF OutOfQueue
<1>1. ASSUME NEW p \in Priorities
      PROVE r[p] \in Seq(Everyone) /\ IsInjective(r[p]) /\ ToSet(r[p]) = ToSet(ready[p]) \ {t}
            /\ (t \notin ToSet(ready[p]) => r[p] = ready[p])
  <2>1. ready[p] \in Seq(Everyone) /\ IsInjective(ready[p]) /\ r[p] = Without(ready[p], t)
    BY <1>0 DEF QueuesMatch
  <2>. QED BY <2>1, WithoutIs
<1>2. r \in [Priorities -> Seq(Everyone)] BY <1>0, <1>1
<1>4. st[t] # "ready" /\ \A x \in Everyone : x # t => st[x] = stat[x] BY DEF OutOfQueue
<1>5. ASSUME NEW x \in Priorities PROVE ToSet(r[x]) = {u \in Everyone : st[u] = "ready" /\ prio[u] = x}
  <2>1. ToSet(ready[x]) = {u \in Everyone : stat[u] = "ready" /\ prio[u] = x} BY DEF QueuesMatch
  <2>. QED BY <1>1, <1>4, <2>1
<1>6. PICK p \in Priorities : p = prio[t] OBVIOUS
<1>7. \A x \in Priorities : x # p => r[x] = ready[x] BY <1>1, <1>6 DEF QueuesMatch
<1>8. g = IF r[p] = <<>> THEN group \ {p} ELSE group BY <1>6 DEF OutOfQueue
<1>9. ready[p] = <<>> => r[p] = <<>>
  <2>1. ready[p] = <<>> => t \notin ToSet(ready[p]) BY <1>2, Members
  <2>. QED BY <1>1, <2>1
<1>10. g = {x \in Priorities : r[x] # <<>>} BY <1>6, <1>7, <1>8, <1>9 DEF QueuesMatch
<1>. QED BY <1>1, <1>2, <1>5, <1>10 DEF QueuesMatch

(* The lists and the timers do not see which thread runs.                   *)
LEMMA WaitersKept ==
    ASSUME NEW j, Sound(j), NEW n, SameStatus(j, n), n.list = j.list, n.timers = j.timers, n.tick = j.tick
    PROVE ListsSound(n) /\ TimersSound(n)
<1>1. ListsSound(j) /\ TimersSound(j) /\ j \in Kernels BY DEF Sound
<1>2. \A t \in Everyone : j.stat[t] = "suspend" => n.stat[t] = "suspend" BY DEF SameStatus, Awake
<1>3. \A t \in Everyone : j.stat[t] = "close" => n.stat[t] = "close" BY DEF SameStatus, Awake
<1>4. ListsSound(n) BY <1>1, <1>2, <1>3 DEF ListsSound
<1>5. \A m \in ToSet(j.timers) : m.t \in Everyone
  <2>1. j.timers \in Seq(Timers) BY <1>1, FieldsOf
  <2>2. ToSet(j.timers) \subseteq Timers BY <2>1, Members
  <2>. QED BY <2>2 DEF Timers
<1>6. TimersSound(n) BY <1>1, <1>2, <1>5 DEF TimersSound, Remaining
<1>. QED BY <1>4, <1>6

(* A suspended thread that nothing waits for or times is made ready, or     *)
(* runs on if it was on its way to rt_schedule.                             *)
LEMMA InsertIs ==
    ASSUME NEW j, Sound(j), NEW t \in Everyone, j.stat[t] = "suspend",
           t \notin ToSet(j.list["wait"]), t \notin ToSet(j.list["send"]), \A m \in ToSet(j.timers) : m.t # t,
           NEW n, n = InsertThread(j, t)
    PROVE /\ Sound(n) /\ SameClock(j, n) /\ n.current = j.current
          /\ n.error = j.error /\ n.list = j.list /\ n.timers = j.timers
          /\ n.stat[t] = (IF t = j.current THEN "running" ELSE "ready")
          /\ \A u \in Everyone : u # t => n.stat[u] = j.stat[u]
<1>1. j \in Kernels /\ QueuesSound(j) /\ ListsSound(j) /\ TimersSound(j) BY DEF Sound
<1>2. /\ j.current \in Everyone /\ j.prio \in [Everyone -> Priorities] /\ j.stat \in [Everyone -> Stats]
      /\ j.ready \in [Priorities -> Seq(Everyone)] /\ j.group \subseteq Priorities
  BY <1>1, FieldsOf
<1>3. "running" \in Stats /\ "ready" \in Stats BY DEF Stats
<1>4. Idle # t BY <1>1 DEF QueuesSound, Awake
<1>5. /\ n \in Kernels /\ n.current = j.current /\ n.prio = j.prio /\ n.tick = j.tick /\ n.lock = j.lock
      /\ n.error = j.error /\ n.list = j.list /\ n.timers = j.timers
      /\ n.stat = [j.stat EXCEPT ![t] = IF t = j.current THEN "running" ELSE "ready"]
      /\ QueuesMatch(n.ready, n.group, n.stat, n.prio)
  <2>1. CASE t = j.current
    <3>1. n = [j EXCEPT !.stat[t] = "running"] BY <2>1 DEF InsertThread
    <3>2. PICK st \in [Everyone -> Stats] : st = [j.stat EXCEPT ![t] = "running"] BY <1>2, <1>3
    <3>3. n = [j EXCEPT !.stat = st] BY <3>1, <3>2
    <3>4. /\ n \in Kernels /\ n.current = j.current /\ n.prio = j.prio /\ n.tick = j.tick /\ n.lock = j.lock
          /\ n.error = j.error /\ n.list = j.list /\ n.timers = j.timers /\ n.stat = st
          /\ n.ready = j.ready /\ n.group = j.group
      BY <1>1, <3>3 DEF Kernels
    <3>5. QueuesMatch(n.ready, n.group, n.stat, n.prio) BY <1>1, <1>2, <3>2, <3>4 DEF QueuesSound, QueuesMatch
    <3>. QED BY <2>1, <3>2, <3>4, <3>5
  <2>2. CASE t # j.current
    <3>1. PICK q : q = IF j.yield[t] THEN Append(j.ready[j.prio[t]], t) ELSE <<t>> \o j.ready[j.prio[t]] OBVIOUS
    <3>2. PICK st \in [Everyone -> Stats] : st = [j.stat EXCEPT ![t] = "ready"] BY <1>2, <1>3
    <3>3. PICK r : r = [j.ready EXCEPT ![j.prio[t]] = q] OBVIOUS
    <3>4. PICK g \in SUBSET Priorities : g = j.group \cup {j.prio[t]} BY <1>2
    <3>5. n = [j EXCEPT !.stat = st, !.ready = r, !.group = g]
      BY <1>1, <2>2, <3>1, <3>2, <3>3, <3>4 DEF InsertThread
    <3>6. QueuesMatch(j.ready, j.group, j.stat, j.prio) BY <1>1 DEF QueuesSound
    <3>7. InQueue(j.prio, j.stat, j.ready, j.group, t, r, g, st) BY <3>1, <3>2, <3>3, <3>4 DEF InQueue
    <3>8. r \in [Priorities -> Seq(Everyone)] /\ QueuesMatch(r, g, st, j.prio)
      BY <1>2, <3>6, <3>7, QueueIn
    <3>9. /\ n \in Kernels /\ n.current = j.current /\ n.prio = j.prio /\ n.tick = j.tick /\ n.lock = j.lock
          /\ n.error = j.error /\ n.list = j.list /\ n.timers = j.timers /\ n.stat = st
          /\ n.ready = r /\ n.group = g
      BY <1>1, <3>5, <3>8 DEF Kernels
    <3>. QED BY <2>2, <3>2, <3>8, <3>9
  <2>. QED BY <2>1, <2>2
<1>6. n.stat[t] = (IF t = j.current THEN "running" ELSE "ready") BY <1>2, <1>5
<1>7. \A u \in Everyone : u # t => n.stat[u] = j.stat[u] BY <1>2, <1>5
<1>8. QueuesSound(n)
  <2>1. n.stat[n.current] # "ready" BY <1>1, <1>2, <1>5, <1>6, <1>7 DEF QueuesSound
  <2>2. \A u \in Everyone : n.stat[u] = "running" => u = n.current BY <1>1, <1>5, <1>6, <1>7 DEF QueuesSound
  <2>3. Awake(n, Idle) BY <1>1, <1>4, <1>7 DEF QueuesSound, Awake, Everyone
  <2>. QED BY <1>5, <2>1, <2>2, <2>3 DEF QueuesSound
<1>9. ListsSound(n)
  <2>1. t \notin ToSet(j.list["dead"]) BY NotThere
  <2>. QED BY <1>1, <1>5, <1>7, <2>1 DEF ListsSound
<1>10. TimersSound(n)
  <2>1. \A m \in ToSet(j.timers) : m.t \in Everyone
    <3>1. j.timers \in Seq(Timers) BY <1>1, FieldsOf
    <3>2. ToSet(j.timers) \subseteq Timers BY <3>1, Members
    <3>. QED BY <3>2 DEF Timers
  <2>. QED BY <1>1, <1>5, <1>7, <2>1 DEF TimersSound, Remaining
<1>. QED BY <1>5, <1>6, <1>7, <1>8, <1>9, <1>10 DEF Sound, SameClock

----------------------------------------------------------------------------
(* rt_schedule.                                                             *)
LEMMA ScheduleIs ==
    ASSUME NEW j, Sound(j), NEW n, n = Schedule(j)
    PROVE /\ Sound(n) /\ SameStatus(j, n) /\ SameClock(j, n)
          /\ n.error = j.error /\ n.list = j.list /\ n.timers = j.timers
          /\ j.lock # 0 => n = j
          /\ j.lock = 0 => Highest(n) /\ n.stat[n.current] = "running"
<1>1. j \in Kernels /\ QueuesSound(j) /\ ListsSound(j) /\ TimersSound(j) BY DEF Sound
<1>2. /\ j.current \in Everyone /\ j.prio \in [Everyone -> Priorities] /\ j.stat \in [Everyone -> Stats]
      /\ j.ready \in [Priorities -> Seq(Everyone)] /\ j.group \subseteq Priorities
      /\ j.yield \in [Everyone -> BOOLEAN] /\ j.lock \in {0, 1} /\ j.list \in [WaitLists -> Seq(Everyone)]
  BY <1>1, FieldsOf
<1>3. Priorities \subseteq Nat BY KernelAssumption DEF Priorities
<1>4. SameStatus(j, j) /\ SameClock(j, j) BY DEF SameStatus, SameClock
<1>5. CASE j.lock # 0
  <2>1. j.lock > 0 BY <1>2, <1>5
  <2>. QED BY <1>4, <1>5, <2>1 DEF Schedule
<1>6. CASE j.lock = 0 /\ j.group = {}
  <2>1. n = j BY <1>6 DEF Schedule
  <2>2. Idle \in Everyone BY DEF Everyone
  <2>3. \A p \in Priorities : j.ready[p] = <<>> BY <1>1, <1>6 DEF QueuesSound, QueuesMatch
  <2>4. \A p \in Priorities : ToSet(j.ready[p]) = {} BY <1>2, <2>3, Members
  <2>5. j.stat[Idle] # "ready"
    <3>1. PICK p \in Priorities : p = j.prio[Idle] BY <1>2, <2>2
    <3>2. {t \in Everyone : j.stat[t] = "ready" /\ j.prio[t] = p} = {}
      BY <1>1, <2>4 DEF QueuesSound, QueuesMatch
    <3>. QED BY <2>2, <3>1, <3>2
  <2>6. j.stat[Idle] = "running" BY <1>1, <2>5 DEF QueuesSound, Awake
  <2>7. j.stat[j.current] = "running" BY <1>1, <2>2, <2>6 DEF QueuesSound
  <2>8. Highest(n) BY <1>6, <2>1 DEF Highest
  <2>. QED BY <1>4, <1>6, <2>1, <2>7, <2>8
<1>7. CASE j.lock = 0 /\ j.group # {}
  <2>. DEFINE from == j.current
              running == j.stat[from] = "running"
              asked == IF running THEN [j EXCEPT !.yield[from] = FALSE] ELSE j
              switched == [asked EXCEPT !.current = Head(j.ready[Lowest(j.group)])]
              kept == IF running THEN InsertThread(switched, from) ELSE switched
              stays == running /\ (j.prio[from] < Lowest(j.group) \/ (j.prio[from] = Lowest(j.group) /\ ~j.yield[from]))
  <2>0. n = IF stays THEN [RemoveThread(asked, from) EXCEPT !.stat[from] = "running"]
            ELSE [RemoveThread(kept, Head(j.ready[Lowest(j.group)]))
                    EXCEPT !.stat[Head(j.ready[Lowest(j.group)])] = "running"]
    <3>1. ~(j.lock > 0 \/ j.group = {}) BY <1>7
    <3>. QED BY <3>1 DEF Schedule
  <2>1. PICK top \in Priorities : top = Lowest(j.group) /\ top \in j.group /\ \A q \in j.group : top <= q
    <3>1. j.group \in SUBSET Nat BY <1>2, <1>3
    <3>2. Lowest(j.group) \in j.group /\ \A q \in j.group : Lowest(j.group) <= q BY <1>7, <3>1, LowestIs
    <3>. QED BY <1>2, <3>2
  <2>2. j.ready[top] # <<>> BY <1>1, <2>1 DEF QueuesSound, QueuesMatch
  <2>3. PICK next \in Everyone : next = Head(j.ready[top]) /\ next \in ToSet(j.ready[top])
    <3>1. j.ready[top] \in Seq(Everyone) BY <1>2
    <3>. QED BY <2>2, <3>1, Members
  <2>4. j.stat[next] = "ready" /\ j.prio[next] = top BY <1>1, <2>3 DEF QueuesSound, QueuesMatch
  <2>5. next # from BY <1>1, <2>4 DEF QueuesSound
  <2>6. PICK a : a = asked OBVIOUS
  <2>7. PICK y \in [Everyone -> BOOLEAN] : y = IF running THEN [j.yield EXCEPT ![from] = FALSE] ELSE j.yield
    BY <1>2
  <2>8. a = [j EXCEPT !.yield = y]
    <3>1. CASE running BY <2>6, <2>7, <3>1 DEF asked
    <3>2. CASE ~running
      <4>1. a = j /\ y = j.yield BY <2>6, <2>7, <3>2 DEF asked
      <4>. QED BY <1>1, <4>1 DEF Kernels
    <3>. QED BY <3>1, <3>2
  <2>9. /\ a \in Kernels /\ a.current = j.current /\ a.stat = j.stat /\ a.ready = j.ready /\ a.group = j.group
        /\ a.prio = j.prio /\ a.tick = j.tick /\ a.lock = j.lock /\ a.list = j.list /\ a.timers = j.timers
        /\ a.error = j.error /\ a.yield = y
    BY <1>1, <2>8 DEF Kernels
  <2>10. Sound(a) BY <2>9, MarkIs

  <2>. HIDE DEF kept, asked
  <2>11. CASE stays
    <3>1. n = [RemoveThread(a, from) EXCEPT !.stat[from] = "running"] BY <2>0, <2>6, <2>11
    <3>2. RemoveThread(a, from) = a BY <1>2, <2>9, <2>10, <2>11, RemoveRunning
    <3>3. n = [a EXCEPT !.stat = [j.stat EXCEPT ![from] = "running"]] BY <2>9, <3>1, <3>2
    <3>4. [j.stat EXCEPT ![from] = "running"] = j.stat BY <1>2, <2>11
    <3>5. n = a BY <2>9, <3>3, <3>4 DEF Kernels
    <3>6. SameStatus(j, n) /\ SameClock(j, n) BY <2>9, <3>5 DEF SameStatus, SameClock, Awake
    <3>7. \A p \in j.group : j.prio[from] <= p
      <4>1. j.prio[from] < top \/ j.prio[from] = top BY <2>1, <2>11
      <4>2. j.prio[from] \in Nat /\ top \in Nat /\ j.group \subseteq Nat BY <1>2, <1>3
      <4>. QED BY <2>1, <4>1, <4>2
    <3>8. Highest(n) BY <2>9, <3>5, <3>7 DEF Highest
    <3>. QED BY <1>7, <2>9, <2>10, <2>11, <3>5, <3>6, <3>8
  <2>12. CASE ~stays
    <3>1. PICK w : w = kept OBVIOUS
    <3>2. n = [RemoveThread(w, next) EXCEPT !.stat[next] = "running"]
      <4>1. next = Head(j.ready[Lowest(j.group)]) BY <2>1, <2>3
      <4>. QED BY <2>0, <2>12, <3>1, <4>1
    <3>3. PICK st \in [Everyone -> Stats] : st = IF running THEN [j.stat EXCEPT ![from] = "ready"] ELSE j.stat
      <4>1. "ready" \in Stats BY DEF Stats
      <4>. QED BY <1>2, <4>1
    <3>4. PICK r : r = IF running THEN [j.ready EXCEPT ![j.prio[from]] = <<from>> \o j.ready[j.prio[from]]]
                                  ELSE j.ready
      OBVIOUS
    <3>5. PICK g \in SUBSET Priorities : g = IF running THEN j.group \cup {j.prio[from]} ELSE j.group
      BY <1>2
    <3>6. QueuesMatch(j.ready, j.group, j.stat, j.prio) BY <1>1 DEF QueuesSound
    <3>7. r \in [Priorities -> Seq(Everyone)] /\ QueuesMatch(r, g, st, j.prio)
      <4>1. CASE running
        <5>1. j.stat[from] # "ready" BY <4>1
        <5>2. InQueue(j.prio, j.stat, j.ready, j.group, from, r, g, st)
          BY <3>3, <3>4, <3>5, <4>1 DEF InQueue
        <5>. QED BY <1>2, <3>6, <5>1, <5>2, QueueIn
      <4>2. CASE ~running BY <1>2, <3>3, <3>4, <3>5, <3>6, <4>2
      <4>. QED BY <4>1, <4>2
    <3>8. w = [a EXCEPT !.current = next, !.stat = st, !.ready = r, !.group = g]
      <4>1. PICK sw : sw = [a EXCEPT !.current = next] OBVIOUS
      <4>2. /\ sw \in Kernels /\ sw.current = next /\ sw.stat = j.stat /\ sw.ready = j.ready
            /\ sw.group = j.group /\ sw.prio = j.prio /\ sw.yield = y
        BY <2>9, <4>1 DEF Kernels
      <4>3. CASE running
        <5>1. w = InsertThread(sw, from)
          <6>1. switched = sw BY <2>1, <2>3, <2>6, <4>1
          <6>. QED BY <3>1, <4>3, <6>1 DEF kept
        <5>2. y[from] = FALSE BY <1>2, <2>7, <4>3
        <5>3. w = [sw EXCEPT !.stat = st, !.ready = r, !.group = g]
          BY <2>5, <3>3, <3>4, <3>5, <4>2, <4>3, <5>1, <5>2 DEF InsertThread
        <5>. QED BY <4>1, <5>3
      <4>4. CASE ~running
        <5>1. w = sw BY <2>1, <2>3, <2>6, <3>1, <4>1, <4>4 DEF kept
        <5>2. st = a.stat /\ r = a.ready /\ g = a.group BY <2>9, <3>3, <3>4, <3>5, <4>4
        <5>. QED BY <2>9, <4>1, <5>1, <5>2 DEF Kernels
      <4>. QED BY <4>3, <4>4
    <3>9. /\ w \in Kernels /\ w.current = next /\ w.stat = st /\ w.ready = r /\ w.group = g
          /\ w.prio = j.prio /\ w.tick = j.tick /\ w.lock = j.lock /\ w.list = j.list /\ w.timers = j.timers
          /\ w.error = j.error /\ w.yield = y
      BY <2>9, <3>7, <3>8 DEF Kernels
    <3>10. PICK rest : rest = [p \in Priorities |-> Without(r[p], next)] OBVIOUS
    <3>11. PICK e \in SUBSET Priorities : e = IF rest[j.prio[next]] = <<>> THEN g \ {j.prio[next]} ELSE g
      OBVIOUS
    <3>12. PICK to \in [Everyone -> Stats] : to = [st EXCEPT ![next] = "running"]
      <4>1. "running" \in Stats BY DEF Stats
      <4>. QED BY <4>1
    <3>13. rest \in [Priorities -> Seq(Everyone)] /\ QueuesMatch(rest, e, to, j.prio)
      <4>1. "running" \in Stats BY DEF Stats
      <4>2. OutOfQueue(j.prio, st, r, g, next, rest, e, to) BY <3>10, <3>11, <3>12, <4>1 DEF OutOfQueue
      <4>. QED BY <1>2, <3>7, <4>2, QueueOut
    <3>14. \A l \in WaitLists : Without(j.list[l], next) = j.list[l]
      <4>1. \A l \in WaitLists : next \notin ToSet(j.list[l]) BY <2>4, NotThere DEF WaitLists
      <4>2. ASSUME NEW l \in WaitLists PROVE Without(j.list[l], next) = j.list[l]
        <5>1. j.list[l] \in Seq(Everyone) /\ IsInjective(j.list[l]) BY <1>1, <1>2 DEF ListsSound
        <5>. QED BY <4>1, <5>1, WithoutIs
      <4>. QED BY <4>2
    <3>15. [l \in WaitLists |-> Without(j.list[l], next)] = j.list BY <1>2, <3>14
    <3>16. PICK u : u = Unlink(w, next) OBVIOUS
    <3>17. u = [w EXCEPT !.ready = rest, !.list = j.list] BY <3>9, <3>10, <3>15, <3>16 DEF Unlink
    <3>18. /\ u \in Kernels /\ u.current = next /\ u.stat = st /\ u.ready = rest /\ u.group = g
           /\ u.prio = j.prio /\ u.tick = j.tick /\ u.lock = j.lock /\ u.list = j.list /\ u.timers = j.timers
           /\ u.error = j.error /\ u.yield = y
      BY <1>2, <3>9, <3>13, <3>17 DEF Kernels
    <3>19. RemoveThread(w, next) = [u EXCEPT !.group = e] BY <3>9, <3>11, <3>16, <3>18 DEF RemoveThread
    <3>20. PICK v : v = [u EXCEPT !.group = e] OBVIOUS
    <3>21. v \in Kernels /\ v.stat = st /\ n = [v EXCEPT !.stat[next] = "running"]
      BY <3>2, <3>18, <3>19, <3>20 DEF Kernels
    <3>22. n = [v EXCEPT !.stat = to] BY <3>12, <3>21
    <3>23. /\ n \in Kernels /\ n.current = next /\ n.stat = to /\ n.ready = rest /\ n.group = e
           /\ n.prio = j.prio /\ n.tick = j.tick /\ n.lock = j.lock /\ n.list = j.list /\ n.timers = j.timers
           /\ n.error = j.error
      BY <3>18, <3>20, <3>22 DEF Kernels
    <3>24. /\ to[next] = "running"
           /\ \A t \in Everyone \ {next} :
                to[t] = IF t = from /\ running THEN "ready" ELSE j.stat[t]
      BY <1>2, <3>3, <3>12
    <3>25. SameStatus(j, n) BY <1>2, <2>4, <3>23, <3>24 DEF SameStatus, Awake
    <3>26. SameClock(j, n) BY <3>23 DEF SameClock
    <3>27. QueuesSound(n)
      <4>1. \A t \in Everyone : n.stat[t] = "running" => t = n.current
        BY <1>1, <3>23, <3>24 DEF QueuesSound
      <4>2. Awake(n, Idle) BY <1>1, <3>25 DEF QueuesSound, SameStatus, Everyone
      <4>. QED BY <3>13, <3>23, <3>24, <4>1, <4>2 DEF QueuesSound
    <3>28. ListsSound(n) /\ TimersSound(n) BY <3>23, <3>25, WaitersKept
    <3>29. Highest(n)
      <4>1. \A p \in e : p \in j.group \/ (running /\ p = j.prio[from]) BY <3>5, <3>11
      <4>2. running => j.prio[from] >= top
        <5>1. running => ~(j.prio[from] < top) BY <2>1, <2>12
        <5>2. j.prio[from] \in Nat /\ top \in Nat BY <1>2, <1>3
        <5>. QED BY <5>1, <5>2
      <4>3. \A p \in e : top <= p BY <2>1, <4>1, <4>2
      <4>. QED BY <2>4, <3>23, <4>3 DEF Highest
    <3>. QED BY <1>7, <3>23, <3>24, <3>25, <3>26, <3>27, <3>28, <3>29 DEF Sound
  <2>. QED BY <2>11, <2>12
<1>. QED BY <1>5, <1>6, <1>7

----------------------------------------------------------------------------
(* The operations of the kernel.                                            *)
Marked(j, t, e) == [j EXCEPT !.error[t] = e]

LEMMA ErrorIs ==
    ASSUME NEW j, Sound(j), NEW t \in Everyone, NEW e \in Errors,
           NEW n, n = Marked(j, t, e)
    PROVE /\ Sound(n) /\ SameQueues(j, n) /\ SameClock(j, n) /\ n.list = j.list /\ n.timers = j.timers
          /\ n.error = [j.error EXCEPT ![t] = e]
<1>1. j \in Kernels BY DEF Sound
<1>2. PICK x \in [Everyone -> Errors] : x = [j.error EXCEPT ![t] = e]
  <2>1. j.error \in [Everyone -> Errors] BY <1>1, FieldsOf
  <2>. QED BY <2>1
<1>3. n = [j EXCEPT !.error = x] BY <1>2 DEF Marked
<1>4. /\ n \in Kernels /\ n.current = j.current /\ n.stat = j.stat /\ n.yield = j.yield /\ n.ready = j.ready
      /\ n.group = j.group /\ n.prio = j.prio /\ n.tick = j.tick /\ n.lock = j.lock
      /\ n.error = x /\ n.list = j.list /\ n.timers = j.timers
  BY <1>1, <1>3 DEF Kernels
<1>. QED BY <1>2, <1>4, MarkIs DEF SameQueues, SameClock

LEMMA ResumeIs ==
    ASSUME NEW j, Sound(j), NEW t \in Everyone, j.stat[t] = "suspend", NEW n, n = ResumeThread(j, t)
    PROVE Woke(j, n, t) /\ n.error = j.error /\ n.current = j.current
<1>1. PICK a : a = Unlink(j, t) OBVIOUS
<1>2. /\ Sound(a) /\ SameQueues(j, a) /\ SameClock(j, a) /\ a.error = j.error /\ a.timers = j.timers
      /\ \A l \in WaitLists : ToSet(a.list[l]) = ToSet(j.list[l]) \ {t}
  <2>1. Unlinked(j, a, t) BY <1>1, UnlinkIs
  <2>. QED BY <2>1 DEF Unlinked
<1>3. PICK b : b = TimerStop(a, t) OBVIOUS
<1>4. /\ Sound(b) /\ SameQueues(a, b) /\ SameClock(a, b) /\ b.error = a.error /\ b.list = a.list
      /\ ToSet(b.timers) = {m \in ToSet(a.timers) : m.t # t}
  BY <1>2, <1>3, TimerStopIs
<1>5. n = InsertThread(b, t) BY <1>1, <1>3 DEF ResumeThread
<1>6. b.stat = j.stat /\ b.current = j.current BY <1>2, <1>4 DEF SameQueues
<1>7. t \notin ToSet(b.list["wait"]) /\ t \notin ToSet(b.list["send"]) BY <1>2, <1>4 DEF WaitLists
<1>8. /\ Sound(n) /\ SameClock(b, n) /\ n.current = b.current
      /\ n.error = b.error /\ n.list = b.list /\ n.timers = b.timers
      /\ n.stat[t] = (IF t = b.current THEN "running" ELSE "ready")
      /\ \A u \in Everyone : u # t => n.stat[u] = b.stat[u]
  BY <1>4, <1>5, <1>6, <1>7, InsertIs
<1>9. SameClock(j, n) BY <1>2, <1>4, <1>8 DEF SameClock
<1>10. Awake(n, t) BY <1>8 DEF Awake
<1>11. \A u \in Everyone : u # t => (Awake(n, u) <=> Awake(j, u)) /\ (~Awake(j, u) => n.stat[u] = j.stat[u])
  BY <1>6, <1>8 DEF Awake
<1>12. /\ \A l \in WaitLists : ToSet(n.list[l]) = ToSet(j.list[l]) \ {t}
       /\ ToSet(n.timers) = {m \in ToSet(j.timers) : m.t # t}
  BY <1>2, <1>4, <1>8
<1>. QED BY <1>2, <1>4, <1>6, <1>8, <1>9, <1>10, <1>11, <1>12 DEF Woke

(* rt_schedule after a thread was woken.                                    *)
LEMMA ScheduleWoken ==
    ASSUME NEW j, NEW w, NEW t \in Everyone, Woke(j, w, t), NEW n, n = Schedule(w)
    PROVE /\ Woke(j, n, t) /\ n.error = w.error
          /\ w.lock # 0 => n = w
          /\ w.lock = 0 => Highest(n) /\ n.stat[n.current] = "running"
<1>1. Sound(w) BY DEF Woke
<1>2. /\ Sound(n) /\ SameStatus(w, n) /\ SameClock(w, n)
      /\ n.error = w.error /\ n.list = w.list /\ n.timers = w.timers
      /\ w.lock # 0 => n = w
      /\ w.lock = 0 => Highest(n) /\ n.stat[n.current] = "running"
  BY <1>1, ScheduleIs
<1>3. SameClock(j, n) BY <1>2 DEF Woke, SameClock
<1>4. Awake(n, t) BY <1>2 DEF Woke, SameStatus
<1>5. \A u \in Everyone : u # t => (Awake(n, u) <=> Awake(j, u)) /\ (~Awake(j, u) => n.stat[u] = j.stat[u])
  BY <1>2 DEF Woke, SameStatus
<1>6. /\ \A l \in WaitLists : ToSet(n.list[l]) = ToSet(j.list[l]) \ {t}
      /\ ToSet(n.timers) = {m \in ToSet(j.timers) : m.t # t}
  BY <1>2 DEF Woke
<1>. QED BY <1>2, <1>3, <1>4, <1>5, <1>6 DEF Woke

LEMMA HeadWaits ==
    ASSUME NEW j, Sound(j), NEW l \in {"wait", "send"}, j.list[l] # <<>>
    PROVE /\ Head(j.list[l]) \in Threads /\ Head(j.list[l]) \in ToSet(j.list[l])
          /\ Head(j.list[l]) \in Everyone /\ j.stat[Head(j.list[l])] = "suspend"
<1>1. j \in Kernels /\ ListsSound(j) /\ QueuesSound(j) BY DEF Sound
<1>2. j.list[l] \in Seq(Everyone) BY <1>1, FieldsOf DEF WaitLists
<1>3. Head(j.list[l]) \in ToSet(j.list[l]) /\ ToSet(j.list[l]) \subseteq Everyone BY <1>2, Members
<1>4. j.stat[Head(j.list[l])] = "suspend" BY <1>1, <1>3 DEF ListsSound
<1>5. Head(j.list[l]) # Idle BY <1>1, <1>4 DEF QueuesSound, Awake
<1>. QED BY <1>3, <1>4, <1>5 DEF Everyone

LEMMA WokeMarked ==
    ASSUME NEW j, NEW a, NEW n, NEW t, Woke(a, n, t), a.stat = j.stat, SameClock(j, a), a.list = j.list,
           a.timers = j.timers
    PROVE Woke(j, n, t)
BY DEF Woke, SameClock, Awake

LEMMA ListResumeIs ==
    ASSUME NEW j, Sound(j), NEW l \in {"wait", "send"}, j.list[l] # <<>>, NEW t, t = Head(j.list[l]),
           NEW e \in Errors, NEW n, n = ResumeThread(Marked(j, t, e), t)
    PROVE /\ Woke(j, n, t) /\ n.error = [j.error EXCEPT ![t] = e] /\ n.current = j.current
          /\ t \in Threads /\ t \in ToSet(j.list[l]) /\ t \in Everyone /\ j.stat[t] = "suspend"
<1>1. t \in Threads /\ t \in ToSet(j.list[l]) /\ t \in Everyone /\ j.stat[t] = "suspend" BY HeadWaits
<1>2. PICK a : a = Marked(j, t, e) OBVIOUS
<1>4. /\ Sound(a) /\ SameQueues(j, a) /\ SameClock(j, a) /\ a.list = j.list /\ a.timers = j.timers
      /\ a.error = [j.error EXCEPT ![t] = e]
  BY <1>1, <1>2, ErrorIs
<1>5. a.stat[t] = "suspend" /\ a.stat = j.stat /\ a.current = j.current BY <1>1, <1>4 DEF SameQueues
<1>6. Woke(a, n, t) /\ n.error = a.error /\ n.current = a.current
  <2>1. n = ResumeThread(a, t) BY <1>2
  <2>. QED BY <1>1, <1>4, <1>5, <2>1, ResumeIs
<1>7. Woke(j, n, t) BY <1>4, <1>5, <1>6, WokeMarked
<1>. QED BY <1>1, <1>4, <1>5, <1>6, <1>7

LEMMA SuspendIs ==
    ASSUME NEW j, Sound(j), NEW t \in Threads, j.stat[t] = "running", NEW n, n = SuspendThread(j, t)
    PROVE /\ Sound(n) /\ n.current = j.current /\ n.stat = [j.stat EXCEPT ![t] = "suspend"]
          /\ n.yield = j.yield /\ n.ready = j.ready /\ n.group = j.group
          /\ SameClock(j, n) /\ n.error = j.error /\ n.list = j.list /\ n.timers = j.timers
<1>1. j \in Kernels /\ QueuesSound(j) /\ ListsSound(j) /\ TimersSound(j) BY DEF Sound
<1>2. t \in Everyone /\ t # Idle BY KernelAssumption DEF Everyone
<1>3. RemoveThread(j, t) = j BY <1>2, RemoveRunning
<1>4. PICK st \in [Everyone -> Stats] : st = [j.stat EXCEPT ![t] = "suspend"]
  <2>1. "suspend" \in Stats BY DEF Stats
  <2>. QED BY <1>1, <2>1, FieldsOf
<1>5. PICK a : a = [j EXCEPT !.stat = st] OBVIOUS
<1>6. /\ a \in Kernels /\ a.current = j.current /\ a.stat = st /\ a.yield = j.yield /\ a.ready = j.ready
      /\ a.group = j.group /\ a.prio = j.prio /\ a.tick = j.tick /\ a.lock = j.lock
      /\ a.error = j.error /\ a.list = j.list /\ a.timers = j.timers
  BY <1>1, <1>5 DEF Kernels
<1>7. st[t] = "suspend" /\ \A u \in Everyone : u # t => st[u] = j.stat[u]
  BY <1>1, <1>2, <1>4, FieldsOf
<1>8. n = TimerStop(a, t)
  <2>1. [j EXCEPT !.stat[t] = "suspend"] = a BY <1>4, <1>5
  <2>. QED BY <1>3, <2>1 DEF SuspendThread
<1>9. QueuesSound(a)
  <2>1. QueuesMatch(a.ready, a.group, a.stat, a.prio) BY <1>1, <1>2, <1>6, <1>7 DEF QueuesSound, QueuesMatch
  <2>2. a.stat[a.current] # "ready" BY <1>1, <1>6, <1>7, FieldsOf DEF QueuesSound
  <2>3. \A u \in Everyone : a.stat[u] = "running" => u = a.current BY <1>1, <1>6, <1>7 DEF QueuesSound
  <2>4. Awake(a, Idle) BY <1>1, <1>2, <1>6, <1>7 DEF QueuesSound, Awake, Everyone
  <2>. QED BY <2>1, <2>2, <2>3, <2>4 DEF QueuesSound
<1>10. /\ t \notin ToSet(j.list["wait"]) /\ t \notin ToSet(j.list["send"]) /\ t \notin ToSet(j.list["dead"])
       /\ \A m \in ToSet(j.timers) : m.t # t
  BY <1>2, NotThere
<1>11. ListsSound(a) BY <1>1, <1>6, <1>7, <1>10 DEF ListsSound
<1>12. TimersSound(a)
  <2>1. \A m \in ToSet(j.timers) : m.t \in Everyone
    <3>1. j.timers \in Seq(Timers) BY <1>1, FieldsOf
    <3>2. ToSet(j.timers) \subseteq Timers BY <3>1, Members
    <3>. QED BY <3>2 DEF Timers
  <2>. QED BY <1>1, <1>6, <1>7, <1>10, <2>1 DEF TimersSound, Remaining
<1>13. Sound(a) BY <1>6, <1>9, <1>11, <1>12 DEF Sound
<1>14. n = a BY <1>2, <1>6, <1>8, <1>10, <1>13, TimerStopIs
<1>. QED BY <1>4, <1>6, <1>13, <1>14 DEF SameClock

(* A thread that runs goes on a waiting list, at either end.                *)
Listed(j, t, l, n) ==
    \E q : (q = Append(j.list[l], t) \/ q = <<t>> \o j.list[l]) /\ n = [j EXCEPT !.list[l] = q]

(* A thread that may join a waiting list, and what joining it leaves.       *)
MayJoin(j, t, l) ==
    /\ t \in Everyone /\ l \in {"wait", "send"} /\ j.stat[t] = "suspend"
    /\ t \notin ToSet(j.list["wait"]) /\ t \notin ToSet(j.list["send"])
Joined(j, t, l, n) ==
    /\ Sound(n) /\ SameQueues(j, n) /\ SameClock(j, n) /\ n.error = j.error /\ n.timers = j.timers
    /\ ToSet(n.list[l]) = ToSet(j.list[l]) \cup {t}
    /\ \A x \in WaitLists : x # l => n.list[x] = j.list[x]

LEMMA JoinedIs ==
    ASSUME NEW j, Sound(j), NEW t, NEW l, MayJoin(j, t, l), NEW n, Listed(j, t, l, n)
    PROVE Joined(j, t, l, n)
<1>1. /\ t \in Everyone /\ l \in {"wait", "send"} /\ j.stat[t] = "suspend"
      /\ t \notin ToSet(j.list["wait"]) /\ t \notin ToSet(j.list["send"])
  BY DEF MayJoin
<1>. USE <1>1
<1>2. PICK q : (q = Append(j.list[l], t) \/ q = <<t>> \o j.list[l]) /\ n = [j EXCEPT !.list[l] = q]
  BY DEF Listed
<1>3. j \in Kernels /\ QueuesSound(j) /\ ListsSound(j) /\ TimersSound(j) BY DEF Sound
<1>4. l \in WaitLists /\ j.list \in [WaitLists -> Seq(Everyone)] BY <1>3, FieldsOf DEF WaitLists
<1>5. PICK s \in Seq(Everyone) : s = j.list[l] BY <1>4
<1>6. IsInjective(s) /\ t \notin ToSet(s) BY <1>3, <1>4, <1>5 DEF ListsSound
<1>7. q \in Seq(Everyone) /\ IsInjective(q) /\ ToSet(q) = ToSet(s) \cup {t}
  <2>1. /\ Append(s, t) \in Seq(Everyone) /\ IsInjective(Append(s, t))
        /\ ToSet(Append(s, t)) = ToSet(s) \cup {t}
    BY <1>6, AppendIs
  <2>2. <<t>> \o s \in Seq(Everyone) /\ IsInjective(<<t>> \o s) /\ ToSet(<<t>> \o s) = ToSet(s) \cup {t}
    BY <1>6, PrependIs
  <2>3. q = Append(s, t) \/ q = <<t>> \o s BY <1>2, <1>5
  <2>. QED BY <2>1, <2>2, <2>3
<1>8. PICK ls : ls = [j.list EXCEPT ![l] = q] OBVIOUS
<1>9. ls \in [WaitLists -> Seq(Everyone)] /\ ls[l] = q /\ \A x \in WaitLists : x # l => ls[x] = j.list[x]
  BY <1>4, <1>7, <1>8
<1>10. n = [j EXCEPT !.list = ls] BY <1>2, <1>8
<1>11. /\ n \in Kernels /\ n.current = j.current /\ n.stat = j.stat /\ n.yield = j.yield /\ n.ready = j.ready
      /\ n.group = j.group /\ n.prio = j.prio /\ n.tick = j.tick /\ n.lock = j.lock
      /\ n.error = j.error /\ n.timers = j.timers /\ n.list = ls
  BY <1>3, <1>9, <1>10 DEF Kernels
<1>12. SameQueues(j, n) /\ SameClock(j, n) BY <1>11 DEF SameQueues, SameClock
<1>13. "wait" \in WaitLists /\ "send" \in WaitLists /\ "dead" \in WaitLists /\ l # "dead" BY DEF WaitLists
<1>14. ListsSound(n)
  <2>1. \A x \in WaitLists : IsInjective(n.list[x]) BY <1>3, <1>7, <1>9, <1>11 DEF ListsSound
  <2>2. ASSUME NEW u \in Everyone, u \in ToSet(n.list["wait"])
        PROVE n.stat[u] = "suspend" /\ u \notin ToSet(n.list["send"])
    <3>1. CASE l = "wait" BY <1>3, <1>5, <1>7, <1>9, <1>11, <1>13, <2>2, <3>1 DEF ListsSound
    <3>2. CASE l = "send" BY <1>3, <1>5, <1>7, <1>9, <1>11, <1>13, <2>2, <3>2 DEF ListsSound
    <3>. QED BY <3>1, <3>2
  <2>3. ASSUME NEW u \in Everyone, u \in ToSet(n.list["send"]) PROVE n.stat[u] = "suspend"
    BY <1>3, <1>5, <1>7, <1>9, <1>11, <1>13, <2>3 DEF ListsSound
  <2>4. ASSUME NEW u \in Everyone, u \in ToSet(n.list["dead"]) PROVE n.stat[u] = "close"
    BY <1>3, <1>9, <1>11, <1>13, <2>4 DEF ListsSound
  <2>. QED BY <2>1, <2>2, <2>3, <2>4 DEF ListsSound
<1>15. Sound(n) BY <1>3, <1>11, <1>12, <1>14, QueuesKept, TimersKept DEF Sound
<1>. QED BY <1>5, <1>7, <1>9, <1>11, <1>12, <1>15 DEF Joined

(* With a timer if the wait has an end.                                     *)
LEMMA TimedIs ==
    ASSUME NEW j, Sound(j), NEW t \in Everyone, j.stat[t] = "suspend", \A m \in ToSet(j.timers) : m.t # t,
           NEW c \in -1..Half - 1, NEW n, n = IF c > 0 THEN TimerStart(j, t, c) ELSE j
    PROVE /\ Sound(n) /\ SameQueues(j, n) /\ SameClock(j, n) /\ n.error = j.error /\ n.list = j.list
          /\ c <= 0 => n.timers = j.timers
          /\ c > 0 => \E m \in Timers : /\ m.t = t /\ Remaining(j, m) = c
                                        /\ ToSet(n.timers) = ToSet(j.timers) \cup {m}
<1>1. CASE c > 0
  <2>1. PICK d \in 1..Half - 1 : d = c BY <1>1, Halves
  <2>2. n = TimerStart(j, t, d) BY <1>1, <2>1
  <2>3. /\ Sound(n) /\ SameQueues(j, n) /\ SameClock(j, n) /\ n.error = j.error /\ n.list = j.list
        /\ \E m \in Timers : m.t = t /\ Remaining(j, m) = d /\ ToSet(n.timers) = ToSet(j.timers) \cup {m}
    BY <2>2, TimerStartIs
  <2>4. ~(c <= 0) BY <1>1, Halves
  <2>. QED BY <2>1, <2>3, <2>4
<1>2. CASE ~(c > 0)
  <2>1. SameQueues(j, j) /\ SameClock(j, j) BY DEF SameQueues, SameClock
  <2>. QED BY <1>2, <2>1
<1>. QED BY <1>1, <1>2

Blocking(j, t, l, c, e, n) ==
    /\ t \in Threads /\ j.stat[t] = "running" /\ l \in {"wait", "send"} /\ c \in -1..Half - 1 /\ e \in Errors
    /\ n = BlockAtEnd(j, t, l, c, e) \/ n = BlockInFront(j, t, l, c, e)
BlockedWith(j, n, t, S, c, e) == Blocked(j, n, t, S, c) /\ n.error = [j.error EXCEPT ![t] = e]

LEMMA BlockIs ==
    ASSUME NEW j, Sound(j), NEW t, NEW l, NEW c, NEW e, NEW n, Blocking(j, t, l, c, e, n), NEW S, S = {l}
    PROVE BlockedWith(j, n, t, S, c, e)
<1>. USE DEF Blocking
<1>1. t \in Everyone BY DEF Everyone
<1>2. PICK a : a = Marked(j, t, e) OBVIOUS
<1>3. /\ Sound(a) /\ SameQueues(j, a) /\ SameClock(j, a) /\ a.list = j.list /\ a.timers = j.timers
      /\ a.error = [j.error EXCEPT ![t] = e]
  BY <1>1, <1>2, ErrorIs
<1>4. a.stat = j.stat /\ a.current = j.current BY <1>3 DEF SameQueues
<1>5. PICK s : s = SuspendThread(a, t) OBVIOUS
<1>6. /\ Sound(s) /\ s.current = a.current /\ s.stat = [a.stat EXCEPT ![t] = "suspend"]
      /\ SameClock(a, s) /\ s.error = a.error /\ s.list = a.list /\ s.timers = a.timers
  BY <1>3, <1>4, <1>5, SuspendIs
<1>7. /\ t \notin ToSet(j.list["wait"]) /\ t \notin ToSet(j.list["send"]) /\ \A m \in ToSet(j.timers) : m.t # t
  BY <1>1, NotThere
<1>8. s.stat[t] = "suspend"
  <2>1. j.stat \in [Everyone -> Stats] BY FieldsOf DEF Sound
  <2>. QED BY <1>1, <1>4, <1>6, <2>1
<1>9. PICK q : /\ q = Append(s.list[l], t) \/ q = <<t>> \o s.list[l]
               /\ n = IF c > 0 THEN TimerStart([s EXCEPT !.list[l] = q], t, c) ELSE [s EXCEPT !.list[l] = q]
  <2>1. l \in DOMAIN s.list
    <3>1. s \in Kernels BY <1>6 DEF Sound
    <3>2. DOMAIN s.list = WaitLists BY <3>1, FieldsOf
    <3>. QED BY <3>2 DEF WaitLists
  <2>2. s = SuspendThread([j EXCEPT !.error[t] = e], t) BY <1>2, <1>5 DEF Marked
  <2>3. CASE n = BlockAtEnd(j, t, l, c, e)
    <3>1. n = IF c > 0 THEN TimerStart([s EXCEPT !.list[l] = Append(s.list[l], t)], t, c)
              ELSE [s EXCEPT !.list[l] = Append(s.list[l], t)]
      BY <2>2, <2>3 DEF BlockAtEnd
    <3>. QED BY <3>1
  <2>4. CASE n = BlockInFront(j, t, l, c, e)
    <3>1. n = IF c > 0 THEN TimerStart([s EXCEPT !.list[l] = <<t>> \o s.list[l]], t, c)
              ELSE [s EXCEPT !.list[l] = <<t>> \o s.list[l]]
      BY <2>2, <2>4 DEF BlockInFront
    <3>. QED BY <3>1
  <2>. QED BY <2>3, <2>4
<1>10. PICK w : w = [s EXCEPT !.list[l] = q] OBVIOUS
<1>11. /\ Sound(w) /\ SameQueues(s, w) /\ SameClock(s, w) /\ w.error = s.error /\ w.timers = s.timers
       /\ ToSet(w.list[l]) = ToSet(s.list[l]) \cup {t}
       /\ \A x \in WaitLists : x # l => w.list[x] = s.list[x]
  <2>1. Listed(s, t, l, w) BY <1>9, <1>10 DEF Listed
  <2>2. t \notin ToSet(s.list["wait"]) /\ t \notin ToSet(s.list["send"]) /\ Sound(s) BY <1>3, <1>6, <1>7
  <2>3. MayJoin(s, t, l) BY <1>1, <1>8, <2>2 DEF MayJoin
  <2>4. Joined(s, t, l, w) BY <2>1, <2>2, <2>3, JoinedIs
  <2>. QED BY <2>4 DEF Joined
<1>12. w.stat = s.stat /\ w.current = s.current /\ w.tick = j.tick
  BY <1>3, <1>6, <1>11 DEF SameQueues, SameClock
<1>13. n = IF c > 0 THEN TimerStart(w, t, c) ELSE w BY <1>9, <1>10
<1>14. \A m \in ToSet(w.timers) : m.t # t BY <1>3, <1>6, <1>7, <1>11
<1>15. /\ Sound(n) /\ SameQueues(w, n) /\ SameClock(w, n) /\ n.error = w.error /\ n.list = w.list
       /\ c <= 0 => n.timers = w.timers
       /\ c > 0 => \E m \in Timers : m.t = t /\ Remaining(w, m) = c /\ ToSet(n.timers) = ToSet(w.timers) \cup {m}
  BY <1>1, <1>8, <1>11, <1>12, <1>13, <1>14, TimedIs
<1>16. n.current = j.current /\ n.stat = [j.stat EXCEPT ![t] = "suspend"]
  BY <1>4, <1>6, <1>12, <1>15 DEF SameQueues
<1>17. SameClock(j, n) BY <1>3, <1>6, <1>11, <1>15 DEF SameClock
<1>18. \A x \in WaitLists : ToSet(n.list[x]) = IF x \in S THEN ToSet(j.list[x]) \cup {t} ELSE ToSet(j.list[x])
  <2>1. n.list = w.list /\ s.list = j.list BY <1>3, <1>6, <1>15
  <2>. QED BY <1>11, <2>1
<1>19. c <= 0 => n.timers = j.timers BY <1>3, <1>6, <1>11, <1>15
<1>20. c > 0 => \E m \in Timers : m.t = t /\ Remaining(j, m) = c /\ ToSet(n.timers) = ToSet(j.timers) \cup {m}
  BY <1>3, <1>6, <1>11, <1>12, <1>15 DEF Remaining
<1>21. n.error = [j.error EXCEPT ![t] = e] BY <1>3, <1>6, <1>11, <1>15
<1>. QED BY <1>15, <1>16, <1>17, <1>18, <1>19, <1>20, <1>21 DEF Blocked, BlockedWith

Slept(j, t, c) == TimerStart(SuspendThread([j EXCEPT !.error[t] = "ok"], t), t, c)

LEMMA SleepIs ==
    ASSUME NEW j, Sound(j), NEW t \in Threads, j.stat[t] = "running", NEW c \in 1..Half - 1, NEW n,
           n = Slept(j, t, c)
    PROVE Blocked(j, n, t, {}, c) /\ n.error = [j.error EXCEPT ![t] = "ok"]
<1>1. t \in Everyone BY DEF Everyone
<1>2. PICK e \in Errors : e = "ok" BY DEF Errors
<1>3. PICK a : a = Marked(j, t, e) OBVIOUS
<1>4. /\ Sound(a) /\ SameQueues(j, a) /\ SameClock(j, a) /\ a.list = j.list /\ a.timers = j.timers
      /\ a.error = [j.error EXCEPT ![t] = e]
  BY <1>1, <1>3, ErrorIs
<1>5. a.stat = j.stat /\ a.current = j.current BY <1>4 DEF SameQueues
<1>6. PICK s : s = SuspendThread(a, t) OBVIOUS
<1>7. /\ Sound(s) /\ s.current = a.current /\ s.stat = [a.stat EXCEPT ![t] = "suspend"]
      /\ SameClock(a, s) /\ s.error = a.error /\ s.list = a.list /\ s.timers = a.timers
  BY <1>4, <1>5, <1>6, SuspendIs
<1>8. \A m \in ToSet(s.timers) : m.t # t
  <2>1. \A m \in ToSet(j.timers) : m.t # t BY <1>1, NotThere
  <2>. QED BY <1>4, <1>7, <2>1
<1>9. s.stat[t] = "suspend"
  <2>1. j.stat \in [Everyone -> Stats] BY FieldsOf DEF Sound
  <2>. QED BY <1>1, <1>5, <1>7, <2>1
<1>10. n = TimerStart(s, t, c) BY <1>2, <1>3, <1>6 DEF Marked, Slept
<1>11. /\ Sound(n) /\ SameQueues(s, n) /\ SameClock(s, n) /\ n.error = s.error /\ n.list = s.list
       /\ \E m \in Timers : m.t = t /\ Remaining(s, m) = c /\ ToSet(n.timers) = ToSet(s.timers) \cup {m}
  <2>1. Sound(s) BY <1>7
  <2>. QED BY <1>1, <1>8, <1>9, <1>10, <2>1, TimerStartIs
<1>12. SameClock(j, n) /\ s.tick = j.tick BY <1>4, <1>7, <1>11 DEF SameClock
<1>13. n.current = j.current /\ n.stat = [j.stat EXCEPT ![t] = "suspend"] BY <1>5, <1>7, <1>11 DEF SameQueues
<1>14. \E m \in Timers : m.t = t /\ Remaining(j, m) = c /\ ToSet(n.timers) = ToSet(j.timers) \cup {m}
  BY <1>4, <1>7, <1>11, <1>12 DEF Remaining
<1>15. \A x \in WaitLists : ToSet(n.list[x]) = IF x \in {} THEN ToSet(j.list[x]) \cup {t} ELSE ToSet(j.list[x])
  BY <1>4, <1>7, <1>11
<1>16. n.error = [j.error EXCEPT ![t] = "ok"] BY <1>2, <1>4, <1>7, <1>11
<1>17. c > 0 /\ ~(c <= 0) BY Halves
<1>. QED BY <1>11, <1>12, <1>13, <1>14, <1>15, <1>16, <1>17 DEF Blocked

(* Thread t was woken, and rt_schedule chose who runs unless it is locked. *)
Chosen(j, n, t) == \E w : w.current = j.current /\ Woke(j, w, t) /\ (j.lock # 0 => n = w)
(* A timer is due: its thread wakes.                                        *)
LEMMA ExpiresIs ==
    ASSUME NEW j, Sound(j), j.timers # <<>>, NEW t, t = Head(j.timers).t, NEW n, n = TimerExpires(j)
    PROVE /\ t \in Everyone /\ j.stat[t] = "suspend" /\ Woke(j, n, t)
          /\ n.error = [j.error EXCEPT ![t] = "timeout"]
          /\ Chosen(j, n, t)
          /\ j.lock = 0 => Highest(n) /\ n.stat[n.current] = "running"
<1>1. j \in Kernels /\ QueuesSound(j) /\ ListsSound(j) /\ TimersSound(j) BY DEF Sound
<1>2. j.timers \in Seq(Timers) /\ j.tick \in 0..TickWidth - 1 BY <1>1, FieldsOf
<1>3. Head(j.timers) \in ToSet(j.timers) /\ ToSet(j.timers) \subseteq Timers BY <1>2, Members
<1>4. t \in Everyone BY <1>3 DEF Timers
<1>5. j.stat[t] = "suspend" BY <1>1, <1>3 DEF TimersSound
<1>6. PICK r : r = Tail(j.timers) OBVIOUS
<1>7. r \in Seq(Timers) /\ Once(r) /\ Sorted(r, j.tick) /\ ToSet(r) = {m \in ToSet(j.timers) : m.t # t}
  <2>1. PICK s \in Seq(Timers) : s = j.timers BY <1>2
  <2>2. Once(s) /\ Sorted(s, j.tick) /\ s # <<>> BY <1>1, <2>1 DEF TimersSound
  <2>3. /\ Tail(s) \in Seq(Timers) /\ Once(Tail(s)) /\ Sorted(Tail(s), j.tick)
        /\ ToSet(Tail(s)) = {m \in ToSet(s) : m.t # Head(s).t}
    BY <2>2, FirstLeaves
  <2>. QED BY <1>6, <2>1, <2>3
<1>8. PICK a : a = [j EXCEPT !.timers = r] OBVIOUS
<1>9. /\ a \in Kernels /\ a.current = j.current /\ a.stat = j.stat /\ a.yield = j.yield /\ a.ready = j.ready
      /\ a.group = j.group /\ a.prio = j.prio /\ a.tick = j.tick /\ a.lock = j.lock
      /\ a.error = j.error /\ a.list = j.list /\ a.timers = r
  BY <1>1, <1>7, <1>8 DEF Kernels
<1>10. TimersSound(a) BY <1>1, <1>7, <1>9 DEF TimersSound, Remaining
<1>11. SameQueues(j, a) /\ SameClock(j, a) BY <1>9 DEF SameQueues, SameClock
<1>12. Sound(a) BY <1>1, <1>9, <1>10, <1>11, QueuesKept, ListsKept DEF Sound
<1>13. PICK e \in Errors : e = "timeout" BY DEF Errors
<1>14. PICK b : b = Marked(a, t, e) OBVIOUS
<1>15. /\ Sound(b) /\ SameQueues(a, b) /\ SameClock(a, b) /\ b.list = a.list /\ b.timers = a.timers
       /\ b.error = [a.error EXCEPT ![t] = e]
  BY <1>4, <1>12, <1>14, ErrorIs
<1>16. b.stat = j.stat /\ b.current = j.current BY <1>9, <1>15 DEF SameQueues
<1>17. PICK u : u = Unlink(b, t) OBVIOUS
<1>18. b.stat[t] # "ready" BY <1>5, <1>16
<1>19. /\ Sound(u) /\ SameQueues(b, u) /\ SameClock(b, u) /\ u.error = b.error /\ u.timers = b.timers
       /\ \A l \in WaitLists : ToSet(u.list[l]) = ToSet(b.list[l]) \ {t}
  <2>1. Sound(b) BY <1>15
  <2>2. Unlinked(b, u, t) BY <1>4, <1>17, <1>18, <2>1, UnlinkIs
  <2>. QED BY <2>2 DEF Unlinked
<1>20. u.stat = j.stat /\ u.current = j.current BY <1>16, <1>19 DEF SameQueues
<1>21. PICK w : w = InsertThread(u, t) OBVIOUS
<1>22. t \notin ToSet(u.list["wait"]) /\ t \notin ToSet(u.list["send"]) BY <1>19 DEF WaitLists
<1>23. \A m \in ToSet(u.timers) : m.t # t BY <1>7, <1>9, <1>15, <1>19
<1>24. u.stat[t] = "suspend" /\ Sound(u) BY <1>5, <1>19, <1>20
<1>25. /\ Sound(w) /\ SameClock(u, w) /\ w.current = u.current
       /\ w.error = u.error /\ w.list = u.list /\ w.timers = u.timers
       /\ w.stat[t] = (IF t = u.current THEN "running" ELSE "ready")
       /\ \A x \in Everyone : x # t => w.stat[x] = u.stat[x]
  BY <1>4, <1>21, <1>22, <1>23, <1>24, InsertIs
<1>26. SameClock(j, w) BY <1>11, <1>15, <1>19, <1>25 DEF SameClock
<1>27. Awake(w, t) BY <1>25 DEF Awake
<1>28. \A x \in Everyone : x # t => (Awake(w, x) <=> Awake(j, x)) /\ (~Awake(j, x) => w.stat[x] = j.stat[x])
  BY <1>20, <1>25 DEF Awake
<1>29. \A l \in WaitLists : ToSet(w.list[l]) = ToSet(j.list[l]) \ {t} BY <1>9, <1>15, <1>19, <1>25
<1>30. ToSet(w.timers) = {m \in ToSet(j.timers) : m.t # t} BY <1>7, <1>9, <1>15, <1>19, <1>25
<1>31. Woke(j, w, t) BY <1>25, <1>26, <1>27, <1>28, <1>29, <1>30 DEF Woke
<1>32. n = Schedule(w)
  <2>1. n = ThreadTimeout([j EXCEPT !.timers = Tail(j.timers)], t) BY DEF TimerExpires
  <2>2. n = ThreadTimeout(a, t) BY <1>6, <1>8, <2>1
  <2>. QED BY <1>13, <1>14, <1>17, <1>21, <2>2 DEF ThreadTimeout, Marked
<1>33. /\ Woke(j, n, t) /\ n.error = w.error
       /\ w.lock # 0 => n = w
       /\ w.lock = 0 => Highest(n) /\ n.stat[n.current] = "running"
  BY <1>4, <1>31, <1>32, ScheduleWoken
<1>34. w.lock = j.lock BY <1>26 DEF SameClock
<1>35. w.current = j.current BY <1>20, <1>25
<1>36. n.error = [j.error EXCEPT ![t] = "timeout"] BY <1>9, <1>13, <1>15, <1>19, <1>25, <1>33
<1>37. Chosen(j, n, t)
  BY <1>31, <1>33, <1>34, <1>35 DEF Chosen
<1>38. j.lock = 0 => Highest(n) /\ n.stat[n.current] = "running" BY <1>33, <1>34
<1>. QED BY <1>4, <1>5, <1>33, <1>36, <1>37, <1>38

(* A change of state of a thread that is on no list.                        *)
Restated(j, t, s) == [j EXCEPT !.stat[t] = s]

Moved(j, n, t, s) ==
    /\ Sound(n) /\ n.current = j.current /\ n.stat = [j.stat EXCEPT ![t] = s]
    /\ n.stat[t] = s /\ (\A u \in Everyone : u # t => n.stat[u] = j.stat[u])
    /\ n.yield = j.yield /\ n.ready = j.ready /\ n.group = j.group
    /\ SameClock(j, n) /\ n.error = j.error /\ n.list = j.list /\ n.timers = j.timers
    /\ t \in Everyone /\ t \notin ToSet(j.list["wait"]) /\ t \notin ToSet(j.list["send"])
    /\ t \notin ToSet(j.list["dead"]) /\ \A m \in ToSet(j.timers) : m.t # t

LEMMA StatIs ==
    ASSUME NEW j, Sound(j), NEW t \in Threads, j.stat[t] = "running" \/ j.stat[t] = "init",
           NEW s \in Stats, s # "ready", s # "running", s # "init",
           NEW n, n = Restated(j, t, s)
    PROVE Moved(j, n, t, s)
<1>1. j \in Kernels /\ QueuesSound(j) /\ ListsSound(j) /\ TimersSound(j) BY DEF Sound
<1>2. t \in Everyone /\ t # Idle BY KernelAssumption DEF Everyone
<1>3. s \in Stats /\ s # "ready" /\ s # "running" OBVIOUS
<1>4. PICK st \in [Everyone -> Stats] : st = [j.stat EXCEPT ![t] = s] BY <1>1, <1>3, FieldsOf
<1>5. n = [j EXCEPT !.stat = st] BY <1>4 DEF Restated
<1>6. /\ n \in Kernels /\ n.current = j.current /\ n.stat = st /\ n.yield = j.yield /\ n.ready = j.ready
      /\ n.group = j.group /\ n.prio = j.prio /\ n.tick = j.tick /\ n.lock = j.lock
      /\ n.error = j.error /\ n.list = j.list /\ n.timers = j.timers
  BY <1>1, <1>5 DEF Kernels
<1>7. st[t] = s /\ \A u \in Everyone : u # t => st[u] = j.stat[u] BY <1>1, <1>2, <1>4, FieldsOf
<1>8. j.stat[t] # "ready" OBVIOUS
<1>9. QueuesSound(n)
  <2>1. QueuesMatch(n.ready, n.group, n.stat, n.prio)
    BY <1>1, <1>2, <1>3, <1>6, <1>7, <1>8 DEF QueuesSound, QueuesMatch
  <2>2. n.stat[n.current] # "ready" BY <1>1, <1>3, <1>6, <1>7, FieldsOf DEF QueuesSound
  <2>3. \A u \in Everyone : n.stat[u] = "running" => u = n.current BY <1>1, <1>3, <1>6, <1>7 DEF QueuesSound
  <2>4. Awake(n, Idle) BY <1>1, <1>2, <1>6, <1>7 DEF QueuesSound, Awake, Everyone
  <2>. QED BY <2>1, <2>2, <2>3, <2>4 DEF QueuesSound
<1>10. /\ t \notin ToSet(j.list["wait"]) /\ t \notin ToSet(j.list["send"]) /\ t \notin ToSet(j.list["dead"])
       /\ \A m \in ToSet(j.timers) : m.t # t
  BY <1>2, NotThere
<1>11. ListsSound(n) BY <1>1, <1>6, <1>7, <1>10 DEF ListsSound
<1>12. TimersSound(n)
  <2>1. \A m \in ToSet(j.timers) : m.t \in Everyone
    <3>1. j.timers \in Seq(Timers) BY <1>1, FieldsOf
    <3>2. ToSet(j.timers) \subseteq Timers BY <3>1, Members
    <3>. QED BY <3>2 DEF Timers
  <2>. QED BY <1>1, <1>6, <1>7, <1>10, <2>1 DEF TimersSound, Remaining
<1>13. Sound(n) /\ SameClock(j, n) BY <1>6, <1>9, <1>11, <1>12 DEF Sound, SameClock
<1>. QED BY <1>2, <1>4, <1>6, <1>7, <1>10, <1>13 DEF Moved

(* A thread that was not started yet.                                       *)
LEMMA StartupIs ==
    ASSUME NEW j, Sound(j), NEW t \in Threads, j.stat[t] = "init", NEW n, n = ThreadStartup(j, t)
    PROVE /\ Woke(j, n, t) /\ n.error = j.error
          /\ Chosen(j, n, t)
          /\ j.lock = 0 => Highest(n) /\ n.stat[n.current] = "running"
<1>0. PICK s \in Stats : s = "suspend" BY DEF Stats
<1>1. PICK a : a = Restated(j, t, s) OBVIOUS
<1>2. /\ Sound(a) /\ a.current = j.current /\ a.stat[t] = "suspend"
      /\ (\A u \in Everyone : u # t => a.stat[u] = j.stat[u])
      /\ SameClock(j, a) /\ a.error = j.error /\ a.list = j.list /\ a.timers = j.timers /\ t \in Everyone
  <2>1. s # "ready" /\ s # "running" /\ s # "init" BY <1>0
  <2>2. Moved(j, a, t, s) BY <1>1, <2>1, StatIs
  <2>. QED BY <1>0, <2>2 DEF Moved
<1>3. PICK w : w = ResumeThread(a, t) OBVIOUS
<1>4. Woke(a, w, t) /\ w.error = a.error /\ w.current = a.current BY <1>2, <1>3, ResumeIs
<1>5. n = Schedule(w) BY <1>0, <1>1, <1>3 DEF ThreadStartup, Restated
<1>6. Woke(j, w, t)
  <2>1. \A u \in Everyone : u # t => (Awake(w, u) <=> Awake(j, u)) /\ (~Awake(j, u) => w.stat[u] = j.stat[u])
    BY <1>2, <1>4 DEF Woke, Awake
  <2>2. SameClock(j, w) BY <1>2, <1>4 DEF Woke, SameClock
  <2>3. /\ \A l \in WaitLists : ToSet(w.list[l]) = ToSet(j.list[l]) \ {t}
        /\ ToSet(w.timers) = {m \in ToSet(j.timers) : m.t # t}
    BY <1>2, <1>4 DEF Woke
  <2>. QED BY <1>4, <2>1, <2>2, <2>3 DEF Woke
<1>7. /\ Woke(j, n, t) /\ n.error = w.error
      /\ w.lock # 0 => n = w
      /\ w.lock = 0 => Highest(n) /\ n.stat[n.current] = "running"
  BY <1>2, <1>5, <1>6, ScheduleWoken
<1>8. w.lock = j.lock BY <1>6 DEF Woke, SameClock
<1>9. w.current = j.current BY <1>2, <1>4
<1>10. Chosen(j, n, t) BY <1>6, <1>7, <1>8, <1>9 DEF Chosen
<1>. QED BY <1>2, <1>4, <1>6, <1>7, <1>8, <1>10

(* A thread returns from its entry function.                                *)
LEMMA ExitIs ==
    ASSUME NEW j, Sound(j), NEW t \in Threads, j.stat[t] = "running", j.lock = 0, NEW n, n = ThreadExit(j, t)
    PROVE /\ Sound(n) /\ SameClock(j, n) /\ n.error = j.error /\ n.timers = j.timers
          /\ n.list["wait"] = j.list["wait"] /\ n.list["send"] = j.list["send"]
          /\ n.stat[t] = "close"
          /\ \A u \in Everyone : u # t => (Awake(n, u) <=> Awake(j, u)) /\ (~Awake(j, u) => n.stat[u] = j.stat[u])
          /\ Highest(n) /\ n.stat[n.current] = "running"
<1>0. PICK s \in Stats : s = "close" BY DEF Stats
<1>1. PICK a : a = Restated(j, t, s) OBVIOUS
<1>2. /\ Sound(a) /\ a.current = j.current /\ a.stat[t] = "close"
      /\ (\A u \in Everyone : u # t => a.stat[u] = j.stat[u])
      /\ SameClock(j, a) /\ a.error = j.error /\ a.list = j.list /\ a.timers = j.timers
      /\ t \in Everyone /\ t \notin ToSet(j.list["wait"]) /\ t \notin ToSet(j.list["send"])
      /\ t \notin ToSet(j.list["dead"]) /\ \A m \in ToSet(j.timers) : m.t # t
  <2>1. s # "ready" /\ s # "running" /\ s # "init" BY <1>0
  <2>2. Moved(j, a, t, s) BY <1>1, <2>1, StatIs
  <2>. QED BY <1>0, <2>2 DEF Moved
<1>3. a \in Kernels /\ QueuesSound(a) /\ ListsSound(a) /\ TimersSound(a) BY <1>2 DEF Sound
<1>4. RemoveThread(j, t) = j BY <1>2, RemoveRunning
<1>5. TimerStop(j, t) = j BY <1>2, TimerStopIs
<1>6. PICK q : q = <<t>> \o a.list["dead"] OBVIOUS
<1>7. a.list \in [WaitLists -> Seq(Everyone)] /\ "dead" \in WaitLists BY <1>3, FieldsOf DEF WaitLists
<1>8. q \in Seq(Everyone) /\ IsInjective(q) /\ ToSet(q) = ToSet(a.list["dead"]) \cup {t}
  <2>1. PICK d \in Seq(Everyone) : d = a.list["dead"] BY <1>7
  <2>2. IsInjective(d) /\ t \notin ToSet(d) BY <1>2, <1>3, <1>7, <2>1 DEF ListsSound
  <2>3. <<t>> \o d \in Seq(Everyone) /\ IsInjective(<<t>> \o d) /\ ToSet(<<t>> \o d) = ToSet(d) \cup {t}
    BY <1>2, <2>2, PrependIs
  <2>. QED BY <1>6, <2>1, <2>3
<1>9. PICK ls : ls = [a.list EXCEPT !["dead"] = q] OBVIOUS
<1>10. ls \in [WaitLists -> Seq(Everyone)] /\ ls["dead"] = q /\ \A x \in WaitLists : x # "dead" => ls[x] = a.list[x]
  BY <1>7, <1>8, <1>9
<1>11. PICK w : w = [a EXCEPT !.list = ls] OBVIOUS
<1>12. /\ w \in Kernels /\ w.current = a.current /\ w.stat = a.stat /\ w.yield = a.yield /\ w.ready = a.ready
       /\ w.group = a.group /\ w.prio = a.prio /\ w.tick = a.tick /\ w.lock = a.lock
       /\ w.error = a.error /\ w.timers = a.timers /\ w.list = ls
  BY <1>3, <1>10, <1>11 DEF Kernels
<1>13. n = Schedule(w)
  <2>1. n = Schedule([j EXCEPT !.stat[t] = "close", !.list["dead"] = <<t>> \o j.list["dead"]])
    BY <1>4, <1>5 DEF ThreadExit
  <2>2. w = [[j EXCEPT !.stat[t] = "close"] EXCEPT !.list = [j.list EXCEPT !["dead"] = <<t>> \o j.list["dead"]]]
    BY <1>0, <1>1, <1>2, <1>6, <1>9, <1>11 DEF Restated
  <2>3. j \in Kernels BY DEF Sound
  <2>4. w = [j EXCEPT !.stat[t] = "close", !.list["dead"] = <<t>> \o j.list["dead"]] BY <2>2, <2>3 DEF Kernels
  <2>. QED BY <2>1, <2>4
<1>14. "wait" \in WaitLists /\ "send" \in WaitLists BY DEF WaitLists
<1>15. ListsSound(w)
  <2>1. \A x \in WaitLists : IsInjective(w.list[x]) BY <1>3, <1>8, <1>10, <1>12 DEF ListsSound
  <2>2. w.list["wait"] = a.list["wait"] /\ w.list["send"] = a.list["send"] /\ w.list["dead"] = q
    BY <1>10, <1>12, <1>14
  <2>3. \A u \in Everyone : u \in ToSet(q) => a.stat[u] = "close" BY <1>2, <1>3, <1>8 DEF ListsSound
  <2>. QED BY <1>3, <1>12, <2>1, <2>2, <2>3 DEF ListsSound
<1>16. SameQueues(a, w) /\ SameClock(a, w) BY <1>12 DEF SameQueues, SameClock
<1>17. Sound(w) BY <1>3, <1>12, <1>15, <1>16, QueuesKept, TimersKept DEF Sound
<1>18. w.lock = 0 BY <1>2, <1>12 DEF SameClock
<1>19. /\ Sound(n) /\ SameStatus(w, n) /\ SameClock(w, n)
       /\ n.error = w.error /\ n.list = w.list /\ n.timers = w.timers
       /\ Highest(n) /\ n.stat[n.current] = "running"
  BY <1>13, <1>17, <1>18, ScheduleIs
<1>20. SameClock(j, n) BY <1>2, <1>16, <1>19 DEF SameClock
<1>21. n.stat[t] = "close" BY <1>2, <1>12, <1>19 DEF SameStatus, Awake
<1>22. \A u \in Everyone : u # t => (Awake(n, u) <=> Awake(j, u)) /\ (~Awake(j, u) => n.stat[u] = j.stat[u])
  BY <1>2, <1>12, <1>19 DEF SameStatus, Awake
<1>23. n.list["wait"] = j.list["wait"] /\ n.list["send"] = j.list["send"] BY <1>2, <1>10, <1>12, <1>14, <1>19
<1>. QED BY <1>2, <1>12, <1>19, <1>20, <1>21, <1>22, <1>23

LEMMA DefunctIs ==
    ASSUME NEW j, Sound(j), j.list["dead"] # <<>>, NEW n, n = Unlink(j, Head(j.list["dead"]))
    PROVE /\ Sound(n) /\ SameQueues(j, n) /\ SameClock(j, n) /\ n.error = j.error /\ n.timers = j.timers
          /\ ToSet(n.list["wait"]) = ToSet(j.list["wait"]) /\ ToSet(n.list["send"]) = ToSet(j.list["send"])
<1>1. j \in Kernels /\ ListsSound(j) BY DEF Sound
<1>2. j.list["dead"] \in Seq(Everyone) BY <1>1, FieldsOf DEF WaitLists
<1>3. PICK t \in Everyone : t = Head(j.list["dead"]) /\ t \in ToSet(j.list["dead"]) BY <1>2, Members
<1>4. j.stat[t] = "close" BY <1>1, <1>3 DEF ListsSound
<1>5. n = Unlink(j, t) /\ j.stat[t] # "ready" BY <1>3, <1>4
<1>6. /\ Sound(n) /\ SameQueues(j, n) /\ SameClock(j, n) /\ n.error = j.error /\ n.timers = j.timers
      /\ \A l \in WaitLists : ToSet(n.list[l]) = ToSet(j.list[l]) \ {t}
  <2>1. Unlinked(j, n, t) BY <1>5, UnlinkIs
  <2>. QED BY <2>1 DEF Unlinked
<1>7. t \notin ToSet(j.list["wait"]) /\ t \notin ToSet(j.list["send"]) BY <1>4, NotThere
<1>. QED BY <1>6, <1>7 DEF WaitLists

----------------------------------------------------------------------------
(* What the steps do to the kernel and the calls together.                  *)
LEMMA CurrentKept ==
    ASSUME NEW j, NEW n, NEW c, CurrentSound(j, c), TurnSound(j, n), n.lock = j.lock, j.lock \in {0, 1}
    PROVE CurrentSound(n, c)
<1>1. CASE n.current = j.current /\ (n.stat[n.current] = j.stat[j.current] \/ n.stat[n.current] = "running")
  BY <1>1 DEF CurrentSound
<1>2. CASE j.lock = 0 /\ n.stat[n.current] = "running"
  <2>1. ~(j.lock = 1) BY <1>2
  <2>2. \A t \in Threads : c[t].pc # "locked" BY <2>1 DEF CurrentSound
  <2>. QED BY <1>2, <2>1, <2>2 DEF CurrentSound
<1>. QED BY <1>1, <1>2 DEF TurnSound

(* A thread was woken; who runs is as it was, or rt_schedule chose.         *)
LEMMA WokeTurns ==
    ASSUME NEW j, Sound(j), NEW c, CurrentSound(j, c), NEW n, NEW t, Woke(j, n, t), n.current = j.current
    PROVE TurnSound(j, n)
<1>1. n.stat[n.current] # "ready" BY DEF Woke, Sound, QueuesSound
<1>2. j.current \in Everyone /\ n.current \in Everyone BY FieldsOf DEF Woke, Sound
<1>3. j.stat[j.current] \in {"running", "suspend"} BY DEF CurrentSound
<1>4. CASE n.current = t BY <1>1, <1>4 DEF Woke, Awake, TurnSound
<1>5. CASE n.current # t /\ j.stat[j.current] = "running"
  <2>1. Awake(n, n.current) BY <1>2, <1>5 DEF Woke, Awake
  <2>. QED BY <1>1, <2>1 DEF Awake, TurnSound
<1>6. CASE n.current # t /\ j.stat[j.current] = "suspend"
  <2>1. ~Awake(j, j.current) BY <1>6 DEF Awake
  <2>2. n.stat[n.current] = j.stat[j.current] BY <1>2, <1>6, <2>1 DEF Woke
  <2>. QED BY <2>2 DEF TurnSound
<1>. QED BY <1>3, <1>4, <1>5, <1>6

(* The threads that are suspended or have a timer are threads of the        *)
(* application.                                                             *)
LEMMA Sleeping ==
    ASSUME NEW j, Sound(j)
    PROVE /\ \A t \in Everyone : j.stat[t] = "suspend" => t \in Threads
          /\ \A m \in ToSet(j.timers) : m \in Timers /\ m.t \in Threads /\ j.stat[m.t] = "suspend"
<1>1. j \in Kernels /\ QueuesSound(j) /\ TimersSound(j) BY DEF Sound
<1>2. j.stat[Idle] # "suspend" BY <1>1 DEF QueuesSound, Awake
<1>3. \A t \in Everyone : j.stat[t] = "suspend" => t \in Threads BY <1>2 DEF Everyone
<1>4. j.timers \in Seq(Timers) BY <1>1, FieldsOf
<1>5. ToSet(j.timers) \subseteq Timers BY <1>4, Members
<1>6. \A m \in ToSet(j.timers) : m.t \in Everyone BY <1>5 DEF Timers
<1>. QED BY <1>1, <1>3, <1>5, <1>6 DEF TimersSound

LEMMA WakeableWoke ==
    ASSUME NEW j, Wakeable(j), NEW n, NEW t \in Everyone, Woke(j, n, t)
    PROVE Wakeable(n)
<1>1. SUFFICES ASSUME NEW u \in Everyone, n.stat[u] = "suspend"
               PROVE u \in ToSet(n.list["wait"]) \cup ToSet(n.list["send"]) \/ \E m \in ToSet(n.timers) : m.t = u
  BY DEF Wakeable
<1>2. u # t /\ ~Awake(n, u) BY <1>1 DEF Woke, Awake
<1>3. j.stat[u] = "suspend" BY <1>1, <1>2 DEF Woke, Awake
<1>4. u \in ToSet(j.list["wait"]) \cup ToSet(j.list["send"]) \/ \E m \in ToSet(j.timers) : m.t = u
  BY <1>3 DEF Wakeable
<1>5. "wait" \in WaitLists /\ "send" \in WaitLists BY DEF WaitLists
<1>. QED BY <1>2, <1>4, <1>5 DEF Woke

LEMMA WokeKeeps ==
    ASSUME NEW j, NEW c, NEW is, NEW lp, NEW kd, CoreInv(j, c, is, lp, kd),
           NEW n, NEW t \in Everyone, Woke(j, n, t), TurnSound(j, n), lp = "reset" => n.current = j.current
    PROVE CoreInv(n, c, is, lp, kd)
<1>1. /\ Sound(j) /\ Wakeable(j) /\ CurrentSound(j, c) /\ CallsSound(c) /\ LoopSound(j, c, is, lp, kd)
      /\ WaitersSound(j, c, kd) /\ TimedSound(j, c, is)
  BY DEF CoreInv
<1>2. Sound(n) /\ SameClock(j, n) BY DEF Woke
<1>3. Wakeable(n) BY <1>1, WakeableWoke
<1>4. n.lock = j.lock /\ j.lock \in {0, 1} BY <1>1, <1>2, FieldsOf DEF SameClock, Sound
<1>5. CurrentSound(n, c) BY <1>1, <1>4, CurrentKept
<1>6. LoopSound(n, c, is, lp, kd) BY <1>1 DEF LoopSound
<1>7. "wait" \in WaitLists /\ "send" \in WaitLists BY DEF WaitLists
<1>8. WaitersSound(n, c, kd) BY <1>1, <1>7 DEF WaitersSound, Woke
<1>9. TimedSound(n, c, is)
  <2>1. \A m : Remaining(n, m) = Remaining(j, m) BY <1>2 DEF Remaining, SameClock
  <2>2. \A m \in ToSet(n.timers) : m \in ToSet(j.timers) BY DEF Woke
  <2>. QED BY <1>1, <2>1, <2>2 DEF TimedSound
<1>. QED BY <1>1, <1>2, <1>3, <1>5, <1>6, <1>8, <1>9 DEF CoreInv

(* Nobody was woken or blocked.                                             *)
Stood(j, n) ==
    /\ Sound(n) /\ SameStatus(j, n) /\ n.tick = j.tick /\ n.timers = j.timers
    /\ ToSet(n.list["wait"]) = ToSet(j.list["wait"]) /\ ToSet(n.list["send"]) = ToSet(j.list["send"])

LEMMA WakeableStood ==
    ASSUME NEW j, Wakeable(j), NEW n, SameStatus(j, n), ToSet(n.timers) = ToSet(j.timers),
           ToSet(n.list["wait"]) = ToSet(j.list["wait"]), ToSet(n.list["send"]) = ToSet(j.list["send"])
    PROVE Wakeable(n)
<1>1. \A u \in Everyone : n.stat[u] = "suspend" => j.stat[u] = "suspend" BY DEF SameStatus, Awake
<1>. QED BY <1>1 DEF Wakeable

Alike(c, d) == \A t \in Threads : d[t].op = c[t].op /\ d[t].left = c[t].left /\ d[t].spent = c[t].spent
LEMMA StoodKeeps ==
    ASSUME NEW j, NEW c, NEW is, NEW lp, NEW kd, CoreInv(j, c, is, lp, kd),
           NEW n, Stood(j, n), NEW d, CallsSound(d), CurrentSound(n, d), Alike(c, d),
           NEW lq, LoopSound(n, d, is, lq, kd)
    PROVE CoreInv(n, d, is, lq, kd)
<1>1. /\ Sound(j) /\ Wakeable(j) /\ WaitersSound(j, c, kd) /\ TimedSound(j, c, is)
  BY DEF CoreInv
<1>2. Sound(n) BY DEF Stood
<1>3. Wakeable(n) BY <1>1, WakeableStood DEF Stood
<1>4. WaitersSound(n, d, kd) BY <1>1 DEF WaitersSound, Stood, Alike
<1>5. TimedSound(n, d, is)
  <2>1. \A m \in ToSet(n.timers) : m \in ToSet(j.timers) /\ Remaining(n, m) = Remaining(j, m) /\ m.t \in Threads
    BY <1>1, Sleeping DEF Remaining, Stood
  <2>. QED BY <1>1, <2>1 DEF TimedSound, TimedOne, Alike
<1>. QED BY <1>2, <1>3, <1>4, <1>5 DEF CoreInv

----------------------------------------------------------------------------
(* The tick: every timer is one tick nearer.                                *)
Advanced(j, n) ==
    /\ n \in Kernels /\ SameQueues(j, n) /\ n.prio = j.prio /\ n.lock = j.lock
    /\ n.error = j.error /\ n.list = j.list /\ n.timers = j.timers /\ n.tick = (j.tick + 1) % TickWidth
Nearer(j, n) == \A m \in ToSet(j.timers) : Remaining(n, m) = Remaining(j, m) - 1
LEMMA AdvanceIs ==
    ASSUME NEW j, Sound(j), \A m \in ToSet(j.timers) : Remaining(j, m) >= 1,
           NEW n, n = [j EXCEPT !.tick = (@ + 1) % TickWidth]
    PROVE Advanced(j, n) /\ Sound(n) /\ Nearer(j, n)
<1>1. j \in Kernels /\ QueuesSound(j) /\ ListsSound(j) /\ TimersSound(j) BY DEF Sound
<1>2. j.tick \in 0..TickWidth - 1 /\ j.timers \in Seq(Timers) BY <1>1, FieldsOf
<1>3. PICK x : x = (j.tick + 1) % TickWidth OBVIOUS
<1>4. x \in 0..TickWidth - 1 BY <1>2, <1>3, Halves
<1>5. n = [j EXCEPT !.tick = x] BY <1>3
<1>6. n \in Kernels /\ SameQueues(j, n) /\ n.prio = j.prio /\ n.lock = j.lock /\ n.error = j.error
      /\ n.list = j.list /\ n.timers = j.timers /\ n.tick = x
  BY <1>1, <1>4, <1>5 DEF Kernels, SameQueues
<1>7. Advanced(j, n) BY <1>3, <1>6 DEF Advanced
<1>8. Nearer(j, n)
  <2>1. SUFFICES ASSUME NEW m \in ToSet(j.timers) PROVE Remaining(n, m) = Remaining(j, m) - 1 BY DEF Nearer
  <2>2. m \in Timers BY <1>2, Members
  <2>3. m.at \in 0..TickWidth - 1 BY <2>2 DEF Timers
  <2>4. Before(j.tick, m.at) >= 1 BY DEF Remaining
  <2>5. Before((j.tick + 1) % TickWidth, m.at) = Before(j.tick, m.at) - 1 BY <1>2, <2>3, <2>4, Ticked
  <2>. QED BY <1>3, <1>6, <2>5 DEF Remaining
<1>9. QueuesSound(n) BY <1>1, <1>6, QueuesKept
<1>10. n.stat = j.stat BY <1>6 DEF SameQueues
<1>11. ListsSound(n) BY <1>1, <1>6, <1>10, ListsKept
<1>12. TimersSound(n)
  <2>1. Once(j.timers) /\ Sorted(j.timers, j.tick) BY <1>1 DEF TimersSound
  <2>2. /\ \A m \in ToSet(j.timers) : j.stat[m.t] = "suspend" /\ Remaining(j, m) < Half
    BY <1>1 DEF TimersSound
  <2>3. \A m \in ToSet(j.timers) : Remaining(j, m) \in Nat
    <3>1. \A m \in ToSet(j.timers) : m \in Timers BY <1>2, Members
    <3>. QED BY <1>2, <3>1, TimerIs DEF Remaining
  <2>4. \A m \in ToSet(j.timers) : Remaining(n, m) < Half BY <1>8, <2>2, <2>3, Halves DEF Nearer
  <2>5. Sorted(j.timers, x)
    <3>1. SUFFICES ASSUME NEW a \in 1..Len(j.timers), NEW b \in 1..Len(j.timers), a <= b
                   PROVE Before(x, j.timers[a].at) <= Before(x, j.timers[b].at)
      BY DEF Sorted
    <3>2. j.timers[a] \in ToSet(j.timers) /\ j.timers[b] \in ToSet(j.timers) BY <1>2, Members
    <3>3. Before(j.tick, j.timers[a].at) <= Before(j.tick, j.timers[b].at) BY <2>1, <3>1 DEF Sorted
    <3>4. PICK m1 \in ToSet(j.timers), m2 \in ToSet(j.timers) : m1 = j.timers[a] /\ m2 = j.timers[b] BY <3>2
    <3>5. Before(x, m1.at) = Before(j.tick, m1.at) - 1 /\ Before(x, m2.at) = Before(j.tick, m2.at) - 1
      BY <1>6, <1>8 DEF Nearer, Remaining
    <3>6. Before(j.tick, m1.at) \in Nat /\ Before(j.tick, m2.at) \in Nat BY <2>3 DEF Remaining
    <3>7. Before(j.tick, m1.at) <= Before(j.tick, m2.at) BY <3>3, <3>4
    <3>8. Before(x, m1.at) <= Before(x, m2.at) BY <3>5, <3>6, <3>7
    <3>. QED BY <3>4, <3>8
  <2>. QED BY <1>6, <1>10, <2>1, <2>2, <2>4, <2>5 DEF TimersSound
<1>. QED BY <1>6, <1>7, <1>8, <1>9, <1>11, <1>12 DEF Sound

(* The current thread gives up its turn, or keeps it.                       *)
LEMMA YieldIs ==
    ASSUME NEW j, Sound(j), NEW t \in Everyone, NEW n, n = Schedule([j EXCEPT !.yield[t] = TRUE])
    PROVE /\ Sound(n) /\ SameStatus(j, n) /\ SameClock(j, n)
          /\ n.error = j.error /\ n.list = j.list /\ n.timers = j.timers
          /\ j.lock # 0 => n.current = j.current /\ n.stat = j.stat /\ n.group = j.group
          /\ j.lock = 0 => Highest(n) /\ n.stat[n.current] = "running"
<1>1. j \in Kernels BY DEF Sound
<1>2. PICK y : y = [j.yield EXCEPT ![t] = TRUE] OBVIOUS
<1>3. PICK m : m = [j EXCEPT !.yield = y] OBVIOUS
<1>4. y \in [Everyone -> BOOLEAN] BY <1>1, <1>2, FieldsOf
<1>5. m \in Kernels /\ m.current = j.current /\ m.stat = j.stat /\ m.ready = j.ready /\ m.group = j.group
      /\ m.prio = j.prio /\ m.tick = j.tick /\ m.list = j.list /\ m.timers = j.timers
      /\ m.error = j.error /\ m.lock = j.lock
  BY <1>1, <1>3, <1>4 DEF Kernels
<1>6. Sound(m) BY <1>5, MarkIs
<1>7. n = Schedule(m) BY <1>2, <1>3
<1>8. /\ Sound(n) /\ SameStatus(m, n) /\ SameClock(m, n)
      /\ n.error = m.error /\ n.list = m.list /\ n.timers = m.timers
      /\ m.lock # 0 => n = m
      /\ m.lock = 0 => Highest(n) /\ n.stat[n.current] = "running"
  BY <1>6, <1>7, ScheduleIs
<1>9. SameStatus(j, n) BY <1>5, <1>8 DEF SameStatus, Awake
<1>10. SameClock(j, n) BY <1>5, <1>8 DEF SameClock
<1>. QED BY <1>5, <1>8, <1>9, <1>10

LEMMA TickIs ==
    ASSUME NEW j, Sound(j), \A m \in ToSet(j.timers) : Remaining(j, m) >= 1, NEW e \in BOOLEAN,
           NEW n, n = TickIncrease(j, e)
    PROVE /\ Sound(n) /\ SameStatus(j, n) /\ n.list = j.list /\ n.timers = j.timers /\ n.error = j.error
          /\ n.prio = j.prio /\ n.lock = j.lock /\ Nearer(j, n)
          /\ \/ n.current = j.current /\ n.stat = j.stat /\ n.group = j.group
             \/ j.lock = 0 /\ Highest(n) /\ n.stat[n.current] = "running"
<1>1. PICK m : m = [j EXCEPT !.tick = (@ + 1) % TickWidth] OBVIOUS
<1>2. Advanced(j, m) /\ Sound(m) /\ Nearer(j, m) BY <1>1, AdvanceIs
<1>3. m.current = j.current /\ m.stat = j.stat /\ m.group = j.group /\ m.prio = j.prio /\ m.lock = j.lock
      /\ m.error = j.error /\ m.list = j.list /\ m.timers = j.timers
  BY <1>2 DEF Advanced, SameQueues
<1>4. n = IF e THEN Schedule([m EXCEPT !.yield[j.current] = TRUE]) ELSE m BY <1>1 DEF TickIncrease
<1>5. CASE ~e
  <2>1. n = m BY <1>4, <1>5
  <2>. QED BY <1>2, <1>3, <2>1 DEF SameStatus, Awake
<1>6. CASE e
  <2>1. n = Schedule([m EXCEPT !.yield[j.current] = TRUE]) BY <1>4, <1>6
  <2>2. j.current \in Everyone BY FieldsOf DEF Sound
  <2>3. /\ Sound(n) /\ SameStatus(m, n) /\ SameClock(m, n)
        /\ n.error = m.error /\ n.list = m.list /\ n.timers = m.timers
        /\ m.lock # 0 => n.current = m.current /\ n.stat = m.stat /\ n.group = m.group
        /\ m.lock = 0 => Highest(n) /\ n.stat[n.current] = "running"
    BY <1>2, <2>1, <2>2, YieldIs
  <2>4. SameStatus(j, n) BY <1>3, <2>3 DEF SameStatus, Awake
  <2>5. Nearer(j, n) BY <1>2, <2>3 DEF Nearer, Remaining, SameClock
  <2>6. n.prio = j.prio /\ n.lock = j.lock BY <1>3, <2>3 DEF SameClock
  <2>. QED BY <1>3, <2>3, <2>4, <2>5, <2>6
<1>. QED BY <1>5, <1>6

(* The lock of the scheduler.                                               *)
LEMMA LockIs ==
    ASSUME NEW j, Sound(j), NEW l \in {0, 1}, NEW n, n = [j EXCEPT !.lock = l]
    PROVE /\ Sound(n) /\ SameQueues(j, n) /\ n.prio = j.prio /\ n.tick = j.tick /\ n.lock = l
          /\ n.error = j.error /\ n.list = j.list /\ n.timers = j.timers
<1>1. j \in Kernels BY DEF Sound
<1>2. n \in Kernels /\ SameQueues(j, n) /\ n.prio = j.prio /\ n.tick = j.tick /\ n.lock = l
      /\ n.error = j.error /\ n.list = j.list /\ n.timers = j.timers
  BY <1>1 DEF Kernels, SameQueues
<1>. QED BY <1>2, MarkIs DEF SameQueues
LEMMA EnterIs ==
    ASSUME NEW j, Sound(j), j.lock = 0, NEW n, n = EnterCritical(j)
    PROVE /\ Sound(n) /\ SameQueues(j, n) /\ n.prio = j.prio /\ n.tick = j.tick /\ n.lock = 1
          /\ n.error = j.error /\ n.list = j.list /\ n.timers = j.timers
<1>1. n = [j EXCEPT !.lock = 1] BY DEF EnterCritical
<1>. QED BY <1>1, LockIs
LEMMA ExitCriticalIs ==
    ASSUME NEW j, Sound(j), NEW n, n = ExitCritical(j)
    PROVE /\ Sound(n) /\ SameStatus(j, n) /\ n.prio = j.prio /\ n.tick = j.tick /\ n.lock = 0
          /\ n.error = j.error /\ n.list = j.list /\ n.timers = j.timers
          /\ Highest(n) /\ n.stat[n.current] = "running"
<1>1. j.lock \in {0, 1} BY FieldsOf DEF Sound
<1>2. PICK m : m = [j EXCEPT !.lock = 0] OBVIOUS
<1>3. n = Schedule(m) BY <1>1, <1>2 DEF ExitCritical
<1>4. 0 \in {0, 1} OBVIOUS
<1>5. /\ Sound(m) /\ SameQueues(j, m) /\ m.prio = j.prio /\ m.tick = j.tick /\ m.lock = 0
      /\ m.error = j.error /\ m.list = j.list /\ m.timers = j.timers
  BY <1>2, <1>4, LockIs
<1>6. /\ Sound(n) /\ SameStatus(m, n) /\ SameClock(m, n)
      /\ n.error = m.error /\ n.list = m.list /\ n.timers = m.timers
      /\ Highest(n) /\ n.stat[n.current] = "running"
  BY <1>3, <1>5, ScheduleIs
<1>7. SameStatus(j, n) BY <1>5, <1>6 DEF SameStatus, SameQueues, Awake
<1>. QED BY <1>5, <1>6, <1>7 DEF SameClock

(* The call of the thread that runs becomes r.                              *)
Calls(c, d, t, r) == d = [c EXCEPT ![t] = r]
LEMMA CallsIs ==
    ASSUME NEW c, CallsSound(c), NEW t \in Threads, NEW r \in CallsOf, NEW d, Calls(c, d, t, r)
    PROVE d \in [Threads -> CallsOf] /\ d[t] = r /\ \A u \in Threads : u # t => d[u] = c[u]
BY DEF CallsSound, Calls
CallSound(r) ==
    /\ r.pc \in {"user", "locked"} => r.op = "none"
    /\ r.pc = "mark" => r.op = "sleep"
    /\ r.pc = "again" => r.op = "alloc"
    /\ r.spent = 0 \/ r.spent <= r.left
LEMMA CallsStay ==
    ASSUME NEW c, CallsSound(c), NEW t \in Threads, NEW r \in CallsOf, CallSound(r), NEW d, Calls(c, d, t, r)
    PROVE CallsSound(d)
<1>1. d \in [Threads -> CallsOf] /\ d[t] = r /\ \A u \in Threads : u # t => d[u] = c[u] BY CallsIs
<1>. QED BY <1>1 DEF CallsSound, CallSound

(* A thread that runs waits on no list and has no timer.                    *)
LEMMA RunnerFree ==
    ASSUME NEW j, Sound(j), NEW c, CurrentSound(j, c), NEW t \in Threads, t = j.current,
           c[t].pc \notin {"mark", "sched"}
    PROVE /\ j.stat[t] = "running" /\ t \in Everyone
          /\ t \notin ToSet(j.list["wait"]) /\ t \notin ToSet(j.list["send"])
          /\ \A m \in ToSet(j.timers) : m.t # t
          /\ c[t].pc # "locked" => j.lock = 0 /\ \A u \in Threads : c[u].pc # "locked"
<1>1. j.stat[t] = "running" BY DEF CurrentSound
<1>2. t \in Everyone BY DEF Everyone
<1>3. t \notin ToSet(j.list["wait"]) /\ t \notin ToSet(j.list["send"]) /\ \A m \in ToSet(j.timers) : m.t # t
  BY <1>1, <1>2, NotThere
<1>4. ASSUME c[t].pc # "locked" PROVE j.lock = 0 /\ \A u \in Threads : c[u].pc # "locked"
  <2>1. \A u \in Threads : c[u].pc # "locked" BY <1>4 DEF CurrentSound
  <2>2. j.lock \in {0, 1} BY FieldsOf DEF Sound
  <2>. QED BY <2>1, <2>2 DEF CurrentSound
<1>. QED BY <1>1, <1>2, <1>3, <1>4

(* The call of a thread that runs is over.                                  *)
LEMMA ReturnKeeps ==
    ASSUME NEW j, NEW c, NEW is, NEW lp, NEW kd, CoreInv(j, c, is, lp, kd),
           NEW t \in Threads, t = j.current, c[t].pc \notin {"mark", "sched"},
           NEW r \in CallsOf, CallSound(r), r.op = "none", NEW d, Calls(c, d, t, r),
           NEW n, Stood(j, n), CurrentSound(n, d), NEW lq, LoopSound(n, d, is, lq, kd)
    PROVE CoreInv(n, d, is, lq, kd)
<1>1. /\ Sound(j) /\ Wakeable(j) /\ CurrentSound(j, c) /\ CallsSound(c)
      /\ WaitersSound(j, c, kd) /\ TimedSound(j, c, is)
  BY DEF CoreInv
<1>2. Sound(n) BY DEF Stood
<1>3. Wakeable(n) BY <1>1, WakeableStood DEF Stood
<1>4. CallsSound(d) BY <1>1, CallsStay
<1>5. d[t] = r /\ \A u \in Threads : u # t => d[u] = c[u] BY <1>1, CallsIs
<1>6. /\ t \notin ToSet(j.list["wait"]) /\ t \notin ToSet(j.list["send"])
      /\ \A m \in ToSet(j.timers) : m.t # t
  BY <1>1, RunnerFree
<1>7. WaitersSound(n, d, kd)
  <2>1. \A u \in Threads : u \in ToSet(n.list["wait"]) => d[u].op = WaitOp(kd)
    BY <1>1, <1>5, <1>6 DEF WaitersSound, Stood
  <2>2. \A u \in Threads : u \in ToSet(n.list["send"]) => d[u].op = "send" /\ kd = "mailbox"
    BY <1>1, <1>5, <1>6 DEF WaitersSound, Stood
  <2>3. \A u \in Threads : d[u].op \in {"none", "sleep", WaitOp(kd)} \/ (kd = "mailbox" /\ d[u].op = "send")
    BY <1>1, <1>5 DEF WaitersSound
  <2>4. kd = "completion" => \A u, v \in Threads : d[u].op = "done" /\ d[v].op = "done" => u = v
    BY <1>1, <1>5 DEF WaitersSound
  <2>. QED BY <2>1, <2>2, <2>3, <2>4 DEF WaitersSound
<1>8. TimedSound(n, d, is)
  <2>1. \A m \in ToSet(n.timers) : m \in ToSet(j.timers) /\ Remaining(n, m) = Remaining(j, m) /\ m.t \in Threads
    BY <1>1, Sleeping DEF Remaining, Stood
  <2>2. \A m \in ToSet(n.timers) : d[m.t] = c[m.t] BY <1>5, <1>6, <2>1
  <2>. QED BY <1>1, <2>1, <2>2 DEF TimedSound
<1>. QED BY <1>2, <1>3, <1>4, <1>7, <1>8 DEF CoreInv

(* The call of a thread that runs waits on the lists in S.                  *)
WaitStarts(r, S, cnt, kd) ==
    /\ r.spent = 0
    /\ \/ S = {} /\ r.op = "sleep" /\ r.pc = "mark" /\ cnt >= 1
       \/ S = {"wait"} /\ r.op = WaitOp(kd) /\ r.pc = "sched" /\ r.left = cnt
       \/ S = {"send"} /\ r.op = "send" /\ kd = "mailbox" /\ r.pc = "sched" /\ r.left = cnt
LEMMA BlockKeeps ==
    ASSUME NEW j, NEW c, NEW kd, CoreInv(j, c, "none", "none", kd),
           NEW t \in Threads, t = j.current, c[t].pc \notin {"mark", "sched", "locked"},
           NEW r \in CallsOf, NEW S, NEW cnt \in -1..Half - 1, WaitStarts(r, S, cnt, kd), NEW d, Calls(c, d, t, r),
           kd = "completion" => r.op # "done" \/ \A u \in Threads : c[u].op # "done",
           NEW n, Blocked(j, n, t, S, cnt)
    PROVE CoreInv(n, d, "none", "none", kd)
<1>1. /\ Sound(j) /\ Wakeable(j) /\ CurrentSound(j, c) /\ CallsSound(c) /\ LoopSound(j, c, "none", "none", kd)
      /\ WaitersSound(j, c, kd) /\ TimedSound(j, c, "none")
  BY DEF CoreInv
<1>2. /\ Sound(n) /\ SameClock(j, n) /\ n.current = j.current /\ n.stat = [j.stat EXCEPT ![t] = "suspend"]
      /\ \A l \in WaitLists : ToSet(n.list[l]) = IF l \in S THEN ToSet(j.list[l]) \cup {t} ELSE ToSet(j.list[l])
      /\ cnt <= 0 => n.timers = j.timers
      /\ cnt > 0 => \E m \in Timers : m.t = t /\ Remaining(j, m) = cnt /\ ToSet(n.timers) = ToSet(j.timers) \cup {m}
  BY DEF Blocked
<1>3. CallSound(r) BY DEF WaitStarts, CallSound
<1>4. CallsSound(d) BY <1>1, <1>3, CallsStay
<1>5. d[t] = r /\ \A u \in Threads : u # t => d[u] = c[u] BY <1>1, CallsIs
<1>6. /\ t \notin ToSet(j.list["wait"]) /\ t \notin ToSet(j.list["send"]) /\ t \in Everyone
      /\ \A m \in ToSet(j.timers) : m.t # t
      /\ j.lock = 0 /\ \A u \in Threads : c[u].pc # "locked"
  BY <1>1, RunnerFree
<1>7. "wait" \in WaitLists /\ "send" \in WaitLists BY DEF WaitLists
<1>8. j.stat \in [Everyone -> Stats] BY <1>1, FieldsOf DEF Sound
<1>9. \A m \in ToSet(j.timers) : m \in ToSet(n.timers) BY <1>2
<1>10. Wakeable(n)
  <2>1. SUFFICES ASSUME NEW u \in Everyone, n.stat[u] = "suspend"
                 PROVE u \in ToSet(n.list["wait"]) \cup ToSet(n.list["send"]) \/ \E m \in ToSet(n.timers) : m.t = u
    BY DEF Wakeable
  <2>2. CASE u # t
    <3>1. j.stat[u] = "suspend" BY <1>2, <1>8, <2>1, <2>2
    <3>. QED BY <1>1, <1>2, <1>7, <1>9, <3>1 DEF Wakeable
  <2>3. CASE u = t
    <3>1. CASE S = {} /\ cnt >= 1 BY <1>2, <2>3, <3>1
    <3>2. CASE S = {"wait"} BY <1>2, <1>7, <2>3, <3>2
    <3>3. CASE S = {"send"} BY <1>2, <1>7, <2>3, <3>3
    <3>. QED BY <3>1, <3>2, <3>3 DEF WaitStarts
  <2>. QED BY <2>2, <2>3
<1>11. CurrentSound(n, d)
  <2>1. \A u \in Threads : d[u].pc # "locked" BY <1>5, <1>6 DEF WaitStarts
  <2>2. n.lock = 0 BY <1>2, <1>6 DEF SameClock
  <2>3. n.stat[n.current] = "suspend" BY <1>2, <1>6, <1>8
  <2>4. d[n.current].pc \in {"mark", "sched"} BY <1>2, <1>5 DEF WaitStarts
  <2>. QED BY <2>1, <2>2, <2>3, <2>4 DEF CurrentSound
<1>12. LoopSound(n, d, "none", "none", kd) BY DEF LoopSound
<1>13. WaitersSound(n, d, kd)
  <2>0. \A l \in WaitLists : ToSet(n.list[l]) = IF l \in S THEN ToSet(j.list[l]) \cup {t} ELSE ToSet(j.list[l])
    BY <1>2
  <2>1. \A u \in Threads : u \in ToSet(n.list["wait"]) => d[u].op = WaitOp(kd)
    <3>0. \A u \in Threads : u # t /\ u \in ToSet(n.list["wait"]) => u \in ToSet(j.list["wait"])
      <4>1. ToSet(n.list["wait"]) = IF "wait" \in S THEN ToSet(j.list["wait"]) \cup {t} ELSE ToSet(j.list["wait"])
        BY <1>7, <2>0
      <4>. QED BY ONLY <4>1
    <3>1. \A u \in Threads : u # t /\ u \in ToSet(n.list["wait"]) => c[u].op = WaitOp(kd)
      BY <1>1, <3>0 DEF WaitersSound
    <3>2. t \in ToSet(n.list["wait"]) => S = {"wait"} BY <1>2, <1>6, <1>7 DEF WaitStarts
    <3>. QED BY <1>5, <3>1, <3>2 DEF WaitStarts
  <2>2. \A u \in Threads : u \in ToSet(n.list["send"]) => d[u].op = "send" /\ kd = "mailbox"
    <3>0. \A u \in Threads : u # t /\ u \in ToSet(n.list["send"]) => u \in ToSet(j.list["send"])
      <4>1. ToSet(n.list["send"]) = IF "send" \in S THEN ToSet(j.list["send"]) \cup {t} ELSE ToSet(j.list["send"])
        BY <1>7, <2>0
      <4>. QED BY ONLY <4>1
    <3>1. \A u \in Threads : u # t /\ u \in ToSet(n.list["send"]) => c[u].op = "send" /\ kd = "mailbox"
      BY <1>1, <3>0 DEF WaitersSound
    <3>2. t \in ToSet(n.list["send"]) => S = {"send"} BY <1>2, <1>6, <1>7 DEF WaitStarts
    <3>. QED BY <1>5, <3>1, <3>2 DEF WaitStarts
  <2>3. \A u \in Threads : d[u].op \in {"none", "sleep", WaitOp(kd)} \/ (kd = "mailbox" /\ d[u].op = "send")
    BY <1>1, <1>5 DEF WaitersSound, WaitStarts
  <2>4. kd = "completion" => \A u, v \in Threads : d[u].op = "done" /\ d[v].op = "done" => u = v
    BY <1>1, <1>5 DEF WaitersSound
  <2>. QED BY <2>1, <2>2, <2>3, <2>4 DEF WaitersSound
<1>14. TimedSound(n, d, "none")
  <2>1. \A m : Remaining(n, m) = Remaining(j, m) BY <1>2 DEF Remaining, SameClock
  <2>2. \A m \in ToSet(j.timers) : m.t \in Threads BY <1>1, Sleeping
  <2>3. \A m \in ToSet(j.timers) : TimedOne(Remaining(n, m), d[m.t], "none")
    BY <1>1, <1>5, <1>6, <2>1, <2>2 DEF TimedSound
  <2>4. CASE cnt <= 0 BY <1>2, <2>3, <2>4 DEF TimedSound
  <2>5. CASE cnt > 0
    <3>1. PICK m \in Timers : m.t = t /\ Remaining(j, m) = cnt /\ ToSet(n.timers) = ToSet(j.timers) \cup {m}
      BY <1>2, <2>5
    <3>2. Remaining(n, m) = cnt /\ d[m.t] = r BY <1>5, <2>1, <3>1
    <3>3. cnt \in Int /\ cnt >= 1 BY <2>5, Halves
    <3>4. r.op # "sleep" => cnt <= r.left BY <3>3 DEF WaitStarts
    <3>5. r.op \in Retried => cnt = r.left - r.spent
      <4>1. r.op \in Retried => r.left = cnt /\ r.spent = 0 BY DEF WaitStarts, Retried
      <4>. QED BY <3>3, <4>1
    <3>6. TimedOne(cnt, r, "none") BY <3>3, <3>4, <3>5 DEF TimedOne
    <3>. QED BY <2>3, <3>1, <3>2, <3>6 DEF TimedSound
  <2>. QED BY <2>4, <2>5, Halves
<1>. QED BY <1>2, <1>4, <1>10, <1>11, <1>12, <1>13, <1>14 DEF CoreInv

----------------------------------------------------------------------------
(* The invariant over the kinds of steps there are.                         *)
ThreadInv(j, c, is, lp, kd) == CoreInv(j, c, is, lp, kd) /\ HighSound(j, c, lp)
LEMMA CoreOf ==
    ASSUME NEW j, NEW c, NEW is, NEW lp, NEW kd, CoreInv(j, c, is, lp, kd)
    PROVE /\ Sound(j) /\ CurrentSound(j, c) /\ CallsSound(c) /\ LoopSound(j, c, is, lp, kd)
          /\ j.lock \in {0, 1} /\ j.current \in Everyone
BY FieldsOf DEF CoreInv, Sound

Running(j, c, t) == t \in Threads /\ t = j.current /\ c[t].pc \in {"user", "woken", "again"}
LEMMA RunnerIs ==
    ASSUME NEW j, NEW c, NEW is, NEW lp, NEW kd, CoreInv(j, c, is, lp, kd), NEW t, Running(j, c, t)
    PROVE /\ t \in Threads /\ t \in Everyone /\ t = j.current /\ c[t].pc \notin {"mark", "sched", "locked"}
          /\ j.stat[t] = "running" /\ j.lock = 0 /\ \A u \in Threads : c[u].pc # "locked"
<1>1. Sound(j) /\ CurrentSound(j, c) BY CoreOf
<1>2. t \in Threads /\ t = j.current /\ c[t].pc \notin {"mark", "sched"} /\ c[t].pc # "locked" BY DEF Running
<1>. QED BY <1>1, <1>2, RunnerFree

LEMMA StoodMarked ==
    ASSUME NEW j, Sound(j), NEW t \in Everyone, NEW e \in Errors, NEW n, n = Marked(j, t, e)
    PROVE /\ Stood(j, n) /\ SameQueues(j, n) /\ SameClock(j, n) /\ n.error = [j.error EXCEPT ![t] = e]
<1>1. /\ Sound(n) /\ SameQueues(j, n) /\ SameClock(j, n) /\ n.list = j.list /\ n.timers = j.timers
      /\ n.error = [j.error EXCEPT ![t] = e]
  BY ErrorIs
<1>. QED BY <1>1 DEF Stood, SameStatus, SameQueues, SameClock, Awake

(* Who runs, and whether the scheduler is locked, are as before.            *)
LEMMA CurrentSame ==
    ASSUME NEW j, NEW c, CurrentSound(j, c), NEW n, SameQueues(j, n), n.lock = j.lock,
           NEW d, \A t \in Threads : d[t].pc = "locked" <=> c[t].pc = "locked",
           j.stat[j.current] = "suspend" => d[j.current].pc \in {"mark", "sched"}
    PROVE CurrentSound(n, d)
<1>1. n.current = j.current /\ n.stat = j.stat BY DEF SameQueues
<1>. QED BY <1>1 DEF CurrentSound

UserCall == AtUser
SchedCall == [AtUser EXCEPT !.pc = "sched"]
LEMMA TheCalls ==
    /\ UserCall \in CallsOf /\ UserCall.op = "none" /\ UserCall.pc = "user" /\ CallSound(UserCall)
    /\ SchedCall \in CallsOf /\ SchedCall.op = "none" /\ SchedCall.pc = "sched" /\ CallSound(SchedCall)
<1>1. 0 \in -1..Half - 1 /\ 0 \in 0..Half - 1 /\ 0 \in MailValues BY Halves DEF MailValues
<1>. QED BY <1>1 DEF UserCall, SchedCall, AtUser, CallsOf, CallSound

(* A call returns, at once or by way of rt_schedule.                        *)
LEMMA ReturnStep ==
    ASSUME NEW j, NEW c, NEW kd, CoreInv(j, c, "none", "none", kd), NEW t, Running(j, c, t),
           NEW r, r = UserCall \/ r = SchedCall, r = UserCall => HighSound(j, c, "none"),
           NEW d, Calls(c, d, t, r), NEW n, n = Marked(j, t, "ok")
    PROVE ThreadInv(n, d, "none", "none", kd)
<1>1. Sound(j) /\ CurrentSound(j, c) /\ CallsSound(c) /\ LoopSound(j, c, "none", "none", kd) BY CoreOf
<1>2. /\ t \in Threads /\ t \in Everyone /\ t = j.current /\ c[t].pc \notin {"mark", "sched", "locked"}
      /\ j.stat[t] = "running" /\ j.lock = 0 /\ \A u \in Threads : c[u].pc # "locked"
  BY RunnerIs
<1>3. "ok" \in Errors BY DEF Errors
<1>4. Stood(j, n) /\ SameQueues(j, n) /\ SameClock(j, n) BY <1>1, <1>2, <1>3, StoodMarked
<1>5. r \in CallsOf /\ CallSound(r) /\ r.op = "none" /\ r.pc # "locked" BY TheCalls
<1>6. d[t] = r /\ \A u \in Threads : u # t => d[u] = c[u] BY <1>1, <1>2, <1>5, CallsIs
<1>7. CurrentSound(n, d)
  <2>1. \A u \in Threads : d[u].pc = "locked" <=> c[u].pc = "locked" BY <1>2, <1>5, <1>6
  <2>2. j.stat[j.current] # "suspend" BY <1>2
  <2>3. n.lock = j.lock BY <1>4 DEF SameClock
  <2>. QED BY <1>1, <1>4, <2>1, <2>2, <2>3, CurrentSame
<1>8. LoopSound(n, d, "none", "none", kd) BY DEF LoopSound
<1>9. c[t].pc \notin {"mark", "sched"} BY <1>2
<1>10. CoreInv(n, d, "none", "none", kd) BY <1>2, <1>4, <1>5, <1>7, <1>8, <1>9, ReturnKeeps
<1>11. n.current = t /\ n.prio = j.prio /\ n.group = j.group BY <1>2, <1>4 DEF SameQueues, SameClock
<1>12. HighSound(n, d, "none")
  <2>1. CASE r = SchedCall BY <1>2, <1>6, <1>11, <2>1, TheCalls DEF HighSound
  <2>2. CASE r = UserCall
    <3>1. Highest(j) BY <1>2, <2>2 DEF HighSound, Running
    <3>. QED BY <1>2, <1>11, <3>1 DEF Highest, HighSound
  <2>. QED BY <2>1, <2>2
<1>. QED BY <1>10, <1>12 DEF ThreadInv

(* The same after another thread was woken.                                 *)
LEMMA ResumeStep ==
    ASSUME NEW j, NEW c, NEW kd, CoreInv(j, c, "none", "none", kd), NEW t, Running(j, c, t),
           NEW w, NEW u \in Everyone, Woke(j, w, u), w.current = j.current,
           NEW d, Calls(c, d, t, SchedCall), NEW n, n = Marked(w, t, "ok")
    PROVE ThreadInv(n, d, "none", "none", kd)
<1>1. Sound(j) /\ CurrentSound(j, c) BY CoreOf
<1>2. TurnSound(j, w) BY <1>1, WokeTurns
<1>3. CoreInv(w, c, "none", "none", kd) BY <1>2, WokeKeeps
<1>4. Running(w, c, t) BY DEF Running
<1>5. SchedCall # UserCall BY TheCalls
<1>. QED BY <1>3, <1>4, <1>5, ReturnStep

(* A call waits.                                                            *)
LEMMA WaitStep ==
    ASSUME NEW j, NEW c, NEW kd, CoreInv(j, c, "none", "none", kd), NEW t, Running(j, c, t),
           NEW r \in CallsOf, NEW S, NEW cnt \in -1..Half - 1, WaitStarts(r, S, cnt, kd), NEW d, Calls(c, d, t, r),
           kd = "completion" => r.op # "done" \/ \A u \in Threads : c[u].op # "done",
           NEW n, Blocked(j, n, t, S, cnt)
    PROVE ThreadInv(n, d, "none", "none", kd)
<1>1. CallsSound(c) BY CoreOf
<1>2. /\ t \in Threads /\ t = j.current /\ c[t].pc \notin {"mark", "sched", "locked"} BY RunnerIs
<1>3. CoreInv(n, d, "none", "none", kd) BY <1>2, BlockKeeps
<1>4. d[t] = r BY <1>1, <1>2, CallsIs
<1>5. n.current = t BY <1>2 DEF Blocked
<1>6. r.pc \notin {"user", "woken", "again"} BY DEF WaitStarts
<1>7. HighSound(n, d, "none") BY <1>2, <1>4, <1>5, <1>6 DEF HighSound
<1>. QED BY <1>3, <1>7 DEF ThreadInv

(* An interrupt wakes a thread and calls rt_schedule.                       *)
LEMMA InterruptStep ==
    ASSUME NEW j, NEW c, NEW is, NEW lp, NEW lq, NEW kd, CoreInv(j, c, is, lp, kd), lp # "reset", lq # "reset",
           NEW w, NEW u \in Everyone, Woke(j, w, u), w.current = j.current, NEW n,
           Woke(j, n, u), w.lock # 0 => n = w, w.lock = 0 => Highest(n) /\ n.stat[n.current] = "running",
           LoopSound(n, c, is, lq, kd)
    PROVE ThreadInv(n, c, is, lq, kd)
<1>1. Sound(j) /\ CurrentSound(j, c) /\ j.lock \in {0, 1} BY CoreOf
<1>2. w.lock = j.lock /\ n.lock = j.lock BY DEF Woke, SameClock
<1>3. TurnSound(j, n)
  <2>1. CASE j.lock = 0 BY <1>2, <2>1 DEF TurnSound
  <2>2. CASE j.lock # 0 BY <1>1, <1>2, <2>2, WokeTurns
  <2>. QED BY <2>1, <2>2
<1>4. CoreInv(n, c, is, lp, kd) BY <1>3, WokeKeeps
<1>5. CoreInv(n, c, is, lq, kd) BY <1>4 DEF CoreInv
<1>6. HighSound(n, c, lq) BY <1>2 DEF HighSound
<1>. QED BY <1>5, <1>6 DEF ThreadInv
LEMMA InterruptResumes ==
    ASSUME NEW j, NEW c, NEW is, NEW kd, CoreInv(j, c, is, "none", kd),
           NEW w, NEW u \in Everyone, Woke(j, w, u), w.current = j.current, NEW n, n = Schedule(w)
    PROVE ThreadInv(n, c, is, "none", kd) /\ Woke(j, n, u) /\ n.error = w.error
<1>1. /\ Woke(j, n, u) /\ n.error = w.error
      /\ w.lock # 0 => n = w
      /\ w.lock = 0 => Highest(n) /\ n.stat[n.current] = "running"
  BY ScheduleWoken
<1>2. LoopSound(j, c, is, "none", kd) BY CoreOf
<1>3. LoopSound(n, c, is, "none", kd) BY <1>2 DEF LoopSound
<1>. QED BY <1>1, <1>3, InterruptStep

LEMMA HighestSame ==
    ASSUME NEW j, Highest(j), NEW n, n.current = j.current, n.group = j.group, n.prio = j.prio
    PROVE Highest(n)
BY DEF Highest

(* A step after which who runs is chosen by rt_schedule, or as before, and  *)
(* the calls are alike.                                                     *)
LEMMA StandStep ==
    ASSUME NEW j, NEW c, NEW is, NEW lp, NEW kd, CoreInv(j, c, is, lp, kd), NEW n, Stood(j, n),
           NEW d, CallsSound(d), Alike(c, d), CurrentSound(n, d), NEW lq, LoopSound(n, d, is, lq, kd),
           HighSound(n, d, lq)
    PROVE ThreadInv(n, d, is, lq, kd)
<1>1. CoreInv(n, d, is, lq, kd) BY StoodKeeps
<1>. QED BY <1>1 DEF ThreadInv

LEMMA StoodScheduled ==
    ASSUME NEW j, Sound(j), NEW n, n = Schedule(j)
    PROVE /\ Stood(j, n) /\ SameClock(j, n) /\ n.error = j.error
          /\ j.lock # 0 => n = j
          /\ j.lock = 0 => Highest(n) /\ n.stat[n.current] = "running"
<1>1. /\ Sound(n) /\ SameStatus(j, n) /\ SameClock(j, n)
      /\ n.error = j.error /\ n.list = j.list /\ n.timers = j.timers
      /\ j.lock # 0 => n = j
      /\ j.lock = 0 => Highest(n) /\ n.stat[n.current] = "running"
  BY ScheduleIs
<1>. QED BY <1>1 DEF Stood, SameClock

Scheduled(r) == [r EXCEPT !.pc = IF @ = "sched" /\ r.op = "none" THEN "user" ELSE "woken"]
LEMMA ScheduledIs ==
    ASSUME NEW r \in CallsOf, CallSound(r), r.pc = "sched"
    PROVE /\ Scheduled(r) \in CallsOf /\ CallSound(Scheduled(r)) /\ Scheduled(r).pc \in {"user", "woken"}
          /\ Scheduled(r).op = r.op /\ Scheduled(r).left = r.left /\ Scheduled(r).spent = r.spent
          /\ Scheduled(r).value = r.value
BY DEF Scheduled, CallsOf, CallSound
LEMMA CallSoundOf ==
    ASSUME NEW c, CallsSound(c), NEW t \in Threads
    PROVE c[t] \in CallsOf /\ CallSound(c[t])
BY DEF CallsSound, CallSound
LEMMA AlikeOf ==
    ASSUME NEW c, CallsSound(c), NEW t \in Threads, NEW r \in CallsOf, NEW d, Calls(c, d, t, r),
           r.op = c[t].op, r.left = c[t].left, r.spent = c[t].spent
    PROVE Alike(c, d)
<1>1. d[t] = r /\ \A u \in Threads : u # t => d[u] = c[u] BY CallsIs
<1>. QED BY <1>1 DEF Alike

LEMMA ScheduleStep ==
    ASSUME NEW j, NEW c, NEW kd, CoreInv(j, c, "none", "none", kd),
           NEW t \in Threads, t = j.current, c[t].pc = "sched",
           NEW d, Calls(c, d, t, Scheduled(c[t])), NEW n, n = Schedule(j)
    PROVE ThreadInv(n, d, "none", "none", kd) /\ Alike(c, d)
<1>1. Sound(j) /\ CurrentSound(j, c) /\ CallsSound(c) /\ j.lock \in {0, 1} BY CoreOf
<1>2. c[t] \in CallsOf /\ CallSound(c[t]) BY <1>1, CallSoundOf
<1>3. PICK r : r = Scheduled(c[t]) OBVIOUS
<1>4. r \in CallsOf /\ CallSound(r) /\ r.pc \in {"user", "woken"} /\ r.op = c[t].op /\ r.left = c[t].left
      /\ r.spent = c[t].spent
  BY <1>2, <1>3, ScheduledIs
<1>5. Calls(c, d, t, r) BY <1>3
<1>6. CallsSound(d) BY <1>1, <1>4, <1>5, CallsStay
<1>7. Alike(c, d) BY <1>1, <1>4, <1>5, AlikeOf
<1>8. d[t] = r /\ \A u \in Threads : u # t => d[u] = c[u] BY <1>1, <1>4, <1>5, CallsIs
<1>9. j.lock = 0 /\ \A u \in Threads : c[u].pc # "locked" BY <1>1 DEF CurrentSound
<1>10. Stood(j, n) /\ SameClock(j, n) /\ Highest(n) /\ n.stat[n.current] = "running"
  BY <1>1, <1>9, StoodScheduled
<1>11. CurrentSound(n, d)
  <2>1. \A u \in Threads : d[u].pc # "locked" BY <1>4, <1>8, <1>9
  <2>2. n.lock = 0 BY <1>9, <1>10 DEF SameClock
  <2>. QED BY <1>10, <2>1, <2>2 DEF CurrentSound
<1>12. LoopSound(n, d, "none", "none", kd) BY DEF LoopSound
<1>13. HighSound(n, d, "none") BY <1>10 DEF HighSound
<1>14. ThreadInv(n, d, "none", "none", kd) BY <1>6, <1>7, <1>10, <1>11, <1>12, <1>13, StandStep
<1>. QED BY <1>7, <1>14

LEMMA AlikeSelf == ASSUME NEW c PROVE Alike(c, c)
BY DEF Alike

(* rt_schedule from an interrupt, or at the end of a reset.                 *)
LEMMA RescheduleStep ==
    ASSUME NEW j, NEW c, NEW is, NEW lp, NEW kd, CoreInv(j, c, is, lp, kd), NEW n, n = Schedule(j)
    PROVE ThreadInv(n, c, is, "none", kd)
<1>1. Sound(j) /\ CurrentSound(j, c) /\ CallsSound(c) /\ LoopSound(j, c, is, lp, kd) /\ j.lock \in {0, 1}
  BY CoreOf
<1>2. /\ Stood(j, n) /\ SameClock(j, n)
      /\ j.lock # 0 => n = j
      /\ j.lock = 0 => Highest(n) /\ n.stat[n.current] = "running"
  BY <1>1, StoodScheduled
<1>3. n.lock = j.lock BY <1>2 DEF SameClock
<1>4. TurnSound(j, n) BY <1>1, <1>2 DEF TurnSound
<1>5. CurrentSound(n, c) BY <1>1, <1>3, <1>4, CurrentKept
<1>6. LoopSound(n, c, is, "none", kd) BY <1>1 DEF LoopSound
<1>7. HighSound(n, c, "none") BY <1>2, <1>3 DEF HighSound
<1>. QED BY <1>1, <1>2, <1>5, <1>6, <1>7, AlikeSelf, StandStep

LEMMA YieldStep ==
    ASSUME NEW j, NEW c, NEW kd, CoreInv(j, c, "none", "none", kd), NEW t, Running(j, c, t),
           NEW n, n = ThreadYield(j, t)
    PROVE ThreadInv(n, c, "none", "none", kd)
<1>1. Sound(j) /\ CurrentSound(j, c) /\ CallsSound(c) BY CoreOf
<1>2. t \in Everyone /\ t \in Threads /\ j.lock = 0 BY RunnerIs
<1>3. n = Schedule([j EXCEPT !.yield[t] = TRUE]) BY DEF ThreadYield
<1>4. /\ Sound(n) /\ SameStatus(j, n) /\ SameClock(j, n)
      /\ n.error = j.error /\ n.list = j.list /\ n.timers = j.timers
      /\ Highest(n) /\ n.stat[n.current] = "running"
  BY <1>1, <1>2, <1>3, YieldIs
<1>5. Stood(j, n) BY <1>4 DEF Stood, SameClock
<1>6. TurnSound(j, n) BY <1>2, <1>4 DEF TurnSound
<1>7. n.lock = j.lock /\ j.lock \in {0, 1} BY <1>2, <1>4 DEF SameClock
<1>8. CurrentSound(n, c) BY <1>1, <1>6, <1>7, CurrentKept
<1>9. LoopSound(n, c, "none", "none", kd) BY DEF LoopSound
<1>10. HighSound(n, c, "none") BY <1>4 DEF HighSound
<1>. QED BY <1>1, <1>5, <1>8, <1>9, <1>10, AlikeSelf, StandStep

(* A thread that runs has computed what is left of its timeout.             *)
AgainCall(c, x) == [c EXCEPT !.pc = "again", !.left = x, !.spent = 0]
LEMMA AgainStep ==
    ASSUME NEW j, NEW c, NEW kd, ThreadInv(j, c, "none", "none", kd), CoreInv(j, c, "none", "none", kd),
           NEW t, Running(j, c, t), NEW r \in CallsOf, CallSound(r), r.op = c[t].op, r.pc = "again",
           NEW d, Calls(c, d, t, r)
    PROVE ThreadInv(j, d, "none", "none", kd)
<1>1. /\ Sound(j) /\ Wakeable(j) /\ CurrentSound(j, c) /\ CallsSound(c)
      /\ WaitersSound(j, c, kd) /\ TimedSound(j, c, "none")
  BY DEF CoreInv
<1>2. /\ t \in Threads /\ t \in Everyone /\ t = j.current /\ c[t].pc \notin {"mark", "sched", "locked"}
      /\ j.stat[t] = "running" /\ j.lock = 0 /\ \A u \in Threads : c[u].pc # "locked"
  BY RunnerIs
<1>3. CallsSound(d) BY <1>1, <1>2, CallsStay
<1>4. d[t] = r /\ \A u \in Threads : u # t => d[u] = c[u] BY <1>1, <1>2, CallsIs
<1>5. CurrentSound(j, d) BY <1>1, <1>2, <1>4 DEF CurrentSound
<1>6. LoopSound(j, d, "none", "none", kd) BY DEF LoopSound
<1>7. \A u \in Threads : d[u].op = c[u].op BY <1>4
<1>8. WaitersSound(j, d, kd) BY <1>1, <1>7 DEF WaitersSound
<1>9. TimedSound(j, d, "none")
  <2>1. \A m \in ToSet(j.timers) : m.t # t BY <1>1, <1>2, RunnerFree
  <2>2. \A m \in ToSet(j.timers) : m.t \in Threads BY <1>1, Sleeping
  <2>3. \A m \in ToSet(j.timers) : d[m.t] = c[m.t] BY <1>4, <2>1, <2>2
  <2>. QED BY <1>1, <2>3 DEF TimedSound
<1>10. CoreInv(j, d, "none", "none", kd) BY <1>1, <1>3, <1>5, <1>6, <1>8, <1>9 DEF CoreInv
<1>11. HighSound(j, d, "none")
  <2>1. HighSound(j, c, "none") BY DEF ThreadInv
  <2>2. Highest(j) BY <1>2, <2>1 DEF HighSound, Running
  <2>. QED BY <2>2 DEF HighSound
<1>. QED BY <1>10, <1>11 DEF ThreadInv

(* The scheduler is locked and unlocked.                                    *)
LockedCall(r) == [r EXCEPT !.pc = "locked"]
LEMMA LockStep ==
    ASSUME NEW j, NEW c, NEW kd, CoreInv(j, c, "none", "none", kd),
           NEW t, Running(j, c, t), c[t].pc = "user",
           NEW d, Calls(c, d, t, LockedCall(c[t])), NEW n, n = EnterCritical(j)
    PROVE ThreadInv(n, d, "none", "none", kd)
<1>1. Sound(j) /\ CurrentSound(j, c) /\ CallsSound(c) BY CoreOf
<1>2. /\ t \in Threads /\ t \in Everyone /\ t = j.current /\ j.stat[t] = "running" /\ j.lock = 0
  BY RunnerIs
<1>3. c[t] \in CallsOf /\ CallSound(c[t]) BY <1>1, <1>2, CallSoundOf
<1>4. PICK r : r = LockedCall(c[t]) OBVIOUS
<1>5. r \in CallsOf /\ CallSound(r) /\ r.pc = "locked" /\ r.op = c[t].op /\ r.left = c[t].left
      /\ r.spent = c[t].spent
  BY <1>3, <1>4 DEF LockedCall, CallsOf, CallSound
<1>6. Calls(c, d, t, r) BY <1>4
<1>7. CallsSound(d) BY <1>1, <1>2, <1>5, <1>6, CallsStay
<1>8. Alike(c, d) BY <1>1, <1>2, <1>5, <1>6, AlikeOf
<1>9. d[t] = r /\ \A u \in Threads : u # t => d[u] = c[u] BY <1>1, <1>2, <1>5, <1>6, CallsIs
<1>10. /\ Sound(n) /\ SameQueues(j, n) /\ n.prio = j.prio /\ n.tick = j.tick /\ n.lock = 1
       /\ n.error = j.error /\ n.list = j.list /\ n.timers = j.timers
  BY <1>1, <1>2, EnterIs
<1>11. Stood(j, n) BY <1>10 DEF Stood, SameStatus, SameQueues, Awake
<1>12. CurrentSound(n, d)
  <2>1. \A u \in Threads : c[u].pc # "locked" BY RunnerIs
  <2>2. n.current = t /\ n.stat[t] = "running" BY <1>2, <1>10 DEF SameQueues
  <2>3. \A u \in Threads : d[u].pc = "locked" <=> u = t BY <1>5, <1>9, <2>1
  <2>. QED BY <1>2, <1>10, <2>2, <2>3 DEF CurrentSound
<1>13. LoopSound(n, d, "none", "none", kd) BY DEF LoopSound
<1>14. HighSound(n, d, "none") BY <1>10 DEF HighSound
<1>. QED BY <1>7, <1>8, <1>11, <1>12, <1>13, <1>14, StandStep
LEMMA UnlockStep ==
    ASSUME NEW j, NEW c, NEW kd, CoreInv(j, c, "none", "none", kd),
           NEW t \in Threads, t = j.current, c[t].pc = "locked",
           NEW d, Calls(c, d, t, UserCall), NEW n, n = ExitCritical(j)
    PROVE ThreadInv(n, d, "none", "none", kd)
<1>1. Sound(j) /\ CurrentSound(j, c) /\ CallsSound(c) BY CoreOf
<1>2. /\ Sound(n) /\ SameStatus(j, n) /\ n.prio = j.prio /\ n.tick = j.tick /\ n.lock = 0
      /\ n.error = j.error /\ n.list = j.list /\ n.timers = j.timers
      /\ Highest(n) /\ n.stat[n.current] = "running"
  BY <1>1, ExitCriticalIs
<1>3. Stood(j, n) BY <1>2 DEF Stood
<1>4. UserCall \in CallsOf /\ CallSound(UserCall) /\ UserCall.op = "none" /\ UserCall.pc = "user" BY TheCalls
<1>5. d[t] = UserCall /\ \A u \in Threads : u # t => d[u] = c[u] BY <1>1, <1>4, CallsIs
<1>6. CurrentSound(n, d)
  <2>1. \A u \in Threads : d[u].pc # "locked" BY <1>1, <1>4, <1>5 DEF CurrentSound
  <2>. QED BY <1>2, <2>1 DEF CurrentSound
<1>7. LoopSound(n, d, "none", "none", kd) BY DEF LoopSound
<1>8. c[t].pc \notin {"mark", "sched"} OBVIOUS
<1>9. CoreInv(n, d, "none", "none", kd) BY <1>3, <1>4, <1>6, <1>7, <1>8, ReturnKeeps
<1>10. HighSound(n, d, "none") BY <1>2 DEF HighSound
<1>. QED BY <1>9, <1>10 DEF ThreadInv

(* rt_thread_sleep sets the error with its timer running.                   *)
MarkedCall(r) == [r EXCEPT !.pc = "sched"]
LEMMA SleepMarkStep ==
    ASSUME NEW j, NEW c, NEW kd, CoreInv(j, c, "none", "none", kd),
           NEW t \in Threads, t = j.current, c[t].pc = "mark",
           NEW d, Calls(c, d, t, MarkedCall(c[t])), NEW n, n = Marked(j, t, "intr")
    PROVE ThreadInv(n, d, "none", "none", kd) /\ Alike(c, d)
<1>1. Sound(j) /\ CurrentSound(j, c) /\ CallsSound(c) BY CoreOf
<1>2. t \in Everyone /\ "intr" \in Errors BY DEF Everyone, Errors
<1>3. c[t] \in CallsOf /\ CallSound(c[t]) BY <1>1, CallSoundOf
<1>4. PICK r : r = MarkedCall(c[t]) OBVIOUS
<1>5. r \in CallsOf /\ CallSound(r) /\ r.pc = "sched" /\ r.op = c[t].op /\ r.left = c[t].left
      /\ r.spent = c[t].spent
  BY <1>3, <1>4 DEF MarkedCall, CallsOf, CallSound
<1>6. Calls(c, d, t, r) BY <1>4
<1>7. CallsSound(d) BY <1>1, <1>5, <1>6, CallsStay
<1>8. Alike(c, d) BY <1>1, <1>5, <1>6, AlikeOf
<1>9. d[t] = r /\ \A u \in Threads : u # t => d[u] = c[u] BY <1>1, <1>5, <1>6, CallsIs
<1>10. Stood(j, n) /\ SameQueues(j, n) /\ SameClock(j, n) BY <1>1, <1>2, StoodMarked
<1>11. CurrentSound(n, d)
  <2>1. \A u \in Threads : d[u].pc = "locked" <=> c[u].pc = "locked" BY <1>5, <1>9
  <2>2. d[j.current].pc \in {"mark", "sched"} BY <1>5, <1>9
  <2>3. n.lock = j.lock BY <1>10 DEF SameClock
  <2>. QED BY <1>1, <1>10, <2>1, <2>2, <2>3, CurrentSame
<1>12. LoopSound(n, d, "none", "none", kd) BY DEF LoopSound
<1>13. HighSound(n, d, "none")
  <2>1. n.current = t BY <1>10 DEF SameQueues
  <2>. QED BY <1>5, <1>9, <2>1 DEF HighSound
<1>14. ThreadInv(n, d, "none", "none", kd) BY <1>7, <1>8, <1>10, <1>11, <1>12, <1>13, StandStep
<1>. QED BY <1>8, <1>14

(* main() starts a thread.                                                  *)
LEMMA StartupStep ==
    ASSUME NEW j, NEW c, NEW kd, CoreInv(j, c, "none", "none", kd),
           NEW t \in Threads, j.stat[t] = "init", NEW n, n = ThreadStartup(j, t)
    PROVE ThreadInv(n, c, "none", "none", kd) /\ Woke(j, n, t)
<1>1. Sound(j) BY CoreOf
<1>2. t \in Everyone BY DEF Everyone
<1>3. Woke(j, n, t) /\ j.lock = 0 => Highest(n) /\ n.stat[n.current] = "running" BY <1>1, StartupIs
<1>4. Woke(j, n, t) BY <1>1, StartupIs
<1>50. Chosen(j, n, t) BY <1>1, StartupIs
<1>5. PICK w : w.current = j.current /\ Woke(j, w, t) /\ (j.lock # 0 => n = w) BY <1>50 DEF Chosen
<1>6. w.lock = j.lock BY <1>5 DEF Woke, SameClock
<1>7. LoopSound(n, c, "none", "none", kd) BY DEF LoopSound
<1>8. w.lock # 0 => n = w BY <1>5, <1>6
<1>9. w.lock = 0 => Highest(n) /\ n.stat[n.current] = "running" BY <1>3, <1>4, <1>6
<1>10. w.current = j.current /\ Woke(j, w, t) BY <1>5
<1>11. ThreadInv(n, c, "none", "none", kd) BY <1>2, <1>4, <1>7, <1>8, <1>9, <1>10, InterruptStep
<1>. QED BY <1>4, <1>11

(* main() returns.                                                          *)
LEMMA ExitStep ==
    ASSUME NEW j, NEW c, NEW kd, CoreInv(j, c, "none", "none", kd), NEW t, Running(j, c, t), c[t].pc = "user",
           NEW n, n = ThreadExit(j, t)
    PROVE /\ ThreadInv(n, c, "none", "none", kd) /\ n.error = j.error
          /\ n.list["wait"] = j.list["wait"] /\ n.list["send"] = j.list["send"]
          /\ \A u \in Everyone : u # t => (Awake(n, u) <=> Awake(j, u)) /\ (~Awake(j, u) => n.stat[u] = j.stat[u])
<1>1. /\ Sound(j) /\ Wakeable(j) /\ CurrentSound(j, c) /\ CallsSound(c)
      /\ WaitersSound(j, c, kd) /\ TimedSound(j, c, "none")
  BY DEF CoreInv
<1>2. t \in Everyone /\ t \in Threads /\ j.lock = 0 /\ j.stat[t] = "running" /\ \A u \in Threads : c[u].pc # "locked"
  BY RunnerIs
<1>3. /\ Sound(n) /\ SameClock(j, n) /\ n.error = j.error /\ n.timers = j.timers
      /\ n.list["wait"] = j.list["wait"] /\ n.list["send"] = j.list["send"]
      /\ n.stat[t] = "close"
      /\ \A u \in Everyone : u # t => (Awake(n, u) <=> Awake(j, u)) /\ (~Awake(j, u) => n.stat[u] = j.stat[u])
      /\ Highest(n) /\ n.stat[n.current] = "running"
  BY <1>1, <1>2, ExitIs
<1>4. Wakeable(n)
  <2>1. \A u \in Everyone : n.stat[u] = "suspend" => j.stat[u] = "suspend" BY <1>3 DEF Awake
  <2>. QED BY <1>1, <1>3, <2>1 DEF Wakeable
<1>5. CurrentSound(n, c)
  <2>1. n.lock = 0 BY <1>2, <1>3 DEF SameClock
  <2>. QED BY <1>2, <1>3, <2>1 DEF CurrentSound
<1>6. LoopSound(n, c, "none", "none", kd) BY DEF LoopSound
<1>7. WaitersSound(n, c, kd) BY <1>1, <1>3 DEF WaitersSound
<1>8. TimedSound(n, c, "none") BY <1>1, <1>3 DEF TimedSound, Remaining, SameClock
<1>9. HighSound(n, c, "none") BY <1>3 DEF HighSound
<1>10. CoreInv(n, c, "none", "none", kd) BY <1>1, <1>3, <1>4, <1>5, <1>6, <1>7, <1>8 DEF CoreInv
<1>. QED BY <1>3, <1>9, <1>10 DEF ThreadInv

(* The idle thread forgets a thread that ended.                             *)
LEMMA DefunctStep ==
    ASSUME NEW j, NEW c, NEW kd, ThreadInv(j, c, "none", "none", kd), j.list["dead"] # <<>>,
           NEW n, n = Unlink(j, Head(j.list["dead"]))
    PROVE /\ ThreadInv(n, c, "none", "none", kd) /\ SameQueues(j, n) /\ n.error = j.error
          /\ ToSet(n.list["wait"]) = ToSet(j.list["wait"]) /\ ToSet(n.list["send"]) = ToSet(j.list["send"])
<1>1. CoreInv(j, c, "none", "none", kd) /\ HighSound(j, c, "none") BY DEF ThreadInv
<1>2. Sound(j) /\ CurrentSound(j, c) /\ CallsSound(c) BY <1>1, CoreOf
<1>3. /\ Sound(n) /\ SameQueues(j, n) /\ SameClock(j, n) /\ n.error = j.error /\ n.timers = j.timers
      /\ ToSet(n.list["wait"]) = ToSet(j.list["wait"]) /\ ToSet(n.list["send"]) = ToSet(j.list["send"])
  BY <1>2, DefunctIs
<1>4. Stood(j, n) BY <1>3 DEF Stood, SameStatus, SameQueues, SameClock, Awake
<1>5. n.current = j.current /\ n.stat = j.stat /\ n.group = j.group /\ n.lock = j.lock /\ n.prio = j.prio
  BY <1>3 DEF SameQueues, SameClock
<1>6. CurrentSound(n, c) BY <1>2, <1>5 DEF CurrentSound
<1>7. LoopSound(n, c, "none", "none", kd) BY DEF LoopSound
<1>8. HighSound(n, c, "none") BY <1>1, <1>5 DEF HighSound, Highest
<1>9. ThreadInv(n, c, "none", "none", kd) BY <1>1, <1>2, <1>4, <1>6, <1>7, <1>8, AlikeSelf, StandStep
<1>. QED BY <1>3, <1>9

----------------------------------------------------------------------------
(* The tick.                                                                *)
Spend(c, d) ==
    d = [t \in Threads |-> IF c[t].op \in Retried /\ c[t].spent < c[t].left
                           THEN [c[t] EXCEPT !.spent = @ + 1] ELSE c[t]]
SpentOne(r, q) ==
    /\ q.pc = r.pc /\ q.op = r.op /\ q.left = r.left /\ q.value = r.value
    /\ q.spent = IF r.op \in Retried /\ r.spent < r.left THEN r.spent + 1 ELSE r.spent
LEMMA SpendIs ==
    ASSUME NEW c, CallsSound(c), NEW d, Spend(c, d)
    PROVE CallsSound(d) /\ \A t \in Threads : SpentOne(c[t], d[t])
<1>1. ASSUME NEW t \in Threads PROVE d[t] \in CallsOf /\ CallSound(d[t]) /\ SpentOne(c[t], d[t])
  <2>1. c[t] \in CallsOf /\ CallSound(c[t]) BY CallSoundOf
  <2>2. PICK r : r = c[t] OBVIOUS
  <2>3. PICK q : q = IF r.op \in Retried /\ r.spent < r.left THEN [r EXCEPT !.spent = @ + 1] ELSE r OBVIOUS
  <2>4. d[t] = q BY <2>2, <2>3 DEF Spend
  <2>5. r \in CallsOf /\ CallSound(r) BY <2>1, <2>2
  <2>6. r.left \in -1..Half - 1 /\ r.spent \in 0..Half - 1 /\ Half \in Nat BY <2>5, Halves DEF CallsOf
  <2>7. CASE r.op \in Retried /\ r.spent < r.left
    <3>1. PICK s : s = r.spent + 1 OBVIOUS
    <3>2. s \in 0..Half - 1 /\ s <= r.left BY <2>6, <2>7, <3>1
    <3>3. q = [r EXCEPT !.spent = s] BY <2>3, <2>7, <3>1
    <3>4. /\ q \in CallsOf /\ q.pc = r.pc /\ q.op = r.op /\ q.left = r.left /\ q.value = r.value
          /\ q.spent = s
      BY <2>5, <3>2, <3>3 DEF CallsOf
    <3>5. CallSound(q) BY <2>5, <3>2, <3>4 DEF CallSound
    <3>6. SpentOne(r, q) BY <2>7, <3>1, <3>4 DEF SpentOne
    <3>. QED BY <2>2, <2>4, <3>4, <3>5, <3>6
  <2>8. CASE ~(r.op \in Retried /\ r.spent < r.left)
    <3>1. q = r BY <2>3, <2>8
    <3>2. SpentOne(r, q) BY <2>8, <3>1 DEF SpentOne
    <3>. QED BY <2>2, <2>4, <2>5, <3>1, <3>2
  <2>. QED BY <2>7, <2>8
<1>2. d \in [Threads -> CallsOf]
  <2>1. d = [t \in Threads |-> d[t]] BY DEF Spend
  <2>. QED BY <1>1, <2>1
<1>. QED BY <1>1, <1>2 DEF CallsSound, CallSound

LEMMA TimersAhead ==
    ASSUME NEW j, Sound(j), NEW c, TimedSound(j, c, "none")
    PROVE \A m \in ToSet(j.timers) : Remaining(j, m) >= 1
BY DEF TimedSound, TimedOne

LEMMA TickStep ==
    ASSUME NEW j, NEW c, NEW kd, ThreadInv(j, c, "none", "none", kd), NEW e \in BOOLEAN,
           NEW n, n = TickIncrease(j, e), NEW d, Spend(c, d)
    PROVE /\ ThreadInv(n, d, "tick", "none", kd) /\ n.error = j.error /\ n.list = j.list /\ SameStatus(j, n)
          /\ \A t \in Threads : SpentOne(c[t], d[t])
<1>1. /\ Sound(j) /\ Wakeable(j) /\ CurrentSound(j, c) /\ CallsSound(c)
      /\ WaitersSound(j, c, kd) /\ TimedSound(j, c, "none") /\ HighSound(j, c, "none")
  BY DEF CoreInv, ThreadInv
<1>2. \A m \in ToSet(j.timers) : Remaining(j, m) >= 1 BY <1>1, TimersAhead
<1>3. /\ Sound(n) /\ SameStatus(j, n) /\ n.list = j.list /\ n.timers = j.timers /\ n.error = j.error
      /\ n.prio = j.prio /\ n.lock = j.lock /\ Nearer(j, n)
      /\ \/ n.current = j.current /\ n.stat = j.stat /\ n.group = j.group
         \/ j.lock = 0 /\ Highest(n) /\ n.stat[n.current] = "running"
  BY <1>1, <1>2, TickIs
<1>4. CallsSound(d) /\ \A t \in Threads : SpentOne(c[t], d[t]) BY <1>1, SpendIs
<1>5. \A t \in Threads : d[t].pc = c[t].pc /\ d[t].op = c[t].op /\ d[t].left = c[t].left BY <1>4 DEF SpentOne
<1>6. Wakeable(n) BY <1>1, <1>3, WakeableStood
<1>7. CurrentSound(n, c)
  <2>1. TurnSound(j, n) BY <1>3 DEF TurnSound
  <2>2. j.lock \in {0, 1} BY <1>1, FieldsOf DEF Sound
  <2>. QED BY <1>1, <1>3, <2>1, <2>2, CurrentKept
<1>8. CurrentSound(n, d)
  <2>1. n.stat[n.current] = "suspend" => n.current \in Threads
    <3>1. n.current \in Everyone BY <1>3, FieldsOf DEF Sound
    <3>. QED BY <1>3, <3>1, Sleeping
  <2>. QED BY <1>5, <1>7, <2>1 DEF CurrentSound
<1>9. LoopSound(n, d, "tick", "none", kd) BY DEF LoopSound
<1>10. WaitersSound(n, d, kd) BY <1>1, <1>3, <1>5 DEF WaitersSound
<1>11. TimedSound(n, d, "tick")
  <2>1. SUFFICES ASSUME NEW m \in ToSet(n.timers) PROVE TimedOne(Remaining(n, m), d[m.t], "tick") BY DEF TimedSound
  <2>2. m \in ToSet(j.timers) /\ m \in Timers /\ m.t \in Threads BY <1>1, <1>3, Sleeping
  <2>3. PICK x, y, r, q : x = Remaining(j, m) /\ y = Remaining(n, m) /\ r = c[m.t] /\ q = d[m.t] OBVIOUS
  <2>4. TimedOne(x, r, "none") BY <1>1, <2>2, <2>3 DEF TimedSound
  <2>5. y = x - 1 BY <1>3, <2>2, <2>3 DEF Nearer
  <2>6. SpentOne(r, q) /\ r \in CallsOf /\ CallSound(r) BY <1>1, <1>4, <2>2, <2>3, CallSoundOf
  <2>7. x \in Nat
    <3>1. j.tick \in 0..TickWidth - 1 BY <1>1, FieldsOf DEF Sound
    <3>. QED BY <2>2, <2>3, <3>1, TimerIs DEF Remaining
  <2>8. r.left \in Int /\ r.spent \in Int BY <2>6 DEF CallsOf
  <2>9. q.op = r.op /\ q.left = r.left
        /\ q.spent = IF r.op \in Retried /\ r.spent < r.left THEN r.spent + 1 ELSE r.spent
    BY <2>6 DEF SpentOne
  <2>10. x >= 1 /\ (r.op # "sleep" => x <= r.left) /\ (r.op \in Retried => x = r.left - r.spent)
    BY <2>4 DEF TimedOne
  <2>11. q.op # "sleep" => y <= q.left BY <2>5, <2>7, <2>8, <2>9, <2>10
  <2>12. q.op \in Retried => y = q.left - q.spent BY <2>5, <2>7, <2>8, <2>9, <2>10
  <2>. QED BY <2>3, <2>11, <2>12 DEF TimedOne
<1>12. HighSound(n, d, "none")
  <2>1. CASE n.current = j.current /\ n.stat = j.stat /\ n.group = j.group
    <3>1. Highest(j) => Highest(n) BY <1>3, <2>1, HighestSame
    <3>. QED BY <1>1, <1>3, <1>5, <2>1, <3>1 DEF HighSound
  <2>2. CASE Highest(n) BY <2>2 DEF HighSound
  <2>. QED BY <1>3, <2>1, <2>2
<1>. QED BY <1>3, <1>4, <1>6, <1>8, <1>9, <1>10, <1>11, <1>12 DEF CoreInv, ThreadInv

(* The first timer is due.                                                  *)
LEMMA ExpiresStep ==
    ASSUME NEW j, NEW c, NEW lp, NEW kd, CoreInv(j, c, "tick", lp, kd), lp # "reset", j.timers # <<>>,
           NEW t, t = Head(j.timers).t, NEW n, n = TimerExpires(j)
    PROVE /\ ThreadInv(n, c, "tick", "timers", kd) /\ t \in Threads /\ j.stat[t] = "suspend" /\ Woke(j, n, t)
          /\ n.error = [j.error EXCEPT ![t] = "timeout"]
<1>1. Sound(j) BY CoreOf
<1>2. /\ t \in Everyone /\ j.stat[t] = "suspend" /\ Woke(j, n, t)
      /\ n.error = [j.error EXCEPT ![t] = "timeout"]
      /\ j.lock = 0 => Highest(n) /\ n.stat[n.current] = "running"
  BY <1>1, ExpiresIs
<1>30. Chosen(j, n, t) BY <1>1, ExpiresIs
<1>3. PICK w : w.current = j.current /\ Woke(j, w, t) /\ (j.lock # 0 => n = w) BY <1>30 DEF Chosen
<1>4. w.lock = j.lock BY <1>3 DEF Woke, SameClock
<1>5. LoopSound(n, c, "tick", "timers", kd) BY DEF LoopSound
<1>6. w.lock # 0 => n = w BY <1>3, <1>4
<1>7. w.lock = 0 => Highest(n) /\ n.stat[n.current] = "running" BY <1>2, <1>4
<1>8. w.current = j.current /\ Woke(j, w, t) BY <1>3
<1>9. "timers" # "reset" OBVIOUS
<1>10. ThreadInv(n, c, "tick", "timers", kd) BY <1>2, <1>5, <1>6, <1>7, <1>8, <1>9, InterruptStep
<1>11. t \in Threads BY <1>1, <1>2, Sleeping
<1>. QED BY <1>2, <1>10, <1>11

(* No timer is due any more.                                                *)
LEMMA CheckedStep ==
    ASSUME NEW j, NEW c, NEW lp, NEW kd, ThreadInv(j, c, "tick", lp, kd), lp # "reset", ~IsDue(j)
    PROVE ThreadInv(j, c, "none", "none", kd)
<1>1. /\ Sound(j) /\ Wakeable(j) /\ CurrentSound(j, c) /\ CallsSound(c)
      /\ WaitersSound(j, c, kd) /\ TimedSound(j, c, "tick") /\ HighSound(j, c, lp)
  BY DEF CoreInv, ThreadInv
<1>2. j.timers \in Seq(Timers) /\ j.tick \in 0..TickWidth - 1 BY <1>1, FieldsOf DEF Sound
<1>3. \A m \in ToSet(j.timers) : Remaining(j, m) >= 1
  <2>1. SUFFICES ASSUME NEW m \in ToSet(j.timers) PROVE Remaining(j, m) >= 1 OBVIOUS
  <2>2. PICK i \in 1..Len(j.timers) : j.timers[i] = m BY <1>2, Members
  <2>3. j.timers # <<>> /\ Len(j.timers) \in Nat BY <1>2, Members
  <2>4. Head(j.timers) \in ToSet(j.timers) /\ Head(j.timers) = j.timers[1] BY <1>2, <2>3, Members
  <2>5. PICK h : h = Head(j.timers) OBVIOUS
  <2>6. h \in Timers /\ h.at \in 0..TickWidth - 1 /\ m \in Timers /\ m.at \in 0..TickWidth - 1
    BY <1>1, <2>4, <2>5, Sleeping DEF Timers
  <2>7. Before(j.tick, h.at) < Half BY <1>1, <2>4, <2>5 DEF Sound, TimersSound, Remaining
  <2>8. ~(Before(h.at, j.tick) < Half) BY <2>3, <2>5 DEF IsDue
  <2>9. Before(j.tick, h.at) # 0 BY <1>2, <2>6, <2>7, <2>8, DueIs
  <2>10. Before(j.tick, h.at) \in Nat /\ Before(j.tick, m.at) \in Nat BY <1>2, <2>6, TimerIs
  <2>11. Before(j.tick, j.timers[1].at) <= Before(j.tick, j.timers[i].at)
    <3>1. 1 \in 1..Len(j.timers) /\ 1 <= i BY <2>2
    <3>. QED BY <1>1, <2>2, <3>1 DEF Sound, TimersSound, Sorted
  <2>12. Before(j.tick, h.at) <= Before(j.tick, m.at) BY <2>2, <2>4, <2>5, <2>11
  <2>. QED BY <2>9, <2>10, <2>12 DEF Remaining
<1>4. TimedSound(j, c, "none") BY <1>1, <1>3 DEF TimedSound, TimedOne
<1>5. LoopSound(j, c, "none", "none", kd) BY DEF LoopSound
<1>6. HighSound(j, c, "none") BY <1>1 DEF HighSound
<1>. QED BY <1>1, <1>4, <1>5, <1>6 DEF CoreInv, ThreadInv

----------------------------------------------------------------------------
(* A reset begins, wakes one thread after the other, and ends.              *)
LEMMA ResetStarts ==
    ASSUME NEW j, NEW c, NEW is, NEW kd, CoreInv(j, c, is, "none", kd),
           \/ kd = "sem" 
           \/ kd = "mailbox" /\ is = "none" /\ j.current \in Threads /\ c[j.current].pc = "user"
    PROVE ThreadInv(j, c, is, "reset", kd)
<1>1. LoopSound(j, c, is, "none", kd) BY CoreOf
<1>2. LoopSound(j, c, is, "reset", kd) BY <1>1 DEF LoopSound
<1>3. HighSound(j, c, "reset") BY DEF HighSound
<1>. QED BY <1>2, <1>3 DEF CoreInv, ThreadInv
LEMMA ResetResumes ==
    ASSUME NEW j, NEW c, NEW is, NEW kd, CoreInv(j, c, is, "reset", kd),
           NEW n, NEW u \in Everyone, Woke(j, n, u), n.current = j.current
    PROVE ThreadInv(n, c, is, "reset", kd)
<1>1. Sound(j) /\ CurrentSound(j, c) BY CoreOf
<1>2. TurnSound(j, n) BY <1>1, WokeTurns
<1>3. CoreInv(n, c, is, "reset", kd) BY <1>2, WokeKeeps
<1>4. HighSound(n, c, "reset") BY DEF HighSound
<1>. QED BY <1>3, <1>4 DEF ThreadInv
LEMMA MailResetEnds ==
    ASSUME NEW j, NEW c, NEW kd, CoreInv(j, c, "none", "reset", kd), kd = "mailbox", NEW t, t = j.current,
           NEW d, Calls(c, d, t, SchedCall), NEW n, n = Marked(j, t, "ok")
    PROVE ThreadInv(n, d, "none", "none", kd) /\ Running(j, c, t)
<1>1. LoopSound(j, c, "none", "reset", kd) BY CoreOf
<1>2. CoreInv(j, c, "none", "none", kd) BY DEF CoreInv, LoopSound
<1>3. Running(j, c, t) BY <1>1 DEF LoopSound, Running
<1>4. SchedCall # UserCall BY TheCalls
<1>. QED BY <1>2, <1>3, <1>4, ReturnStep

----------------------------------------------------------------------------
(* Threads that were woken and have not yet looked at the object.           *)
Answered(j, t) == j.stat[t] # "suspend" /\ j.error[t] = "ok"
WokenOf(j, c, op) == {t \in Threads : c[t].op = op /\ j.stat[t] # "suspend" /\ j.error[t] = "ok"}
Count(j, c, op) == Cardinality(WokenOf(j, c, op))
LEMMA WokenIs ==
    ASSUME NEW j, NEW c, NEW op
    PROVE /\ \A t : t \in WokenOf(j, c, op) <=> t \in Threads /\ c[t].op = op /\ Answered(j, t)
          /\ IsFiniteSet(WokenOf(j, c, op)) /\ Count(j, c, op) \in Nat
<1>1. IsFiniteSet(Threads) BY KernelAssumption
<1>2. WokenOf(j, c, op) \subseteq Threads BY DEF WokenOf
<1>3. IsFiniteSet(WokenOf(j, c, op)) BY <1>1, <1>2, FS_Subset
<1>4. Count(j, c, op) \in Nat BY <1>3, FS_CardinalityType DEF Count
<1>. QED BY <1>3, <1>4 DEF WokenOf, Answered

(* Thread t is not among them any more, thread u now is, or nobody changed. *)
Leaves(j, c, n, d, t) == \A op : op # "none" => WokenOf(n, d, op) = WokenOf(j, c, op) \ {t}
Joins(j, c, n, d, u) ==
    /\ c[u].op # "none" /\ u \in Threads /\ ~Answered(j, u)
    /\ \A op : WokenOf(n, d, op) = IF c[u].op = op THEN WokenOf(j, c, op) \cup {u} ELSE WokenOf(j, c, op)
Stays(j, c, n, d) == \A op : WokenOf(n, d, op) = WokenOf(j, c, op)

LEMMA LeavesIs ==
    ASSUME NEW j, NEW c, NEW n, NEW d, NEW t, \A u \in Threads : u # t => d[u] = c[u],
           \A u \in Threads : u # t => (Answered(n, u) <=> Answered(j, u)),
           d[t].op = "none" \/ ~Answered(n, t)
    PROVE Leaves(j, c, n, d, t)
<1>1. ASSUME NEW op, op # "none" PROVE WokenOf(n, d, op) = WokenOf(j, c, op) \ {t}
  <2>1. /\ \A u : u \in WokenOf(j, c, op) <=> u \in Threads /\ c[u].op = op /\ Answered(j, u)
        /\ \A u : u \in WokenOf(n, d, op) <=> u \in Threads /\ d[u].op = op /\ Answered(n, u)
    BY WokenIs
  <2>. QED BY <1>1, <2>1
<1>. QED BY <1>1 DEF Leaves
LEMMA StaysIs ==
    ASSUME NEW j, NEW c, NEW n, NEW d, \A u \in Threads : d[u].op = c[u].op,
           \A u \in Threads : Answered(n, u) <=> Answered(j, u)
    PROVE Stays(j, c, n, d)
<1>1. ASSUME NEW op PROVE WokenOf(n, d, op) = WokenOf(j, c, op)
  <2>1. /\ \A u : u \in WokenOf(j, c, op) <=> u \in Threads /\ c[u].op = op /\ Answered(j, u)
        /\ \A u : u \in WokenOf(n, d, op) <=> u \in Threads /\ d[u].op = op /\ Answered(n, u)
    BY WokenIs
  <2>. QED BY <2>1
<1>. QED BY <1>1 DEF Stays
LEMMA JoinsIs ==
    ASSUME NEW j, NEW c, NEW n, NEW u \in Threads, c[u].op # "none", ~Answered(j, u), Answered(n, u),
           \A v \in Threads : v # u => (Answered(n, v) <=> Answered(j, v))
    PROVE Joins(j, c, n, c, u)
<1>1. ASSUME NEW op PROVE WokenOf(n, c, op) = IF c[u].op = op THEN WokenOf(j, c, op) \cup {u} ELSE WokenOf(j, c, op)
  <2>1. /\ \A v : v \in WokenOf(j, c, op) <=> v \in Threads /\ c[v].op = op /\ Answered(j, v)
        /\ \A v : v \in WokenOf(n, c, op) <=> v \in Threads /\ c[v].op = op /\ Answered(n, v)
    BY WokenIs
  <2>2. CASE c[u].op = op
    <3>1. \A v : v \in WokenOf(n, c, op) <=> v \in WokenOf(j, c, op) \/ v = u BY <2>1, <2>2
    <3>. QED BY <2>2, <3>1
  <2>3. CASE c[u].op # op
    <3>1. \A v : v \in WokenOf(n, c, op) <=> v \in WokenOf(j, c, op) BY <2>1, <2>3
    <3>. QED BY <2>3, <3>1
  <2>. QED BY <2>2, <2>3
<1>. QED BY <1>1 DEF Joins

(* How many they are then.                                                  *)
Fewer(j, c, n, d, t) ==
    \A op : op # "none" =>
        /\ t \in WokenOf(j, c, op) => Count(n, d, op) = Count(j, c, op) - 1
        /\ t \notin WokenOf(j, c, op) => Count(n, d, op) = Count(j, c, op)
LEMMA LeavesCount ==
    ASSUME NEW j, NEW c, NEW n, NEW d, NEW t, Leaves(j, c, n, d, t)
    PROVE Fewer(j, c, n, d, t)
<1>1. ASSUME NEW op, op # "none"
      PROVE /\ t \in WokenOf(j, c, op) => Count(n, d, op) = Count(j, c, op) - 1
            /\ t \notin WokenOf(j, c, op) => Count(n, d, op) = Count(j, c, op)
  <2>1. WokenOf(n, d, op) = WokenOf(j, c, op) \ {t} BY <1>1 DEF Leaves
  <2>2. IsFiniteSet(WokenOf(j, c, op)) BY WokenIs
  <2>3. Cardinality(WokenOf(j, c, op) \ {t}) =
          IF t \in WokenOf(j, c, op) THEN Cardinality(WokenOf(j, c, op)) - 1 ELSE Cardinality(WokenOf(j, c, op))
    BY <2>2, FS_RemoveElement
  <2>. QED BY <2>1, <2>3 DEF Count
<1>. QED BY <1>1 DEF Fewer
More(j, c, n, d, g) ==
    /\ Count(n, d, g) = Count(j, c, g) + 1
    /\ \A op : op # g => Count(n, d, op) = Count(j, c, op)
LEMMA JoinsCount ==
    ASSUME NEW j, NEW c, NEW n, NEW d, NEW u, Joins(j, c, n, d, u), NEW g, g = c[u].op
    PROVE More(j, c, n, d, g)
<1>1. WokenOf(n, d, g) = WokenOf(j, c, g) \cup {u} BY DEF Joins
<1>2. u \notin WokenOf(j, c, g) BY WokenIs DEF Joins
<1>3. IsFiniteSet(WokenOf(j, c, g)) BY WokenIs
<1>4. Cardinality(WokenOf(j, c, g) \cup {u}) =
          IF u \in WokenOf(j, c, g) THEN Cardinality(WokenOf(j, c, g)) ELSE Cardinality(WokenOf(j, c, g)) + 1
  BY <1>3, FS_AddElement
<1>5. \A op : op # g => WokenOf(n, d, op) = WokenOf(j, c, op) BY DEF Joins
<1>. QED BY <1>1, <1>2, <1>4, <1>5 DEF More, Count
Equal(j, c, n, d) == \A op : Count(n, d, op) = Count(j, c, op)
LEMMA StaysCount ==
    ASSUME NEW j, NEW c, NEW n, NEW d, Stays(j, c, n, d)
    PROVE Equal(j, c, n, d)
BY DEF Stays, Equal, Count

(* No list is longer, or only those in S are.                               *)
Shorter(j, n) == \A l \in WaitLists : n.list[l] # <<>> => j.list[l] # <<>>
ShorterBut(j, n, S) == \A l \in WaitLists : l \notin S /\ n.list[l] # <<>> => j.list[l] # <<>>
LEMMA ListOf ==
    ASSUME NEW j, Sound(j), NEW l \in WaitLists
    PROVE j.list[l] = <<>> <=> ToSet(j.list[l]) = {}
<1>1. j.list[l] \in Seq(Everyone) BY FieldsOf DEF Sound
<1>. QED BY <1>1, Members
LEMMA ShorterIs ==
    ASSUME NEW j, Sound(j), NEW n, Sound(n), \A l \in WaitLists : ToSet(n.list[l]) \subseteq ToSet(j.list[l])
    PROVE Shorter(j, n)
<1>1. ASSUME NEW l \in WaitLists, n.list[l] # <<>> PROVE j.list[l] # <<>>
  <2>1. ToSet(n.list[l]) # {} BY <1>1, ListOf
  <2>2. ToSet(j.list[l]) # {} BY <2>1
  <2>. QED BY <2>2, ListOf
<1>. QED BY <1>1 DEF Shorter

LEMMA AnsweredStays ==
    ASSUME NEW j, NEW n, SameStatus(j, n), n.error = j.error
    PROVE \A u \in Everyone : Answered(n, u) <=> Answered(j, u)
BY DEF SameStatus, Awake, Answered
LEMMA AnsweredWoke ==
    ASSUME NEW j, NEW n, NEW u \in Everyone, Woke(j, n, u), \A v \in Everyone : v # u => n.error[v] = j.error[v]
    PROVE /\ \A v \in Everyone : v # u => (Answered(n, v) <=> Answered(j, v))
          /\ Answered(n, u) <=> n.error[u] = "ok"
BY DEF Woke, Awake, Answered

(* A call of the thread t that runs returns.                                *)
LEMMA ReturnCounts ==
    ASSUME NEW j, NEW c, NEW kd, CoreInv(j, c, "none", "none", kd), NEW t, Running(j, c, t),
           NEW r \in CallsOf, r.op = "none", NEW d, Calls(c, d, t, r), NEW n, n = Marked(j, t, "ok")
    PROVE n.list = j.list /\ Fewer(j, c, n, d, t)
<1>1. Sound(j) /\ CallsSound(c) BY CoreOf
<1>2. t \in Everyone /\ t \in Threads /\ j.stat[t] = "running" BY RunnerIs
<1>3. "ok" \in Errors BY DEF Errors
<1>4. /\ SameQueues(j, n) /\ n.list = j.list /\ n.error = [j.error EXCEPT ![t] = "ok"]
  BY <1>1, <1>2, <1>3, ErrorIs
<1>5. j.error \in [Everyone -> Errors] BY <1>1, FieldsOf DEF Sound
<1>6. n.stat = j.stat /\ \A u \in Threads : u # t => n.error[u] = j.error[u]
  BY <1>4, <1>5 DEF SameQueues, Everyone
<1>7. d[t] = r /\ \A u \in Threads : u # t => d[u] = c[u] BY <1>1, <1>2, CallsIs
<1>8. \A u \in Threads : u # t => (Answered(n, u) <=> Answered(j, u)) BY <1>6 DEF Answered
<1>9. Leaves(j, c, n, d, t) BY <1>7, <1>8, LeavesIs
<1>. QED BY <1>4, <1>9, LeavesCount

(* A call waits.                                                            *)
LEMMA WaitCounts ==
    ASSUME NEW j, NEW c, NEW kd, CoreInv(j, c, "none", "none", kd), NEW t, Running(j, c, t),
           NEW r \in CallsOf, NEW d, Calls(c, d, t, r), NEW S, NEW cnt, NEW e, NEW n, Blocked(j, n, t, S, cnt),
           n.error = [j.error EXCEPT ![t] = e]
    PROVE Fewer(j, c, n, d, t) /\ ShorterBut(j, n, S)
<1>1. Sound(j) /\ CallsSound(c) BY CoreOf
<1>2. t \in Everyone /\ t \in Threads /\ j.stat[t] = "running" BY RunnerIs
<1>3. j.error \in [Everyone -> Errors] /\ j.stat \in [Everyone -> Stats] BY <1>1, FieldsOf DEF Sound
<1>4. n.stat = [j.stat EXCEPT ![t] = "suspend"] BY DEF Blocked
<1>5. \A u \in Threads : u # t => n.error[u] = j.error[u] /\ n.stat[u] = j.stat[u]
  BY <1>3, <1>4 DEF Everyone
<1>6. n.stat[t] = "suspend" BY <1>2, <1>3, <1>4
<1>7. d[t] = r /\ \A u \in Threads : u # t => d[u] = c[u] BY <1>1, <1>2, CallsIs
<1>8. \A u \in Threads : u # t => (Answered(n, u) <=> Answered(j, u)) BY <1>5 DEF Answered
<1>9. ~Answered(n, t) BY <1>6 DEF Answered
<1>10. Leaves(j, c, n, d, t) BY <1>7, <1>8, <1>9, LeavesIs
<1>11. ASSUME NEW l \in WaitLists, l \notin S, n.list[l] # <<>> PROVE j.list[l] # <<>>
  <2>1. ToSet(n.list[l]) = ToSet(j.list[l]) BY <1>11 DEF Blocked
  <2>2. Sound(n) BY DEF Blocked
  <2>3. ToSet(n.list[l]) # {} BY <1>11, <2>2, ListOf
  <2>. QED BY <1>1, <2>1, <2>3, ListOf
<1>12. ShorterBut(j, n, S) BY <1>11 DEF ShorterBut
<1>. QED BY <1>10, <1>12, LeavesCount

(* The first thread of a waiting list is woken with its answer.             *)
ListOp(l, kd) == IF l = "wait" THEN WaitOp(kd) ELSE "send"
Resumed(j, w, l, e) ==
    \E u \in Threads : /\ u \in Everyone /\ Woke(j, w, u) /\ w.current = j.current /\ j.stat[u] = "suspend"
                       /\ w.error = [j.error EXCEPT ![u] = e] /\ u \in ToSet(j.list[l])
LEMMA ResumedIs ==
    ASSUME NEW j, Sound(j), NEW l \in {"wait", "send"}, j.list[l] # <<>>, NEW w
    PROVE /\ w = ListResume(j, l) => Resumed(j, w, l, "ok")
          /\ w = ListResumeError(j, l) => Resumed(j, w, l, "error")
<1>1. PICK t : t = Head(j.list[l]) OBVIOUS
<1>2. ASSUME NEW e \in Errors, w = ResumeThread(Marked(j, t, e), t) PROVE Resumed(j, w, l, e)
  <2>1. /\ Woke(j, w, t) /\ w.error = [j.error EXCEPT ![t] = e] /\ w.current = j.current
        /\ t \in Threads /\ t \in ToSet(j.list[l]) /\ t \in Everyone /\ j.stat[t] = "suspend"
    BY <1>1, <1>2, ListResumeIs
  <2>. QED BY <2>1 DEF Resumed
<1>3. "ok" \in Errors /\ "error" \in Errors BY DEF Errors
<1>4. w = ListResume(j, l) => w = ResumeThread(Marked(j, t, "ok"), t) BY <1>1 DEF ListResume, Marked
<1>5. w = ListResumeError(j, l) => w = ResumeThread(Marked(j, t, "error"), t)
  BY <1>1 DEF ListResumeError, Marked
<1>. QED BY <1>2, <1>3, <1>4, <1>5

LEMMA WokeShorter ==
    ASSUME NEW j, Sound(j), NEW n, NEW u, Woke(j, n, u)
    PROVE Shorter(j, n)
<1>1. Sound(n) /\ \A l \in WaitLists : ToSet(n.list[l]) \subseteq ToSet(j.list[l]) BY DEF Woke
<1>. QED BY <1>1, ShorterIs

LEMMA ListOpIs ==
    ASSUME NEW j, NEW c, NEW kd, WaitersSound(j, c, kd), NEW l \in {"wait", "send"}, NEW u \in Threads,
           u \in ToSet(j.list[l])
    PROVE c[u].op = ListOp(l, kd) /\ ListOp(l, kd) # "none"
BY DEF WaitersSound, ListOp, WaitOp

LEMMA ResumedCounts ==
    ASSUME NEW j, NEW c, NEW is, NEW lp, NEW kd, CoreInv(j, c, is, lp, kd), NEW l \in {"wait", "send"},
           NEW w, Resumed(j, w, l, "ok")
    PROVE More(j, c, w, c, ListOp(l, kd)) /\ Shorter(j, w) /\ w.current = j.current
<1>1. Sound(j) /\ WaitersSound(j, c, kd) BY DEF CoreInv
<1>2. PICK u \in Threads : /\ u \in Everyone /\ Woke(j, w, u) /\ w.current = j.current /\ j.stat[u] = "suspend"
                           /\ w.error = [j.error EXCEPT ![u] = "ok"] /\ u \in ToSet(j.list[l])
  BY DEF Resumed
<1>3. PICK g : g = ListOp(l, kd) OBVIOUS
<1>4. c[u].op = g /\ g # "none" BY <1>1, <1>2, <1>3, ListOpIs
<1>5. j.error \in [Everyone -> Errors] BY <1>1, FieldsOf DEF Sound
<1>6. w.error[u] = "ok" /\ \A v \in Everyone : v # u => w.error[v] = j.error[v] BY <1>2, <1>5
<1>7. /\ \A v \in Everyone : v # u => (Answered(w, v) <=> Answered(j, v))
      /\ Answered(w, u) <=> w.error[u] = "ok"
  <2>1. u \in Everyone /\ Woke(j, w, u) BY <1>2
  <2>2. \A v \in Everyone : v # u => w.error[v] = j.error[v] BY <1>6
  <2>. QED BY <2>1, <2>2 DEF Woke, Awake, Answered
<1>8. ~Answered(j, u) BY <1>2 DEF Answered
<1>9. \A v \in Threads : v # u => (Answered(w, v) <=> Answered(j, v)) BY <1>7 DEF Everyone
<1>10. Joins(j, c, w, c, u) BY <1>4, <1>6, <1>7, <1>8, <1>9, JoinsIs
<1>11. More(j, c, w, c, g) BY <1>4, <1>10, JoinsCount
<1>12. Shorter(j, w) BY <1>1, <1>2, WokeShorter
<1>. QED BY <1>2, <1>3, <1>11, <1>12

(* The thread t that runs woke another, and its own call returns.           *)
Swaps(j, c, n, d, t, g) ==
    \A op : op # "none" =>
        /\ op = g /\ t \in WokenOf(j, c, op) => Count(n, d, op) = Count(j, c, op)
        /\ op = g /\ t \notin WokenOf(j, c, op) => Count(n, d, op) = Count(j, c, op) + 1
        /\ op # g /\ t \in WokenOf(j, c, op) => Count(n, d, op) = Count(j, c, op) - 1
        /\ op # g /\ t \notin WokenOf(j, c, op) => Count(n, d, op) = Count(j, c, op)
LEMMA SwapsIs ==
    ASSUME NEW j, NEW c, NEW w, NEW n, NEW d, NEW t, NEW g, More(j, c, w, c, g), Fewer(w, c, n, d, t),
           t \in Threads, Answered(w, t) <=> Answered(j, t)
    PROVE Swaps(j, c, n, d, t, g)
<1>1. ASSUME NEW op, op # "none"
      PROVE /\ op = g /\ t \in WokenOf(j, c, op) => Count(n, d, op) = Count(j, c, op)
            /\ op = g /\ t \notin WokenOf(j, c, op) => Count(n, d, op) = Count(j, c, op) + 1
            /\ op # g /\ t \in WokenOf(j, c, op) => Count(n, d, op) = Count(j, c, op) - 1
            /\ op # g /\ t \notin WokenOf(j, c, op) => Count(n, d, op) = Count(j, c, op)
  <2>1. t \in WokenOf(w, c, op) <=> t \in WokenOf(j, c, op) BY WokenIs
  <2>2. PICK x, y, z : x = Count(j, c, op) /\ y = Count(w, c, op) /\ z = Count(n, d, op) OBVIOUS
  <2>3. x \in Nat /\ y \in Nat /\ z \in Nat BY <2>2, WokenIs
  <2>4. (t \in WokenOf(j, c, op) => z = y - 1) /\ (t \notin WokenOf(j, c, op) => z = y)
    BY <1>1, <2>1, <2>2 DEF Fewer
  <2>5. (op = g => y = x + 1) /\ (op # g => y = x) BY <2>2 DEF More
  <2>6. op = g /\ t \in WokenOf(j, c, op) => z = x BY <2>3, <2>4, <2>5
  <2>7. op = g /\ t \notin WokenOf(j, c, op) => z = x + 1 BY <2>3, <2>4, <2>5
  <2>. QED BY <2>2, <2>4, <2>5, <2>6, <2>7
<1>. QED BY <1>1 DEF Swaps

----------------------------------------------------------------------------
(* The kinds of steps with their effect on the counts.                      *)
LEMMA Returns ==
    ASSUME NEW j, NEW c, NEW kd, ThreadInv(j, c, "none", "none", kd), NEW t, Running(j, c, t),
           NEW d, Calls(c, d, t, UserCall), NEW n, n = Marked(j, t, "ok")
    PROVE ThreadInv(n, d, "none", "none", kd) /\ Fewer(j, c, n, d, t) /\ n.list = j.list
<1>1. CoreInv(j, c, "none", "none", kd) /\ HighSound(j, c, "none") BY DEF ThreadInv
<1>2. PICK r : r = UserCall OBVIOUS
<1>3. Calls(c, d, t, r) /\ r \in CallsOf /\ r.op = "none" BY <1>2, TheCalls
<1>4. Fewer(j, c, n, d, t) /\ n.list = j.list BY <1>1, <1>3, ReturnCounts
<1>5. ThreadInv(n, d, "none", "none", kd) BY <1>1, <1>2, <1>3, ReturnStep
<1>. QED BY <1>4, <1>5

LEMMA Wakes ==
    ASSUME NEW j, NEW c, NEW kd, CoreInv(j, c, "none", "none", kd), NEW t, Running(j, c, t),
           NEW l \in {"wait", "send"}, j.list[l] # <<>>, NEW w, w = ListResume(j, l),
           NEW d, Calls(c, d, t, SchedCall), NEW n, n = Marked(w, t, "ok")
    PROVE /\ ThreadInv(n, d, "none", "none", kd) /\ Swaps(j, c, n, d, t, ListOp(l, kd))
          /\ Shorter(j, n)
<1>1. Sound(j) BY CoreOf
<1>2. Resumed(j, w, l, "ok") BY <1>1, ResumedIs
<1>3. More(j, c, w, c, ListOp(l, kd)) /\ Shorter(j, w) /\ w.current = j.current BY <1>2, ResumedCounts
<1>4. PICK u \in Threads : /\ u \in Everyone /\ Woke(j, w, u) /\ w.current = j.current /\ j.stat[u] = "suspend"
                           /\ w.error = [j.error EXCEPT ![u] = "ok"] /\ u \in ToSet(j.list[l])
  BY <1>2 DEF Resumed
<1>5. ThreadInv(n, d, "none", "none", kd) BY <1>4, ResumeStep
<1>6. TurnSound(j, w) BY <1>1, <1>4, CoreOf, WokeTurns
<1>7. CoreInv(w, c, "none", "none", kd) BY <1>4, <1>6, WokeKeeps
<1>8. Running(w, c, t) BY <1>3 DEF Running
<1>9. PICK r : r = SchedCall OBVIOUS
<1>10. Calls(c, d, t, r) /\ r \in CallsOf /\ r.op = "none" BY <1>9, TheCalls
<1>11. Fewer(w, c, n, d, t) /\ n.list = w.list BY <1>7, <1>8, <1>10, ReturnCounts
<1>12. t \in Threads /\ t \in Everyone /\ j.stat[t] = "running" BY RunnerIs
<1>13. j.error \in [Everyone -> Errors] BY <1>1, FieldsOf DEF Sound
<1>14. Answered(w, t) <=> Answered(j, t)
  <2>1. \A v \in Everyone : v # u => w.error[v] = j.error[v] BY <1>4, <1>13
  <2>2. \A v \in Everyone : v # u => (Answered(w, v) <=> Answered(j, v)) BY <1>4, <2>1, AnsweredWoke
  <2>3. t # u BY <1>4, <1>12
  <2>. QED BY <1>12, <2>2, <2>3
<1>15. Swaps(j, c, n, d, t, ListOp(l, kd)) BY <1>3, <1>11, <1>12, <1>14, SwapsIs
<1>16. Shorter(j, n) BY <1>3, <1>11 DEF Shorter
<1>. QED BY <1>5, <1>15, <1>16

LEMMA WakesOut ==
    ASSUME NEW j, NEW c, NEW is, NEW kd, CoreInv(j, c, is, "none", kd),
           NEW l \in {"wait", "send"}, j.list[l] # <<>>, NEW n, n = Schedule(ListResume(j, l))
    PROVE ThreadInv(n, c, is, "none", kd) /\ More(j, c, n, c, ListOp(l, kd)) /\ Shorter(j, n)
<1>1. Sound(j) BY CoreOf
<1>2. PICK w : w = ListResume(j, l) OBVIOUS
<1>3. Resumed(j, w, l, "ok") BY <1>1, <1>2, ResumedIs
<1>4. More(j, c, w, c, ListOp(l, kd)) /\ Shorter(j, w) /\ w.current = j.current BY <1>3, ResumedCounts
<1>5. PICK u \in Threads : /\ u \in Everyone /\ Woke(j, w, u) /\ w.current = j.current /\ j.stat[u] = "suspend"
                           /\ w.error = [j.error EXCEPT ![u] = "ok"] /\ u \in ToSet(j.list[l])
  BY <1>3 DEF Resumed
<1>6. n = Schedule(w) BY <1>2
<1>7. ThreadInv(n, c, is, "none", kd) /\ Woke(j, n, u) /\ n.error = w.error BY <1>5, <1>6, InterruptResumes
<1>8. Sound(w) BY <1>5 DEF Woke
<1>9. SameStatus(w, n) /\ n.list = w.list /\ n.error = w.error BY <1>6, <1>8, ScheduleIs
<1>10. Equal(w, c, n, c)
  <2>1. \A v \in Everyone : Answered(n, v) <=> Answered(w, v) BY <1>9, AnsweredStays
  <2>2. \A v \in Threads : Answered(n, v) <=> Answered(w, v) BY <2>1 DEF Everyone
  <2>3. Stays(w, c, n, c) BY <2>2, StaysIs
  <2>. QED BY <2>3, StaysCount
<1>11. More(j, c, n, c, ListOp(l, kd)) BY <1>4, <1>10 DEF More, Equal
<1>12. Shorter(j, n) BY <1>4, <1>9 DEF Shorter
<1>. QED BY <1>7, <1>11, <1>12

WaitCall(op, cnt, value) == [pc |-> "sched", op |-> op, left |-> cnt, spent |-> 0, value |-> value]
LEMMA Blocks ==
    ASSUME NEW j, NEW c, NEW kd, CoreInv(j, c, "none", "none", kd), NEW t, Running(j, c, t),
           NEW l \in {"wait", "send"}, NEW op, op = ListOp(l, kd), l = "send" => kd = "mailbox",
           kd \in {"sem", "mailbox", "pool", "completion"},
           NEW cnt \in -1..Half - 1, NEW value \in MailValues, NEW e \in Errors,
           NEW d, Calls(c, d, t, WaitCall(op, cnt, value)),
           kd = "completion" => \A u \in Threads : c[u].op # "done",
           NEW n, n = BlockAtEnd(j, t, l, cnt, e) \/ n = BlockInFront(j, t, l, cnt, e)
    PROVE /\ ThreadInv(n, d, "none", "none", kd) /\ Fewer(j, c, n, d, t)
          /\ \A x \in WaitLists : x # l /\ n.list[x] # <<>> => j.list[x] # <<>>
<1>1. Sound(j) BY CoreOf
<1>2. t \in Threads /\ j.stat[t] = "running" BY RunnerIs
<1>3. PICK S : S = {l} OBVIOUS
<1>4. Blocked(j, n, t, S, cnt) /\ n.error = [j.error EXCEPT ![t] = e]
  <2>1. Blocking(j, t, l, cnt, e, n) BY <1>2 DEF Blocking
  <2>2. BlockedWith(j, n, t, S, cnt, e) BY <1>1, <1>3, <2>1, BlockIs
  <2>. QED BY <2>2 DEF BlockedWith
<1>5. PICK r : r = WaitCall(op, cnt, value) OBVIOUS
<1>6. op \in {"take", "send", "recv", "alloc", "done"} BY DEF ListOp, WaitOp
<1>7. 0 \in 0..Half - 1 BY Halves
<1>8. r \in CallsOf /\ r.pc = "sched" /\ r.op = op /\ r.left = cnt /\ r.spent = 0
  BY <1>5, <1>6, <1>7 DEF WaitCall, CallsOf
<1>9. WaitStarts(r, S, cnt, kd)
  <2>1. CASE l = "wait" BY <1>3, <1>8, <2>1 DEF WaitStarts, ListOp
  <2>2. CASE l = "send" BY <1>3, <1>8, <2>2 DEF WaitStarts, ListOp
  <2>. QED BY <2>1, <2>2
<1>10. Calls(c, d, t, r) BY <1>5
<1>11. ThreadInv(n, d, "none", "none", kd) BY <1>4, <1>8, <1>9, <1>10, WaitStep
<1>12. Fewer(j, c, n, d, t) /\ ShorterBut(j, n, S)
  BY <1>4, <1>8, <1>10, WaitCounts
<1>. QED BY <1>3, <1>11, <1>12 DEF ShorterBut

(* Nothing that counts has changed.                                         *)
OpsAlike(c, d) == \A t \in Threads : d[t].op = c[t].op
LEMMA StandCounts ==
    ASSUME NEW j, NEW c, NEW n, NEW d, Sound(j), Sound(n), OpsAlike(c, d), SameStatus(j, n), n.error = j.error,
           ToSet(n.list["wait"]) = ToSet(j.list["wait"]), ToSet(n.list["send"]) = ToSet(j.list["send"])
    PROVE Equal(j, c, n, d) /\ \A l \in {"wait", "send"} : n.list[l] # <<>> => j.list[l] # <<>>
<1>1. \A v \in Everyone : Answered(n, v) <=> Answered(j, v) BY AnsweredStays
<1>2. \A v \in Threads : Answered(n, v) <=> Answered(j, v) BY <1>1 DEF Everyone
<1>3. \A v \in Threads : d[v].op = c[v].op BY DEF OpsAlike
<1>4. Stays(j, c, n, d) BY <1>2, <1>3, StaysIs
<1>5. Equal(j, c, n, d) BY <1>4, StaysCount
<1>6. "wait" \in WaitLists /\ "send" \in WaitLists BY DEF WaitLists
<1>7. n.list["wait"] # <<>> => j.list["wait"] # <<>> BY <1>6, ListOf
<1>8. n.list["send"] # <<>> => j.list["send"] # <<>> BY <1>6, ListOf
<1>. QED BY <1>5, <1>7, <1>8

----------------------------------------------------------------------------
(* The object: its fields o, what is owed ow, and the mail ml.              *)
Cells == 0..Slots - 1
Objs ==
    [value : Nat, pool : [Cells -> MailValues], in : Cells, out : Cells, entry : 0..Slots,
     free : Nat, held : Nat, flag : BOOLEAN]
MailSound(o, ml) ==
    /\ o.in = (o.out + o.entry) % Slots
    /\ ml = [i \in 1..o.entry |-> o.pool[(o.out + i - 1) % Slots]]
SameMail(o, p) == p.pool = o.pool /\ p.in = o.in /\ p.out = o.out /\ p.entry = o.entry

SemSound(j, c, o, ow) ==
    ow = o.value + Count(j, c, "take") /\ (o.value > 0 => j.list["wait"] = <<>>)
MailFlows(j, c, o) ==
    /\ j.list["wait"] # <<>> => o.entry <= Count(j, c, "recv")
    /\ j.list["send"] # <<>> => Slots - o.entry <= Count(j, c, "send")
PoolFlows(j, c, o) == j.list["wait"] # <<>> => o.free <= Count(j, c, "alloc")
DoneSound(j, o) == o.flag => j.list["wait"] = <<>>
NoLoss(j, c, kd, o, ow) ==
    /\ kd = "sem" => SemSound(j, c, o, ow)
    /\ kd = "mailbox" => MailFlows(j, c, o)
    /\ kd = "pool" => PoolFlows(j, c, o)
    /\ kd = "completion" => DoneSound(j, o)

Kinds == {"sem", "mailbox", "pool", "completion"}
IpcInv ==
    /\ kind \in Objects /\ kind \in Kinds /\ ThreadInv(k, ctx, isr, loop, kind)
    /\ obj \in Objs /\ owed \in Int /\ MailSound(obj, mail) /\ NoLoss(k, ctx, kind, obj, owed)

LEMMA ObjsOf ==
    ASSUME NEW o \in Objs
    PROVE /\ o.value \in Nat /\ o.pool \in [Cells -> MailValues] /\ o.in \in Cells /\ o.out \in Cells
          /\ o.entry \in 0..Slots /\ o.free \in Nat /\ o.held \in Nat /\ o.flag \in BOOLEAN
BY DEF Objs
LEMMA MailKept ==
    ASSUME NEW o, NEW p, SameMail(o, p), NEW ml, MailSound(o, ml)
    PROVE MailSound(p, ml)
BY DEF SameMail, MailSound

LEMMA NoLossStays ==
    ASSUME NEW j, NEW c, NEW kd, NEW o, NEW ow, NoLoss(j, c, kd, o, ow), NEW n, NEW d, Equal(j, c, n, d),
           n.list["wait"] # <<>> => j.list["wait"] # <<>>, n.list["send"] # <<>> => j.list["send"] # <<>>
    PROVE NoLoss(n, d, kd, o, ow)
<1>1. SemSound(j, c, o, ow) => SemSound(n, d, o, ow) BY DEF SemSound, Equal
<1>2. MailFlows(j, c, o) => MailFlows(n, d, o) BY DEF MailFlows, Equal
<1>3. PoolFlows(j, c, o) => PoolFlows(n, d, o) BY DEF PoolFlows, Equal
<1>4. DoneSound(j, o) => DoneSound(n, o) BY DEF DoneSound
<1>. QED BY <1>1, <1>2, <1>3, <1>4 DEF NoLoss

(* The mailbox is a ring.                                                   *)
LEMMA SlotsAre == Slots \in Nat /\ Slots >= 1 /\ Cells = 0..Slots - 1
BY IpcAssumption DEF Cells
LEMMA CellIs ==
    ASSUME NEW a \in Cells, NEW i \in 0..Slots
    PROVE /\ (a + i) % Slots = IF a + i < Slots THEN a + i ELSE a + i - Slots
          /\ (a + i) % Slots \in Cells
<1>1. Slots \in Nat \ {0} /\ a \in Nat /\ i \in Nat /\ a < Slots /\ i <= Slots BY SlotsAre
<1>2. PICK x \in Nat : x = a + i /\ x < 2 * Slots BY <1>1
<1>20. x % Slots = IF x < Slots THEN x ELSE x - Slots BY <1>1, <1>2, Folded
<1>21. x = a + i BY <1>2
<1>22. (a + i) % Slots = x % Slots BY <1>21, Zenon
<1>3. (a + i) % Slots = IF a + i < Slots THEN a + i ELSE a + i - Slots
  <2>1. PICK y : y = (a + i) % Slots OBVIOUS
  <2>2. y = IF x < Slots THEN x ELSE x - Slots BY <1>20, <1>22, <2>1
  <2>3. y = IF a + i < Slots THEN a + i ELSE a + i - Slots BY <1>1, <1>21, <2>2
  <2>. QED BY <2>1, <2>3
<1>4. (IF a + i < Slots THEN a + i ELSE a + i - Slots) \in 0..Slots - 1 BY <1>1
<1>. QED BY <1>3, <1>4, SlotsAre
LEMMA AfterIs ==
    ASSUME NEW a \in Cells
    PROVE /\ After(a) \in Cells
          /\ \A i \in 0..Slots - 1 : (After(a) + i) % Slots = (a + (i + 1)) % Slots
<1>1. Slots \in Nat /\ Slots >= 1 /\ a \in 0..Slots - 1 BY SlotsAre
<1>2. After(a) = IF a + 1 >= Slots THEN 0 ELSE a + 1 BY DEF After
<1>3. After(a) \in Cells BY <1>1, <1>2, SlotsAre
<1>4. ASSUME NEW i \in 0..Slots - 1 PROVE (After(a) + i) % Slots = (a + (i + 1)) % Slots
  <2>1. i \in 0..Slots /\ i + 1 \in 0..Slots BY <1>1
  <2>2. PICK b \in Cells : b = After(a) BY <1>3
  <2>3. (b + i) % Slots = IF b + i < Slots THEN b + i ELSE b + i - Slots BY <2>1, CellIs
  <2>4. (a + (i + 1)) % Slots = IF a + (i + 1) < Slots THEN a + (i + 1) ELSE a + (i + 1) - Slots BY <2>1, CellIs
  <2>5. b \in Int /\ b = IF a + 1 >= Slots THEN 0 ELSE a + 1 BY <1>1, <1>2, <2>2
  <2>6. (IF b + i < Slots THEN b + i ELSE b + i - Slots) = (IF a + (i + 1) < Slots THEN a + (i + 1) ELSE a + (i + 1) - Slots)
    BY <1>1, <2>5
  <2>. QED BY <2>2, <2>3, <2>4, <2>6
<1>. QED BY <1>3, <1>4
LEMMA PreviousIs ==
    ASSUME NEW a \in Cells
    PROVE /\ Previous(a) \in Cells
          /\ \A i \in 0..Slots - 1 : (Previous(a) + (i + 1)) % Slots = (a + i) % Slots
<1>1. Slots \in Nat /\ Slots >= 1 /\ a \in 0..Slots - 1 BY SlotsAre
<1>2. Previous(a) = IF a > 0 THEN a - 1 ELSE Slots - 1 BY DEF Previous
<1>3. PICK b : b = Previous(a) OBVIOUS
<1>4. b \in Cells /\ b \in 0..Slots - 1 BY <1>1, <1>2, <1>3, SlotsAre
<1>5. After(b) = a BY <1>1, <1>2, <1>3, <1>4 DEF After
<1>6. \A i \in 0..Slots - 1 : (After(b) + i) % Slots = (b + (i + 1)) % Slots BY <1>4, AfterIs
<1>. QED BY <1>3, <1>4, <1>5, <1>6

(* The cells of the messages that are there, and the one after them, are    *)
(* all different.                                                           *)
LEMMA CellsDiffer ==
    ASSUME NEW a \in Cells, NEW i \in 0..Slots - 1, NEW l \in 0..Slots - 1, i # l
    PROVE (a + i) % Slots # (a + l) % Slots
<1>1. Slots \in Nat /\ Slots >= 1 /\ a \in 0..Slots - 1 BY SlotsAre
<1>2. i \in 0..Slots /\ l \in 0..Slots BY <1>1
<1>3. (a + i) % Slots = IF a + i < Slots THEN a + i ELSE a + i - Slots BY <1>2, CellIs
<1>4. (a + l) % Slots = IF a + l < Slots THEN a + l ELSE a + l - Slots BY <1>2, CellIs
<1>5. (IF a + i < Slots THEN a + i ELSE a + i - Slots) # (IF a + l < Slots THEN a + l ELSE a + l - Slots)
  BY <1>1
<1>. QED BY <1>3, <1>4, <1>5

MailAt(o, i) == o.pool[(o.out + i - 1) % Slots]
LEMMA MailSeq ==
    ASSUME NEW o \in Objs, NEW ml, MailSound(o, ml)
    PROVE ml \in Seq(MailValues) /\ Len(ml) = o.entry /\ \A i \in 1..o.entry : ml[i] = MailAt(o, i)
<1>1. o.entry \in Nat /\ o.entry <= Slots /\ o.out \in Cells /\ o.pool \in [Cells -> MailValues]
  BY ObjsOf, SlotsAre
<1>2. PICK n \in Nat : n = o.entry BY <1>1
<1>3. ml = [i \in 1..n |-> MailAt(o, i)] BY <1>2 DEF MailSound, MailAt
<1>4. \A i \in 1..n : MailAt(o, i) \in MailValues
  <2>1. SUFFICES ASSUME NEW i \in 1..n PROVE MailAt(o, i) \in MailValues OBVIOUS
  <2>2. PICK h \in 0..Slots : h = i - 1 BY <1>1, <1>2, SlotsAre
  <2>3. (o.out + h) % Slots \in Cells BY <1>1, CellIs
  <2>4. o.out + i - 1 = o.out + h BY <1>1, <2>2, SlotsAre
  <2>. QED BY <1>1, <2>3, <2>4 DEF MailAt
<1>5. ml \in [1..n -> MailValues] BY <1>3, <1>4
<1>6. ml \in Seq(MailValues) BY <1>2, <1>5
<1>7. Len(ml) = n BY <1>2, <1>5, <1>6, LenProperties
<1>. QED BY <1>2, <1>3, <1>6, <1>7
LEMMA MailIs ==
    ASSUME NEW o \in Objs, NEW ml \in Seq(MailValues), Len(ml) = o.entry,
           \A i \in 1..o.entry : ml[i] = MailAt(o, i), o.in = (o.out + o.entry) % Slots
    PROVE MailSound(o, ml)
<1>1. PICK n \in Nat : n = o.entry BY ObjsOf, SlotsAre
<1>2. ml \in [1..n -> MailValues] BY <1>1, LenProperties
<1>3. ml = [i \in 1..n |-> MailAt(o, i)] BY <1>1, <1>2
<1>. QED BY <1>1, <1>3 DEF MailSound, MailAt

(* A message enters at the end or in front, and the first leaves.           *)
PutLast(o, v) == [o EXCEPT !.pool[o.in] = v, !.in = After(@), !.entry = @ + 1]
TakeFirst(o) == [o EXCEPT !.out = After(@), !.entry = @ - 1]
PutFirst(o, v) == [o EXCEPT !.out = Previous(@), !.pool[Previous(o.out)] = v, !.entry = @ + 1]
Puts(o, ml, v, p, m) == o.entry < Slots /\ v \in MailValues /\ p = PutLast(o, v) /\ m = Append(ml, v)
PutsFirst(o, ml, v, p, m) == o.entry < Slots /\ v \in MailValues /\ p = PutFirst(o, v) /\ m = <<v>> \o ml
LEMMA PutIs ==
    ASSUME NEW o, o \in Objs, NEW ml, MailSound(o, ml), NEW v, NEW p, NEW m, Puts(o, ml, v, p, m)
    PROVE p \in Objs /\ MailSound(p, m) /\ p.entry = o.entry + 1
<1>. USE DEF Puts
<1>1. /\ o.entry \in Nat /\ o.entry \in 0..Slots - 1 /\ o.in \in Cells /\ o.out \in Cells
      /\ o.pool \in [Cells -> MailValues] /\ Slots \in Nat /\ Slots >= 1
  BY ObjsOf, SlotsAre
<1>2. PICK e, a, b, q, s : e = o.entry /\ a = o.out /\ b = o.in /\ q = o.pool /\ s = [q EXCEPT ![b] = v] OBVIOUS
<1>3. PICK f, z : f = e + 1 /\ z = After(b) OBVIOUS
<1>4. e \in Nat /\ e \in 0..Slots - 1 /\ a \in Cells /\ b \in Cells /\ q \in [Cells -> MailValues]
  BY <1>1, <1>2
<1>5. f \in 0..Slots /\ z \in Cells /\ s \in [Cells -> MailValues] /\ f \in Nat
  <2>1. z \in Cells BY <1>3, <1>4, AfterIs
  <2>2. f \in 0..Slots /\ f \in Nat BY <1>1, <1>3, <1>4
  <2>3. s \in [Cells -> MailValues] BY <1>2, <1>4
  <2>. QED BY <2>1, <2>2, <2>3
<1>6. p = [o EXCEPT !.pool = s, !.in = z, !.entry = f] BY <1>2, <1>3 DEF PutLast, Objs
<1>7. /\ p \in Objs /\ p.pool = s /\ p.in = z /\ p.entry = f /\ p.out = a
  BY <1>2, <1>5, <1>6 DEF Objs
<1>8. ml \in Seq(MailValues) /\ Len(ml) = e /\ \A i \in 1..e : ml[i] = MailAt(o, i) BY <1>2, MailSeq
<1>9. b = (a + e) % Slots BY <1>2 DEF MailSound
<1>10. m \in Seq(MailValues) /\ Len(m) = f /\ m[f] = v /\ \A i \in 1..e : m[i] = ml[i]
  BY <1>3, <1>4, <1>8, AppendProperties
<1>11. ASSUME NEW i \in 1..f PROVE m[i] = MailAt(p, i)
  <2>1. PICK h \in 0..Slots - 1 : h = i - 1 BY <1>1, <1>3, <1>4
  <2>2. a + i - 1 = a + h BY <1>4, <2>1, SlotsAre
  <2>3. MailAt(p, i) = s[(a + h) % Slots] /\ MailAt(o, i) = q[(a + h) % Slots] BY <1>2, <1>7, <2>2 DEF MailAt
  <2>4. CASE i = f
    <3>1. h = e BY <1>3, <1>4, <2>1, <2>4
    <3>2. s[b] = v BY <1>2, <1>4
    <3>. QED BY <1>9, <1>10, <2>3, <2>4, <3>1, <3>2
  <2>5. CASE i # f
    <3>1. i \in 1..e /\ h # e BY <1>3, <1>4, <2>1, <2>5
    <3>2. (a + h) % Slots # b BY <1>4, <1>9, <2>1, <3>1, CellsDiffer
    <3>3. h \in 0..Slots BY <1>1, <2>1
    <3>4. (a + h) % Slots \in Cells BY <1>4, <3>3, CellIs
    <3>5. s[(a + h) % Slots] = q[(a + h) % Slots] BY <1>2, <1>4, <3>2, <3>4
    <3>. QED BY <1>8, <1>10, <2>3, <3>1, <3>5
  <2>. QED BY <2>4, <2>5
<1>12. z = (a + f) % Slots
  <2>1. PICK n \in Nat : n = Slots BY <1>1
  <2>2. e \in 0..Slots /\ e + 1 \in 0..Slots BY <1>1, <1>4
  <2>3. b = IF a + e < Slots THEN a + e ELSE a + e - Slots BY <1>4, <1>9, <2>2, CellIs
  <2>4. (a + f) % Slots = IF a + f < Slots THEN a + f ELSE a + f - Slots BY <1>4, <1>5, CellIs
  <2>5. z = IF b + 1 >= Slots THEN 0 ELSE b + 1 BY <1>3 DEF After
  <2>6. a \in 0..n - 1 /\ b \in 0..n - 1 BY <1>4, <2>1, SlotsAre
  <2>7. (IF b + 1 >= n THEN 0 ELSE b + 1) = (IF a + f < n THEN a + f ELSE a + f - n)
    BY <1>3, <1>4, <2>1, <2>3, <2>6
  <2>. QED BY <2>1, <2>4, <2>5, <2>7
<1>13. MailSound(p, m) BY <1>7, <1>10, <1>11, <1>12, MailIs
<1>. QED BY <1>2, <1>3, <1>7, <1>13

LEMMA GetIs ==
    ASSUME NEW o \in Objs, NEW ml, MailSound(o, ml), o.entry # 0, NEW p, p = TakeFirst(o), NEW m, m = Tail(ml)
    PROVE p \in Objs /\ MailSound(p, m) /\ p.entry = o.entry - 1
<1>1. /\ o.entry \in Nat /\ o.entry \in 1..Slots /\ o.in \in Cells /\ o.out \in Cells
      /\ o.pool \in [Cells -> MailValues] /\ Slots \in Nat /\ Slots >= 1
  BY ObjsOf, SlotsAre
<1>2. PICK e, a, z, f : e = o.entry /\ a = o.out /\ z = After(a) /\ f = e - 1 OBVIOUS
<1>3. e \in Nat /\ e \in 1..Slots /\ a \in Cells /\ f \in 0..Slots - 1 /\ f \in 0..Slots /\ f \in Nat
  BY <1>1, <1>2
<1>4. z \in Cells /\ \A i \in 0..Slots - 1 : (z + i) % Slots = (a + (i + 1)) % Slots BY <1>2, <1>3, AfterIs
<1>5. p = [o EXCEPT !.out = z, !.entry = f] BY <1>2 DEF TakeFirst
<1>6. p \in Objs /\ p.pool = o.pool /\ p.in = o.in /\ p.entry = f /\ p.out = z
  BY <1>3, <1>4, <1>5 DEF Objs
<1>7. ml \in Seq(MailValues) /\ Len(ml) = e /\ \A i \in 1..e : ml[i] = MailAt(o, i) BY <1>2, MailSeq
<1>8. ml # <<>> BY <1>3, <1>7
<1>9. m \in Seq(MailValues) /\ Len(m) = f /\ \A i \in 1..f : m[i] = ml[i + 1]
  BY <1>2, <1>3, <1>7, <1>8, HeadTailProperties
<1>10. ASSUME NEW i \in 1..f PROVE m[i] = MailAt(p, i)
  <2>1. PICK h \in 0..Slots - 1 : h = i - 1 BY <1>1, <1>3
  <2>2. i + 1 \in 1..e BY <1>2, <1>3
  <2>3. z \in Int /\ a \in Int BY <1>3, <1>4, SlotsAre
  <2>4. z + i - 1 = z + h /\ a + (i + 1) - 1 = a + (h + 1) BY <2>1, <2>3
  <2>5. MailAt(p, i) = o.pool[(z + h) % Slots] /\ MailAt(o, i + 1) = o.pool[(a + (h + 1)) % Slots]
    BY <1>2, <1>6, <2>4 DEF MailAt
  <2>6. (z + h) % Slots = (a + (h + 1)) % Slots BY <1>4
  <2>. QED BY <1>7, <1>9, <2>2, <2>5, <2>6
<1>11. o.in = (z + f) % Slots
  <2>1. o.in = (a + e) % Slots BY <1>2 DEF MailSound
  <2>2. e = f + 1 BY <1>2, <1>3
  <2>. QED BY <1>3, <1>4, <2>1, <2>2
<1>12. MailSound(p, m) BY <1>6, <1>9, <1>10, <1>11, MailIs
<1>. QED BY <1>2, <1>6, <1>12

LEMMA PutFirstIs ==
    ASSUME NEW o, o \in Objs, NEW ml, MailSound(o, ml), NEW v, NEW p, NEW m, PutsFirst(o, ml, v, p, m)
    PROVE p \in Objs /\ MailSound(p, m) /\ p.entry = o.entry + 1
<1>. USE DEF PutsFirst
<1>1. /\ o.entry \in Nat /\ o.entry \in 0..Slots - 1 /\ o.in \in Cells /\ o.out \in Cells
      /\ o.pool \in [Cells -> MailValues] /\ Slots \in Nat /\ Slots >= 1
  BY ObjsOf, SlotsAre
<1>2. PICK e, a, z, q : e = o.entry /\ a = o.out /\ z = Previous(a) /\ q = o.pool OBVIOUS
<1>3. PICK f, s : f = e + 1 /\ s = [q EXCEPT ![z] = v] OBVIOUS
<1>4. e \in Nat /\ e \in 0..Slots - 1 /\ a \in Cells /\ q \in [Cells -> MailValues] BY <1>1, <1>2
<1>5. z \in Cells /\ \A i \in 0..Slots - 1 : (z + (i + 1)) % Slots = (a + i) % Slots BY <1>2, <1>4, PreviousIs
<1>6. f \in 0..Slots /\ f \in Nat /\ f \in 1..Slots BY <1>1, <1>3, <1>4
<1>7. s \in [Cells -> MailValues] BY <1>3, <1>4
<1>8. p = [o EXCEPT !.out = z, !.pool = s, !.entry = f] BY <1>2, <1>3 DEF PutFirst
<1>9. p \in Objs /\ p.pool = s /\ p.in = o.in /\ p.entry = f /\ p.out = z
  BY <1>5, <1>6, <1>7, <1>8 DEF Objs
<1>10. ml \in Seq(MailValues) /\ Len(ml) = e /\ \A i \in 1..e : ml[i] = MailAt(o, i) BY <1>2, MailSeq
<1>11. /\ m \in Seq(MailValues) /\ Len(m) = f /\ m[1] = v /\ \A i \in 2..f : m[i] = ml[i - 1]
  <2>0. <<v>> \in Seq(MailValues) /\ Len(<<v>>) = 1 /\ <<v>>[1] = v OBVIOUS
  <2>1. PICK w : w = <<v>> OBVIOUS
  <2>3. w \in Seq(MailValues) /\ Len(w) = 1 /\ w[1] = v BY <2>0, <2>1
  <2>2. /\ w \o ml \in Seq(MailValues) /\ Len(w \o ml) = Len(w) + Len(ml)
        /\ \A i \in 1..Len(w) + Len(ml) : (w \o ml)[i] = IF i <= Len(w) THEN w[i] ELSE ml[i - Len(w)]
    BY <1>10, <2>3, ConcatProperties
  <2>. QED BY <1>3, <1>4, <1>10, <2>1, <2>2, <2>3
<1>12. ASSUME NEW i \in 1..f PROVE m[i] = MailAt(p, i)
  <2>0. z \in Int /\ a \in Int BY <1>4, <1>5, SlotsAre
  <2>1. CASE i = 1
    <3>1. z + i - 1 = z + 0 /\ 0 \in 0..Slots BY <1>1, <2>0, <2>1
    <3>2. (z + 0) % Slots = z
      <4>1. (z + 0) % Slots = IF z + 0 < Slots THEN z + 0 ELSE z + 0 - Slots BY <1>5, <3>1, CellIs
      <4>2. z < Slots BY <1>5, SlotsAre
      <4>. QED BY <2>0, <4>1, <4>2
    <3>3. s[z] = v BY <1>3, <1>4, <1>5
    <3>. QED BY <1>9, <1>11, <2>1, <3>1, <3>2, <3>3 DEF MailAt
  <2>2. CASE i # 1
    <3>1. i \in 2..f /\ i - 1 \in 1..e BY <1>3, <1>4, <2>2
    <3>2. PICK h \in 0..Slots - 1 : h = i - 2 BY <1>1, <1>6, <3>1
    <3>3. z + i - 1 = z + (h + 1) /\ a + (i - 1) - 1 = a + h BY <2>0, <3>2
    <3>4. MailAt(p, i) = s[(a + h) % Slots] BY <1>5, <1>9, <3>3 DEF MailAt
    <3>5. MailAt(o, i - 1) = q[(a + h) % Slots] BY <1>2, <3>3 DEF MailAt
    <3>6. h + 1 \in 0..Slots - 1 /\ h + 1 # 0 /\ 0 \in 0..Slots - 1 /\ 0 \in 0..Slots BY <1>1, <1>6, <3>1, <3>2
    <3>7. (z + (h + 1)) % Slots # (z + 0) % Slots BY <1>5, <3>6, CellsDiffer
    <3>8. (z + 0) % Slots = z
      <4>1. (z + 0) % Slots = IF z + 0 < Slots THEN z + 0 ELSE z + 0 - Slots BY <1>5, <3>6, CellIs
      <4>2. z < Slots BY <1>5, SlotsAre
      <4>. QED BY <2>0, <4>1, <4>2
    <3>9. (a + h) % Slots # z BY <1>5, <3>7, <3>8
    <3>10. h \in 0..Slots BY <1>1, <3>2
    <3>11. (a + h) % Slots \in Cells BY <1>4, <3>10, CellIs
    <3>12. s[(a + h) % Slots] = q[(a + h) % Slots] BY <1>3, <1>4, <3>9, <3>11
    <3>. QED BY <1>10, <1>11, <3>1, <3>4, <3>5, <3>12
  <2>. QED BY <2>1, <2>2
<1>13. o.in = (z + f) % Slots BY <1>2, <1>3, <1>4, <1>5 DEF MailSound
<1>14. MailSound(p, m) BY <1>9, <1>11, <1>12, <1>13, MailIs
<1>. QED BY <1>2, <1>3, <1>9, <1>14

----------------------------------------------------------------------------
(* What Return, Waits and the others do in a state of the system.           *)
LEMMA InvParts ==
    ASSUME IpcInv
    PROVE /\ kind \in Objects /\ kind \in Kinds /\ ThreadInv(k, ctx, isr, loop, kind)
          /\ CoreInv(k, ctx, isr, loop, kind) /\ HighSound(k, ctx, loop)
          /\ obj \in Objs /\ owed \in Int /\ MailSound(obj, mail) /\ NoLoss(k, ctx, kind, obj, owed)
          /\ Sound(k) /\ CallsSound(ctx)
<1>1. CoreInv(k, ctx, isr, loop, kind) /\ HighSound(k, ctx, loop) BY DEF IpcInv, ThreadInv
<1>2. Sound(k) /\ CallsSound(ctx) BY <1>1, CoreOf
<1>. QED BY <1>1, <1>2 DEF IpcInv
LEMMA InvFrom ==
    ASSUME kind' \in Objects, kind' \in Kinds, ThreadInv(k', ctx', isr', loop', kind'), obj' \in Objs, owed' \in Int,
           MailSound(obj', mail'), NoLoss(k', ctx', kind', obj', owed')
    PROVE IpcInv'
BY DEF IpcInv

Stand(t) == t \in Threads /\ (At(t, "user") \/ At(t, "woken") \/ At(t, "again"))
LEMMA Stands ==
    ASSUME IpcInv, NEW t, Stand(t)
    PROVE /\ isr = "none" /\ loop = "none" /\ ThreadInv(k, ctx, "none", "none", kind)
          /\ CoreInv(k, ctx, "none", "none", kind) /\ Running(k, ctx, t) /\ t \in Threads /\ t \in Everyone
          /\ k.stat[t] = "running" /\ ctx[t] \in CallsOf
<1>1. isr = "none" /\ loop = "none" /\ Running(k, ctx, t) /\ t \in Threads BY DEF Stand, At, Runs, Running
<1>2. ThreadInv(k, ctx, isr, loop, kind) /\ CoreInv(k, ctx, isr, loop, kind) /\ CallsSound(ctx) BY InvParts
<1>3. k.stat[t] = "running" /\ t \in Everyone BY <1>1, <1>2, RunnerIs
<1>4. ctx[t] \in CallsOf BY <1>1, <1>2, CallSoundOf
<1>. QED BY <1>1, <1>2, <1>3, <1>4

LEMMA ReturnDoes ==
    ASSUME IpcInv, NEW t, Stand(t), Return(t), UNCHANGED <<kind, isr, loop>>
    PROVE /\ ThreadInv(k', ctx', isr', loop', kind') /\ Fewer(k, ctx, k', ctx', t)
          /\ k'.list = k.list
<1>1. isr = "none" /\ loop = "none" /\ ThreadInv(k, ctx, "none", "none", kind) /\ Running(k, ctx, t) BY Stands
<1>2. Calls(ctx, ctx', t, UserCall) BY DEF Return, Calls, UserCall
<1>3. k' = Marked(k, t, "ok") BY DEF Return, Marked
<1>4. ThreadInv(k', ctx', "none", "none", kind) /\ Fewer(k, ctx, k', ctx', t) /\ k'.list = k.list
  BY <1>1, <1>2, <1>3, Returns
<1>. QED BY <1>1, <1>4

LEMMA WakeDoes ==
    ASSUME IpcInv, NEW t, Stand(t), NEW l \in {"wait", "send"}, k.list[l] # <<>>,
           ReturnAfterSchedule(t, ListResume(k, l)), UNCHANGED <<kind, isr, loop>>
    PROVE /\ ThreadInv(k', ctx', isr', loop', kind') /\ Swaps(k, ctx, k', ctx', t, ListOp(l, kind))
          /\ Shorter(k, k')
<1>1. isr = "none" /\ loop = "none" /\ CoreInv(k, ctx, "none", "none", kind) /\ Running(k, ctx, t) BY Stands
<1>2. Calls(ctx, ctx', t, SchedCall) BY DEF ReturnAfterSchedule, Calls, SchedCall
<1>3. PICK w : w = ListResume(k, l) OBVIOUS
<1>4. k' = Marked(w, t, "ok") BY <1>3 DEF ReturnAfterSchedule, Marked
<1>5. ThreadInv(k', ctx', "none", "none", kind) /\ Swaps(k, ctx, k', ctx', t, ListOp(l, kind)) /\ Shorter(k, k')
  BY <1>1, <1>2, <1>3, <1>4, Wakes
<1>. QED BY <1>1, <1>5

LEMMA WaitDoes ==
    ASSUME IpcInv, NEW t, Stand(t), NEW l \in {"wait", "send"}, NEW op, op = ListOp(l, kind),
           l = "send" => kind = "mailbox", NEW n \in -1..Half - 1, NEW v \in MailValues, NEW e \in Errors,
           kind = "completion" => \A u \in Threads : ctx[u].op # "done",
           Waits(t, op, n, v, BlockAtEnd(k, t, l, n, e)) \/ Waits(t, op, n, v, BlockInFront(k, t, l, n, e)),
           UNCHANGED <<kind, isr, loop>>
    PROVE /\ ThreadInv(k', ctx', isr', loop', kind') /\ Fewer(k, ctx, k', ctx', t)
          /\ \A x \in WaitLists : x # l /\ k'.list[x] # <<>> => k.list[x] # <<>>
<1>1. isr = "none" /\ loop = "none" /\ CoreInv(k, ctx, "none", "none", kind) /\ Running(k, ctx, t) BY Stands
<1>2. Calls(ctx, ctx', t, WaitCall(op, n, v)) BY DEF Waits, Calls, WaitCall
<1>3. k' = BlockAtEnd(k, t, l, n, e) \/ k' = BlockInFront(k, t, l, n, e) BY DEF Waits
<1>4. kind \in {"sem", "mailbox", "pool", "completion"} BY InvParts DEF Kinds
<1>5. /\ ThreadInv(k', ctx', "none", "none", kind) /\ Fewer(k, ctx, k', ctx', t)
      /\ \A x \in WaitLists : x # l /\ k'.list[x] # <<>> => k.list[x] # <<>>
  BY <1>1, <1>2, <1>3, <1>4, Blocks
<1>. QED BY <1>1, <1>5

LEMMA WakeOutDoes ==
    ASSUME IpcInv, loop = "none", NEW l \in {"wait", "send"}, k.list[l] # <<>>,
           k' = Schedule(ListResume(k, l)), UNCHANGED <<kind, ctx, isr, loop>>
    PROVE /\ ThreadInv(k', ctx', isr', loop', kind') /\ More(k, ctx, k', ctx', ListOp(l, kind))
          /\ Shorter(k, k')
<1>1. CoreInv(k, ctx, isr, "none", kind) BY InvParts
<1>2. ThreadInv(k', ctx, isr, "none", kind) /\ More(k, ctx, k', ctx, ListOp(l, kind)) /\ Shorter(k, k')
  BY <1>1, WakesOut
<1>. QED BY <1>2

(* Which thread counts.                                                     *)
LEMMA Idler ==
    ASSUME NEW j, NEW c, NEW t, c[t].op = "none"
    PROVE \A op : op # "none" => t \notin WokenOf(j, c, op)
BY WokenIs
LEMMA Looks ==
    ASSUME NEW j, NEW c, NEW t \in Threads, j.stat[t] = "running", j.error[t] = "ok"
    PROVE \A op : t \in WokenOf(j, c, op) <=> op = c[t].op
BY WokenIs DEF Answered
LEMMA Fails ==
    ASSUME NEW j, NEW c, NEW t, j.error[t] # "ok"
    PROVE \A op : t \notin WokenOf(j, c, op)
BY WokenIs DEF Answered

UserOf(t) == t \in Threads /\ At(t, "user")
LEMMA UserStands ==
    ASSUME IpcInv, NEW t, User(t)
    PROVE Stand(t) /\ \A op : op # "none" => t \notin WokenOf(k, ctx, op)
<1>1. Stand(t) /\ t \in Threads BY DEF User, At, Stand
<1>2. ctx[t].pc = "user" BY DEF User, At
<1>3. ctx[t].op = "none" BY <1>1, <1>2, InvParts DEF CallsSound
<1>. QED BY <1>1, <1>3, Idler
LEMMA WokenStands ==
    ASSUME IpcInv, NEW t, At(t, "woken"), k.error[t] = "ok"
    PROVE Stand(t) /\ \A op : t \in WokenOf(k, ctx, op) <=> op = ctx[t].op
<1>1. Stand(t) /\ t \in Threads BY DEF At, Stand
<1>2. k.stat[t] = "running" BY <1>1, Stands
<1>. QED BY <1>1, <1>2, Looks

LEMMA TimeoutIs == ASSUME IpcInv, NEW n \in Timeouts[kind] PROVE n \in -1..Half - 1
<1>1. kind \in Objects BY InvParts
<1>. QED BY <1>1, IpcAssumption

(* Fields of an object that are no mail.                                    *)
LEMMA ValueSet ==
    ASSUME NEW o \in Objs, NEW v \in Nat, NEW p, p = [o EXCEPT !.value = v]
    PROVE p \in Objs /\ SameMail(o, p) /\ p.value = v
BY DEF Objs, SameMail
LEMMA FlagSet ==
    ASSUME NEW o \in Objs, NEW v \in BOOLEAN, NEW p, p = [o EXCEPT !.flag = v]
    PROVE p \in Objs /\ SameMail(o, p) /\ p.flag = v
BY DEF Objs, SameMail
BlocksOf(o, f, h) == [o EXCEPT !.free = f, !.held = h]
LEMMA BlocksSet ==
    ASSUME NEW o, o \in Objs, NEW f, f \in Nat, NEW h, h \in Nat
    PROVE /\ BlocksOf(o, f, h) \in Objs /\ SameMail(o, BlocksOf(o, f, h))
          /\ BlocksOf(o, f, h).free = f /\ BlocksOf(o, f, h).held = h
BY DEF Objs, SameMail, BlocksOf

(* Steps that leave the object and the counts alone.                        *)
LEMMA QuietKeeps ==
    ASSUME IpcInv, ThreadInv(k', ctx', isr', loop', kind'), Equal(k, ctx, k', ctx'),
           k'.list["wait"] # <<>> => k.list["wait"] # <<>>, k'.list["send"] # <<>> => k.list["send"] # <<>>,
           UNCHANGED <<kind, obj, owed, mail>>
    PROVE IpcInv'
<1>1. /\ kind \in Objects /\ kind \in Kinds /\ obj \in Objs /\ owed \in Int /\ MailSound(obj, mail)
      /\ NoLoss(k, ctx, kind, obj, owed)
  BY InvParts
<1>2. NoLoss(k', ctx', kind, obj, owed) BY <1>1, NoLossStays
<1>. QED BY <1>1, <1>2, InvFrom

(* No thread that counts is the one that left.                              *)
LEMMA FewerEqual ==
    ASSUME NEW j, NEW c, NEW n, NEW d, NEW t, Fewer(j, c, n, d, t),
           \A op : op # "none" => t \notin WokenOf(j, c, op)
    PROVE \A op : op # "none" => Count(n, d, op) = Count(j, c, op)
BY DEF Fewer

----------------------------------------------------------------------------
(* Semaphore.                                                               *)
LEMMA SemInv ==
    ASSUME kind' \in Objects, kind' = "sem", ThreadInv(k', ctx', isr', loop', kind'), obj' \in Objs, owed' \in Int,
           MailSound(obj', mail'), SemSound(k', ctx', obj', owed')
    PROVE IpcInv'
<1>1. NoLoss(k', ctx', kind', obj', owed') BY DEF NoLoss
<1>2. kind' \in Kinds BY DEF Kinds
<1>. QED BY <1>1, <1>2, InvFrom
LEMMA SemParts ==
    ASSUME IpcInv, kind = "sem"
    PROVE /\ kind \in Objects /\ obj \in Objs /\ obj.value \in Nat /\ owed \in Int /\ MailSound(obj, mail)
          /\ owed = obj.value + Count(k, ctx, "take") /\ (obj.value > 0 => k.list["wait"] = <<>>)
          /\ Count(k, ctx, "take") \in Nat
<1>1. SemSound(k, ctx, obj, owed) BY InvParts DEF NoLoss
<1>. QED BY <1>1, InvParts, ObjsOf, WokenIs DEF SemSound

LEMMA SemTakeKeeps ==
    ASSUME IpcInv, NEW t, NEW n \in Timeouts[kind], SemTake(t, n)
    PROVE IpcInv'
<1>1. kind = "sem" /\ User(t) /\ UNCHANGED <<kind, isr, loop, mail>> BY DEF SemTake
<1>2. /\ kind \in Objects /\ obj \in Objs /\ obj.value \in Nat /\ owed \in Int /\ MailSound(obj, mail)
      /\ owed = obj.value + Count(k, ctx, "take") /\ (obj.value > 0 => k.list["wait"] = <<>>)
      /\ Count(k, ctx, "take") \in Nat
  BY <1>1, SemParts
<1>3. CASE obj.value > 0 /\ obj' = [obj EXCEPT !.value = @ - 1] /\ owed' = owed - 1 /\ UNCHANGED <<k, ctx>>
  <2>1. PICK v \in Nat : v = obj.value - 1 BY <1>2, <1>3
  <2>2. obj' = [obj EXCEPT !.value = v] BY <1>3, <2>1
  <2>3. obj' \in Objs /\ SameMail(obj, obj') /\ obj'.value = v BY <1>2, <2>2, ValueSet
  <2>4. MailSound(obj', mail') BY <1>1, <1>2, <2>3, MailKept
  <2>5. SemSound(k', ctx', obj', owed') BY <1>2, <1>3, <2>1, <2>3 DEF SemSound
  <2>6. ThreadInv(k', ctx', isr', loop', kind') BY <1>1, <1>3, InvParts
  <2>7. owed' \in Int BY <1>2, <1>3
  <2>. QED BY <1>1, <1>2, <2>3, <2>4, <2>5, <2>6, <2>7, SemInv
<1>4. CASE obj.value = 0 /\ Waits(t, "take", n, 0, BlockAtEnd(k, t, "wait", n, "intr")) /\ UNCHANGED <<obj, owed>>
  <2>1. Stand(t) /\ \A op : op # "none" => t \notin WokenOf(k, ctx, op) BY <1>1, UserStands
  <2>2. "take" = ListOp("wait", kind) BY <1>1 DEF ListOp, WaitOp
  <2>3. 0 \in MailValues /\ "intr" \in Errors BY DEF MailValues, Errors
  <2>4. n \in -1..Half - 1 BY TimeoutIs
  <2>5. ThreadInv(k', ctx', isr', loop', kind') /\ Fewer(k, ctx, k', ctx', t)
    BY <1>1, <1>4, <2>1, <2>2, <2>3, <2>4, WaitDoes
  <2>6. Count(k', ctx', "take") = Count(k, ctx, "take") BY <2>1, <2>5, FewerEqual
  <2>7. SemSound(k', ctx', obj', owed') BY <1>2, <1>4, <2>6 DEF SemSound
  <2>. QED BY <1>1, <1>2, <1>4, <2>5, <2>7, SemInv
<1>. QED BY <1>3, <1>4 DEF SemTake

LEMMA SemTakenKeeps ==
    ASSUME IpcInv, NEW t, SemTaken(t)
    PROVE IpcInv'
<1>1. /\ At(t, "woken") /\ ctx[t].op = "take" /\ k.error[t] = "ok" /\ owed' = owed - 1
      /\ Return(t) /\ UNCHANGED <<kind, obj, isr, loop, mail>>
  BY DEF SemTaken
<1>2. Stand(t) /\ \A op : t \in WokenOf(k, ctx, op) <=> op = ctx[t].op BY <1>1, WokenStands
<1>3. ThreadInv(k', ctx', isr', loop', kind') /\ Fewer(k, ctx, k', ctx', t) /\ k'.list = k.list
  BY <1>1, <1>2, ReturnDoes
<1>4. kind = "sem"
  <2>1. t \in Threads BY <1>1 DEF At
  <2>2. WaitersSound(k, ctx, kind) /\ kind \in Kinds BY InvParts DEF CoreInv
  <2>3. "take" \in {"none", "sleep", WaitOp(kind)} BY <1>1, <2>1, <2>2 DEF WaitersSound
  <2>. QED BY <2>2, <2>3 DEF WaitOp, Kinds
<1>5. /\ kind \in Objects /\ obj \in Objs /\ obj.value \in Nat /\ owed \in Int /\ MailSound(obj, mail)
      /\ owed = obj.value + Count(k, ctx, "take") /\ (obj.value > 0 => k.list["wait"] = <<>>)
      /\ Count(k, ctx, "take") \in Nat
  BY <1>4, SemParts
<1>6. Count(k', ctx', "take") = Count(k, ctx, "take") - 1 BY <1>1, <1>2, <1>3 DEF Fewer
<1>7. SemSound(k', ctx', obj', owed') BY <1>1, <1>3, <1>5, <1>6 DEF SemSound
<1>8. owed' \in Int BY <1>1, <1>5
<1>. QED BY <1>1, <1>3, <1>4, <1>5, <1>7, <1>8, SemInv

(* A release, from a thread or from an interrupt: the value grows if nobody *)
(* waits, and a thread joins those that were woken otherwise.               *)
LEMMA ReleaseKeeps ==
    ASSUME IpcInv, kind = "sem", owed' = owed + 1, UNCHANGED <<kind, mail>>,
           obj' = [obj EXCEPT !.value = IF k.list["wait"] = <<>> THEN @ + 1 ELSE @],
           ThreadInv(k', ctx', isr', loop', kind'), k'.list["wait"] # <<>> => k.list["wait"] # <<>>,
           k.list["wait"] # <<>> => Count(k', ctx', "take") = Count(k, ctx, "take") + 1,
           k.list["wait"] = <<>> => Count(k', ctx', "take") = Count(k, ctx, "take")
    PROVE IpcInv'
<1>1. /\ kind \in Objects /\ obj \in Objs /\ obj.value \in Nat /\ owed \in Int /\ MailSound(obj, mail)
      /\ owed = obj.value + Count(k, ctx, "take") /\ (obj.value > 0 => k.list["wait"] = <<>>)
      /\ Count(k, ctx, "take") \in Nat
  BY SemParts
<1>2. PICK v : v = IF k.list["wait"] = <<>> THEN obj.value + 1 ELSE obj.value OBVIOUS
<1>3. obj' = [obj EXCEPT !.value = v] BY <1>2
<1>4. v \in Nat BY <1>1, <1>2
<1>5. obj' \in Objs /\ SameMail(obj, obj') /\ obj'.value = v BY <1>1, <1>3, <1>4, ValueSet
<1>6. MailSound(obj', mail') BY <1>1, <1>5, MailKept
<1>7. SemSound(k', ctx', obj', owed')
  <2>1. PICK x, y : x = Count(k, ctx, "take") /\ y = Count(k', ctx', "take") OBVIOUS
  <2>2. CASE k.list["wait"] = <<>>
    <3>1. v = obj.value + 1 /\ y = x BY <1>2, <2>1, <2>2
    <3>2. owed' = v + y BY <1>1, <2>1, <3>1
    <3>. QED BY <1>5, <2>1, <2>2, <3>2 DEF SemSound
  <2>3. CASE k.list["wait"] # <<>>
    <3>1. v = obj.value /\ y = x + 1 BY <1>2, <2>1, <2>3
    <3>2. owed' = v + y BY <1>1, <2>1, <3>1
    <3>3. ~(v > 0) BY <1>1, <2>3, <3>1
    <3>. QED BY <1>5, <2>1, <3>2, <3>3 DEF SemSound
  <2>. QED BY <2>2, <2>3
<1>8. owed' \in Int BY <1>1
<1>. QED BY <1>1, <1>5, <1>6, <1>7, <1>8, SemInv

LEMMA SemReleaseKeeps ==
    ASSUME IpcInv, NEW t, SemRelease(t)
    PROVE IpcInv'
<1>1. /\ User(t) /\ kind = "sem" /\ owed' = owed + 1 /\ UNCHANGED <<kind, isr, loop, mail>>
      /\ obj' = [obj EXCEPT !.value = IF k.list["wait"] = <<>> THEN @ + 1 ELSE @]
  BY DEF SemRelease, Release
<1>2. Stand(t) /\ \A op : op # "none" => t \notin WokenOf(k, ctx, op) BY <1>1, UserStands
<1>3. "wait" \in {"wait", "send"} /\ "wait" \in WaitLists BY DEF WaitLists
<1>4. CASE k.list["wait"] # <<>>
  <2>1. ReturnAfterSchedule(t, ListResume(k, "wait")) BY <1>4 DEF SemRelease
  <2>2. /\ ThreadInv(k', ctx', isr', loop', kind') /\ Swaps(k, ctx, k', ctx', t, ListOp("wait", kind))
        /\ Shorter(k, k')
    BY <1>1, <1>2, <1>3, <1>4, <2>1, WakeDoes
  <2>3. ListOp("wait", kind) = "take" BY <1>1 DEF ListOp, WaitOp
  <2>4. Count(k', ctx', "take") = Count(k, ctx, "take") + 1 BY <1>2, <2>2, <2>3 DEF Swaps
  <2>. QED BY <1>1, <1>4, <2>2, <2>4, ReleaseKeeps
<1>5. CASE k.list["wait"] = <<>>
  <2>1. Return(t) BY <1>5 DEF SemRelease
  <2>2. ThreadInv(k', ctx', isr', loop', kind') /\ Fewer(k, ctx, k', ctx', t) /\ k'.list = k.list
    BY <1>1, <1>2, <2>1, ReturnDoes
  <2>3. Count(k', ctx', "take") = Count(k, ctx, "take") BY <1>2, <2>2, FewerEqual
  <2>. QED BY <1>1, <1>5, <2>2, <2>3, ReleaseKeeps
<1>. QED BY <1>4, <1>5

LEMMA IsrReleaseKeeps ==
    ASSUME IpcInv, loop = "none", IsrRelease
    PROVE IpcInv'
<1>1. /\ kind = "sem" /\ owed' = owed + 1 /\ UNCHANGED <<kind, ctx, isr, loop, mail>>
      /\ obj' = [obj EXCEPT !.value = IF k.list["wait"] = <<>> THEN @ + 1 ELSE @]
      /\ k' = IF k.list["wait"] # <<>> THEN Schedule(ListResume(k, "wait")) ELSE k
  BY DEF IsrRelease, Release
<1>3. "wait" \in {"wait", "send"} /\ "wait" \in WaitLists BY DEF WaitLists
<1>4. CASE k.list["wait"] # <<>>
  <2>1. k' = Schedule(ListResume(k, "wait")) BY <1>1, <1>4
  <2>2. /\ ThreadInv(k', ctx', isr', loop', kind') /\ More(k, ctx, k', ctx', ListOp("wait", kind)) /\ Shorter(k, k')
    BY <1>1, <1>3, <1>4, <2>1, WakeOutDoes
  <2>3. ListOp("wait", kind) = "take" BY <1>1 DEF ListOp, WaitOp
  <2>4. Count(k', ctx', "take") = Count(k, ctx, "take") + 1 BY <2>2, <2>3 DEF More
  <2>. QED BY <1>1, <1>4, <2>2, <2>4, ReleaseKeeps
<1>5. CASE k.list["wait"] = <<>>
  <2>1. k' = k BY <1>1, <1>5
  <2>2. ThreadInv(k', ctx', isr', loop', kind') BY <1>1, <2>1, InvParts
  <2>3. Count(k', ctx', "take") = Count(k, ctx, "take") BY <1>1, <2>1
  <2>. QED BY <1>1, <1>5, <2>2, <2>3, ReleaseKeeps
<1>. QED BY <1>4, <1>5

----------------------------------------------------------------------------
(* A reset.                                                                 *)
LEMMA IsrResetKeeps ==
    ASSUME IpcInv, loop = "none", IsrReset
    PROVE IpcInv'
<1>1. kind = "sem" /\ loop' = "reset" /\ UNCHANGED <<k, kind, obj, ctx, isr, owed, mail>> BY DEF IsrReset
<1>2. CoreInv(k, ctx, isr, "none", kind) BY InvParts
<1>3. ThreadInv(k, ctx, isr, "reset", kind) BY <1>1, <1>2, ResetStarts
<1>4. ThreadInv(k', ctx', isr', loop', kind') BY <1>1, <1>3
<1>5. Equal(k, ctx, k', ctx') BY <1>1 DEF Equal
<1>. QED BY <1>1, <1>4, <1>5, QuietKeeps
LEMMA MbResetKeeps ==
    ASSUME IpcInv, NEW t, MbReset(t)
    PROVE IpcInv'
<1>1. kind = "mailbox" /\ User(t) /\ loop' = "reset" /\ UNCHANGED <<k, kind, obj, ctx, isr, owed, mail>>
  BY DEF MbReset
<1>2. t \in Threads /\ k.current = t /\ ctx[t].pc = "user" /\ isr = "none" /\ loop = "none" BY <1>1 DEF User, At, Runs
<1>3. CoreInv(k, ctx, isr, "none", kind) BY <1>2, InvParts
<1>4. ThreadInv(k, ctx, isr, "reset", kind) BY <1>1, <1>2, <1>3, ResetStarts
<1>5. ThreadInv(k', ctx', isr', loop', kind') BY <1>1, <1>4
<1>6. Equal(k, ctx, k', ctx') BY <1>1 DEF Equal
<1>. QED BY <1>1, <1>5, <1>6, QuietKeeps

LEMMA ResumeOneKeeps ==
    ASSUME IpcInv, ResumeOne
    PROVE IpcInv'
<1>1. /\ loop = "reset" /\ Waited # {} /\ UNCHANGED <<kind, obj, ctx, isr, loop, owed, mail>>
      /\ k' = ListResumeError(k, IF "wait" \in Waited THEN "wait" ELSE "send")
  BY DEF ResumeOne
<1>2. PICK l \in {"wait", "send"} : k.list[l] # <<>> /\ k' = ListResumeError(k, l)
  <2>1. CASE "wait" \in Waited BY <1>1, <2>1 DEF Waited
  <2>2. CASE "wait" \notin Waited BY <1>1, <2>2 DEF Waited
  <2>. QED BY <2>1, <2>2
<1>3. Sound(k) /\ CoreInv(k, ctx, isr, "reset", kind) BY <1>1, InvParts
<1>4. Resumed(k, k', l, "error") BY <1>2, <1>3, ResumedIs
<1>5. PICK u \in Threads : /\ u \in Everyone /\ Woke(k, k', u) /\ k'.current = k.current /\ k.stat[u] = "suspend"
                           /\ k'.error = [k.error EXCEPT ![u] = "error"] /\ u \in ToSet(k.list[l])
  BY <1>4 DEF Resumed
<1>6. ThreadInv(k', ctx, isr, "reset", kind) BY <1>3, <1>5, ResetResumes
<1>7. ThreadInv(k', ctx', isr', loop', kind') BY <1>1, <1>6
<1>8. k.error \in [Everyone -> Errors] BY <1>3, FieldsOf DEF Sound
<1>9. k'.error[u] = "error" /\ \A v \in Everyone : v # u => k'.error[v] = k.error[v] BY <1>5, <1>8
<1>10. /\ \A v \in Everyone : v # u => (Answered(k', v) <=> Answered(k, v))
       /\ Answered(k', u) <=> k'.error[u] = "ok"
  BY <1>5, <1>9, AnsweredWoke
<1>11. ~Answered(k, u) /\ ~Answered(k', u) BY <1>5, <1>9, <1>10 DEF Answered
<1>12. \A v \in Threads : Answered(k', v) <=> Answered(k, v) BY <1>10, <1>11 DEF Everyone
<1>13. Stays(k, ctx, k', ctx') BY <1>1, <1>12, StaysIs
<1>14. Equal(k, ctx, k', ctx') BY <1>13, StaysCount
<1>15. Shorter(k, k') BY <1>3, <1>5, WokeShorter
<1>16. "wait" \in WaitLists /\ "send" \in WaitLists BY DEF WaitLists
<1>. QED BY <1>1, <1>7, <1>14, <1>15, <1>16, QuietKeeps DEF Shorter

LEMMA RescheduleCounts ==
    ASSUME NEW j, Sound(j), NEW c, NEW n, n = Schedule(j)
    PROVE Equal(j, c, n, c) /\ n.list = j.list
<1>1. Sound(n) /\ SameStatus(j, n) /\ n.error = j.error /\ n.list = j.list BY ScheduleIs
<1>2. OpsAlike(c, c) BY DEF OpsAlike
<1>. QED BY <1>1, <1>2, StandCounts

LEMMA SemResetEndsKeeps ==
    ASSUME IpcInv, SemResetEnds
    PROVE IpcInv'
<1>1. /\ kind = "sem" /\ loop = "reset" /\ Waited = {} /\ loop' = "none" /\ k' = Schedule(k)
      /\ obj' = [obj EXCEPT !.value = 0] /\ owed' = owed - obj.value /\ UNCHANGED <<kind, ctx, isr, mail>>
  BY DEF SemResetEnds
<1>2. Sound(k) /\ CoreInv(k, ctx, isr, loop, kind) BY InvParts
<1>3. ThreadInv(k', ctx, isr, "none", kind) BY <1>1, <1>2, RescheduleStep
<1>4. ThreadInv(k', ctx', isr', loop', kind') BY <1>1, <1>3
<1>5. Equal(k, ctx, k', ctx) BY <1>1, <1>2, RescheduleCounts
<1>6. Count(k', ctx', "take") = Count(k, ctx, "take") BY <1>1, <1>5 DEF Equal
<1>7. /\ kind \in Objects /\ obj \in Objs /\ obj.value \in Nat /\ owed \in Int /\ MailSound(obj, mail)
      /\ owed = obj.value + Count(k, ctx, "take") /\ (obj.value > 0 => k.list["wait"] = <<>>)
      /\ Count(k, ctx, "take") \in Nat
  BY <1>1, SemParts
<1>8. 0 \in Nat OBVIOUS
<1>9. obj' \in Objs /\ SameMail(obj, obj') /\ obj'.value = 0 BY <1>1, <1>7, <1>8, ValueSet
<1>10. MailSound(obj', mail') BY <1>1, <1>7, <1>9, MailKept
<1>11. owed' \in Int /\ owed' = 0 + Count(k, ctx, "take") BY <1>1, <1>7
<1>12. SemSound(k', ctx', obj', owed') BY <1>6, <1>9, <1>11 DEF SemSound
<1>. QED BY <1>1, <1>4, <1>7, <1>9, <1>10, <1>11, <1>12, SemInv

LEMMA Emptied ==
    ASSUME NEW o \in Objs, NEW p, p = [o EXCEPT !.entry = 0, !.in = 0, !.out = 0]
    PROVE p \in Objs /\ MailSound(p, <<>>)
<1>1. 0 \in Cells /\ 0 \in 0..Slots BY SlotsAre
<1>2. p \in Objs /\ p.entry = 0 /\ p.in = 0 /\ p.out = 0 BY <1>1 DEF Objs
<1>3. (0 + 0) % Slots = 0
  <2>1. (0 + 0) % Slots = IF 0 + 0 < Slots THEN 0 + 0 ELSE 0 + 0 - Slots BY <1>1, CellIs
  <2>. QED BY <2>1, SlotsAre
<1>4. <<>> \in Seq(MailValues) /\ Len(<<>>) = 0 OBVIOUS
<1>5. \A i \in 1..0 : <<>>[i] = MailAt(p, i) OBVIOUS
<1>6. PICK m : m = <<>> OBVIOUS
<1>7. m \in Seq(MailValues) /\ Len(m) = p.entry /\ \A i \in 1..p.entry : m[i] = MailAt(p, i)
  BY <1>2, <1>4, <1>5, <1>6
<1>8. p.in = (p.out + p.entry) % Slots BY <1>2, <1>3
<1>9. MailSound(p, m) BY <1>2, <1>7, <1>8, MailIs
<1>. QED BY <1>2, <1>6, <1>9

LEMMA MbResetEndsKeeps ==
    ASSUME IpcInv, NEW t, MbResetEnds(t)
    PROVE IpcInv'
<1>1. /\ kind = "mailbox" /\ loop = "reset" /\ Waited = {} /\ loop' = "none" /\ k.current = t
      /\ obj' = [obj EXCEPT !.entry = 0, !.in = 0, !.out = 0] /\ mail' = <<>>
      /\ ReturnAfterSchedule(t, k) /\ UNCHANGED <<kind, isr, owed>>
  BY DEF MbResetEnds
<1>2. Sound(k) /\ CoreInv(k, ctx, isr, loop, kind) /\ obj \in Objs /\ owed \in Int /\ kind \in Objects BY InvParts
<1>3. isr = "none" BY <1>1, <1>2 DEF CoreInv, LoopSound
<1>4. CoreInv(k, ctx, "none", "reset", kind) BY <1>1, <1>2, <1>3
<1>5. Calls(ctx, ctx', t, SchedCall) BY <1>1 DEF ReturnAfterSchedule, Calls, SchedCall
<1>6. k' = Marked(k, t, "ok") BY <1>1 DEF ReturnAfterSchedule, Marked
<1>7. ThreadInv(k', ctx', "none", "none", kind) /\ Running(k, ctx, t) BY <1>1, <1>4, <1>5, <1>6, MailResetEnds
<1>8. ThreadInv(k', ctx', isr', loop', kind') BY <1>1, <1>3, <1>7
<1>9. t \in Everyone /\ "ok" \in Errors BY <1>1, <1>2, FieldsOf DEF Sound, Errors
<1>10. k'.list = k.list
  <2>1. k \in Kernels BY <1>2 DEF Sound
  <2>. QED BY <1>6, <2>1 DEF Marked, Kernels
<1>11. k.list["wait"] = <<>> /\ k.list["send"] = <<>> BY <1>1 DEF Waited
<1>12. MailFlows(k', ctx', obj') BY <1>10, <1>11 DEF MailFlows
<1>13. NoLoss(k', ctx', kind', obj', owed') BY <1>1, <1>12 DEF NoLoss
<1>14. obj' \in Objs /\ MailSound(obj', mail') BY <1>1, <1>2, Emptied
<1>15. kind \in Kinds BY InvParts
<1>. QED BY <1>1, <1>2, <1>8, <1>13, <1>14, <1>15, InvFrom

----------------------------------------------------------------------------
(* Calls of rt_schedule, waits that fail, sleep, and the lock.              *)
LEMMA OpsOf ==
    ASSUME NEW c, NEW d, Alike(c, d)
    PROVE OpsAlike(c, d)
BY DEF Alike, OpsAlike

LEMMA CallScheduleKeeps ==
    ASSUME IpcInv, NEW t, CallSchedule(t)
    PROVE IpcInv'
<1>1. /\ t \in Threads /\ k.current = t /\ isr = "none" /\ loop = "none" /\ ctx[t].pc = "sched"
      /\ k' = Schedule(k) /\ UNCHANGED <<kind, obj, isr, loop, owed, mail>>
  BY DEF CallSchedule, At, Runs
<1>2. Sound(k) /\ CallsSound(ctx) /\ CoreInv(k, ctx, "none", "none", kind) BY <1>1, InvParts
<1>3. PICK r, p : r = ctx[t] /\ p = IF r.pc = "sched" /\ r.op = "none" THEN "user" ELSE "woken" OBVIOUS
<1>4. ctx' = [ctx EXCEPT ![t] = [r EXCEPT !.pc = p]]
  <2>1. ctx' = [ctx EXCEPT ![t].pc = p] BY <1>3 DEF CallSchedule
  <2>2. ctx \in [Threads -> CallsOf] BY <1>2 DEF CallsSound
  <2>. QED BY <1>1, <1>3, <2>1, <2>2
<1>5. Calls(ctx, ctx', t, Scheduled(ctx[t])) BY <1>3, <1>4 DEF Calls, Scheduled
<1>6. ThreadInv(k', ctx', "none", "none", kind) /\ Alike(ctx, ctx') BY <1>1, <1>2, <1>5, ScheduleStep
<1>7. ThreadInv(k', ctx', isr', loop', kind') BY <1>1, <1>6
<1>8. Sound(k') /\ SameStatus(k, k') /\ k'.error = k.error /\ k'.list = k.list BY <1>1, <1>2, ScheduleIs
<1>9. OpsAlike(ctx, ctx') BY <1>6, OpsOf
<1>10. Equal(k, ctx, k', ctx') BY <1>2, <1>8, <1>9, StandCounts
<1>. QED BY <1>1, <1>7, <1>8, <1>10, QuietKeeps

(* A call returns and was not counted.                                      *)
LEMMA ReturnQuiet ==
    ASSUME IpcInv, NEW t, Stand(t), Return(t), UNCHANGED <<kind, isr, loop>>,
           \A op : op # "none" => t \notin WokenOf(k, ctx, op)
    PROVE /\ ThreadInv(k', ctx', isr', loop', kind') /\ k'.list = k.list
          /\ \A op : op # "none" => Count(k', ctx', op) = Count(k, ctx, op)
<1>1. ThreadInv(k', ctx', isr', loop', kind') /\ Fewer(k, ctx, k', ctx', t) /\ k'.list = k.list BY ReturnDoes
<1>. QED BY <1>1, FewerEqual

LEMMA NoLossCounts ==
    ASSUME NEW j, NEW c, NEW kd, NEW o, NEW ow, NoLoss(j, c, kd, o, ow), NEW n, NEW d,
           \A op : op # "none" => Count(n, d, op) = Count(j, c, op), n.list = j.list
    PROVE NoLoss(n, d, kd, o, ow)
<1>1. /\ Count(n, d, "take") = Count(j, c, "take") /\ Count(n, d, "recv") = Count(j, c, "recv")
      /\ Count(n, d, "send") = Count(j, c, "send") /\ Count(n, d, "alloc") = Count(j, c, "alloc")
  OBVIOUS
<1>. QED BY <1>1 DEF NoLoss, SemSound, MailFlows, PoolFlows, DoneSound

LEMMA WaitFailsKeeps ==
    ASSUME IpcInv, NEW t, WaitFails(t)
    PROVE IpcInv'
<1>1. /\ At(t, "woken") /\ k.error[t] # "ok" /\ Return(t) /\ UNCHANGED <<kind, isr, loop, owed, mail>>
      /\ obj' = IF ctx[t].op = "done" THEN [obj EXCEPT !.flag = FALSE] ELSE obj
  BY DEF WaitFails
<1>2. Stand(t) BY <1>1 DEF Stand, At
<1>3. \A op : op # "none" => t \notin WokenOf(k, ctx, op) BY <1>1, Fails
<1>4. /\ ThreadInv(k', ctx', isr', loop', kind') /\ k'.list = k.list
      /\ \A op : op # "none" => Count(k', ctx', op) = Count(k, ctx, op)
  BY <1>1, <1>2, <1>3, ReturnQuiet
<1>5. /\ kind \in Objects /\ kind \in Kinds /\ obj \in Objs /\ owed \in Int /\ MailSound(obj, mail)
      /\ NoLoss(k, ctx, kind, obj, owed)
  BY InvParts
<1>6. NoLoss(k', ctx', kind, obj, owed) BY <1>4, <1>5, NoLossCounts
<1>7. CASE ctx[t].op # "done"
  <2>1. obj' = obj BY <1>1, <1>7
  <2>. QED BY <1>1, <1>4, <1>5, <1>6, <2>1, InvFrom
<1>8. CASE ctx[t].op = "done"
  <2>1. obj' = [obj EXCEPT !.flag = FALSE] BY <1>1, <1>8
  <2>2. FALSE \in BOOLEAN OBVIOUS
  <2>3. obj' \in Objs /\ SameMail(obj, obj') /\ obj'.flag = FALSE BY <1>5, <2>1, <2>2, FlagSet
  <2>4. MailSound(obj', mail') BY <1>1, <1>5, <2>3, MailKept
  <2>5. kind = "completion"
    <3>1. t \in Threads BY <1>1 DEF At
    <3>2. WaitersSound(k, ctx, kind) BY InvParts DEF CoreInv
    <3>3. "done" \in {"none", "sleep", WaitOp(kind)} BY <1>8, <3>1, <3>2 DEF WaitersSound
    <3>. QED BY <1>5, <3>3 DEF WaitOp, Kinds
  <2>6. NoLoss(k', ctx', kind', obj', owed') BY <1>1, <2>3, <2>5 DEF NoLoss, DoneSound
  <2>. QED BY <1>1, <1>4, <1>5, <2>3, <2>4, <2>6, InvFrom
<1>. QED BY <1>7, <1>8

LEMMA QuietReturnKeeps ==
    ASSUME IpcInv, NEW t, Stand(t), Return(t), UNCHANGED <<kind, obj, isr, loop, owed, mail>>,
           \A op : op # "none" => t \notin WokenOf(k, ctx, op)
    PROVE IpcInv'
<1>1. /\ ThreadInv(k', ctx', isr', loop', kind') /\ k'.list = k.list
      /\ \A op : op # "none" => Count(k', ctx', op) = Count(k, ctx, op)
  BY ReturnQuiet
<1>2. /\ kind \in Objects /\ kind \in Kinds /\ obj \in Objs /\ owed \in Int /\ MailSound(obj, mail)
      /\ NoLoss(k, ctx, kind, obj, owed)
  BY InvParts
<1>3. NoLoss(k', ctx', kind, obj, owed) BY <1>1, <1>2, NoLossCounts
<1>. QED BY <1>1, <1>2, <1>3, InvFrom

(* What waits for the object has another name than sleeping.                *)
LEMMA SleepEqual ==
    ASSUME NEW j, NEW c, NEW kd, NEW o, NEW ow, NoLoss(j, c, kd, o, ow), NEW n, NEW d, NEW t, c[t].op = "sleep",
           Fewer(j, c, n, d, t), n.list = j.list
    PROVE NoLoss(n, d, kd, o, ow)
<1>1. t \notin WokenOf(j, c, "take") /\ t \notin WokenOf(j, c, "recv") /\ t \notin WokenOf(j, c, "send")
      /\ t \notin WokenOf(j, c, "alloc")
  BY WokenIs
<1>2. /\ Count(n, d, "take") = Count(j, c, "take") /\ Count(n, d, "recv") = Count(j, c, "recv")
      /\ Count(n, d, "send") = Count(j, c, "send") /\ Count(n, d, "alloc") = Count(j, c, "alloc")
  BY <1>1 DEF Fewer
<1>. QED BY <1>2 DEF NoLoss, SemSound, MailFlows, PoolFlows, DoneSound
LEMMA SleepEndsKeeps ==
    ASSUME IpcInv, NEW t, SleepEnds(t)
    PROVE IpcInv'
<1>1. At(t, "woken") /\ ctx[t].op = "sleep" /\ Return(t) /\ UNCHANGED <<kind, obj, isr, loop, owed, mail>>
  BY DEF SleepEnds
<1>2. Stand(t) BY <1>1 DEF Stand, At
<1>3. ThreadInv(k', ctx', isr', loop', kind') /\ Fewer(k, ctx, k', ctx', t) /\ k'.list = k.list
  BY <1>1, <1>2, ReturnDoes
<1>4. /\ kind \in Objects /\ kind \in Kinds /\ obj \in Objs /\ owed \in Int /\ MailSound(obj, mail)
      /\ NoLoss(k, ctx, kind, obj, owed)
  BY InvParts
<1>5. NoLoss(k', ctx', kind, obj, owed) BY <1>1, <1>3, <1>4, SleepEqual
<1>. QED BY <1>1, <1>3, <1>4, <1>5, InvFrom

SleepCall == [AtUser EXCEPT !.pc = "mark", !.op = "sleep"]
LEMMA SleepKeeps ==
    ASSUME IpcInv, NEW t, NEW n \in Timeouts[kind], Sleep(t, n)
    PROVE IpcInv'
<1>1. /\ User(t) /\ n > 0 /\ UNCHANGED <<kind, obj, isr, loop, owed, mail>> BY DEF Sleep
<1>2. Stand(t) /\ \A op : op # "none" => t \notin WokenOf(k, ctx, op) BY <1>1, UserStands
<1>3. /\ isr = "none" /\ loop = "none" /\ CoreInv(k, ctx, "none", "none", kind) /\ Running(k, ctx, t)
      /\ t \in Threads /\ k.stat[t] = "running"
  BY <1>2, Stands
<1>4. n \in -1..Half - 1 BY TimeoutIs
<1>5. n \in 1..Half - 1 /\ n >= 1 BY <1>1, <1>4, Halves
<1>6. Sound(k) BY InvParts
<1>7. k' = Slept(k, t, n) BY DEF Sleep, Slept
<1>8. PICK S : S = {} OBVIOUS
<1>9. Blocked(k, k', t, S, n) /\ k'.error = [k.error EXCEPT ![t] = "ok"] BY <1>3, <1>5, <1>6, <1>7, <1>8, SleepIs
<1>10. PICK r : r = SleepCall OBVIOUS
<1>11. r \in CallsOf /\ r.op = "sleep" /\ r.pc = "mark" /\ r.spent = 0
  <2>1. 0 \in -1..Half - 1 /\ 0 \in 0..Half - 1 /\ 0 \in MailValues BY Halves DEF MailValues
  <2>. QED BY <1>10, <2>1 DEF SleepCall, AtUser, CallsOf
<1>12. Calls(ctx, ctx', t, r) BY <1>10 DEF Calls, SleepCall, Sleep
<1>13. WaitStarts(r, S, n, kind) BY <1>5, <1>8, <1>11 DEF WaitStarts
<1>14. kind = "completion" => r.op # "done" \/ \A u \in Threads : ctx[u].op # "done" BY <1>11
<1>15. ThreadInv(k', ctx', "none", "none", kind) BY <1>3, <1>4, <1>9, <1>11, <1>12, <1>13, <1>14, WaitStep
<1>16. ThreadInv(k', ctx', isr', loop', kind') BY <1>1, <1>3, <1>15
<1>17. Fewer(k, ctx, k', ctx', t) /\ ShorterBut(k, k', S) BY <1>3, <1>9, <1>11, <1>12, WaitCounts
<1>18. \A op : op # "none" => Count(k', ctx', op) = Count(k, ctx, op) BY <1>2, <1>17, FewerEqual
<1>19. k'.list["wait"] # <<>> => k.list["wait"] # <<>> BY <1>8, <1>17 DEF ShorterBut, WaitLists
<1>20. k'.list["send"] # <<>> => k.list["send"] # <<>> BY <1>8, <1>17 DEF ShorterBut, WaitLists
<1>21. /\ Count(k', ctx', "take") = Count(k, ctx, "take") /\ Count(k', ctx', "recv") = Count(k, ctx, "recv")
       /\ Count(k', ctx', "send") = Count(k, ctx, "send") /\ Count(k', ctx', "alloc") = Count(k, ctx, "alloc")
  BY <1>18
<1>22. /\ kind \in Objects /\ kind \in Kinds /\ obj \in Objs /\ owed \in Int /\ MailSound(obj, mail)
       /\ NoLoss(k, ctx, kind, obj, owed)
  BY InvParts
<1>23. NoLoss(k', ctx', kind, obj, owed)
  BY <1>19, <1>20, <1>21, <1>22 DEF NoLoss, SemSound, MailFlows, PoolFlows, DoneSound
<1>. QED BY <1>1, <1>16, <1>22, <1>23, InvFrom

LEMMA SleepMarkKeeps ==
    ASSUME IpcInv, NEW t, SleepMark(t)
    PROVE IpcInv'
<1>1. /\ t \in Threads /\ k.current = t /\ isr = "none" /\ loop = "none" /\ ctx[t].pc = "mark"
      /\ k' = [k EXCEPT !.error[t] = "intr"] /\ ctx' = [ctx EXCEPT ![t].pc = "sched"]
      /\ UNCHANGED <<kind, obj, isr, loop, owed, mail>>
  BY DEF SleepMark, At, Runs
<1>2. Sound(k) /\ CallsSound(ctx) /\ CoreInv(k, ctx, "none", "none", kind) BY <1>1, InvParts
<1>3. ctx \in [Threads -> CallsOf] /\ ctx[t].op = "sleep" BY <1>1, <1>2 DEF CallsSound
<1>4. Calls(ctx, ctx', t, MarkedCall(ctx[t])) BY <1>1, <1>3 DEF Calls, MarkedCall
<1>5. k' = Marked(k, t, "intr") BY <1>1 DEF Marked
<1>6. ThreadInv(k', ctx', "none", "none", kind) /\ Alike(ctx, ctx') BY <1>1, <1>2, <1>4, <1>5, SleepMarkStep
<1>7. ThreadInv(k', ctx', isr', loop', kind') BY <1>1, <1>6
<1>8. t \in Everyone /\ "intr" \in Errors BY <1>1 DEF Everyone, Errors
<1>9. SameQueues(k, k') /\ k'.list = k.list /\ k'.error = [k.error EXCEPT ![t] = "intr"] BY <1>2, <1>5, <1>8, ErrorIs
<1>10. \A op : op # "sleep" => WokenOf(k', ctx', op) = WokenOf(k, ctx, op)
  <2>1. SUFFICES ASSUME NEW op, op # "sleep" PROVE WokenOf(k', ctx', op) = WokenOf(k, ctx, op) OBVIOUS
  <2>2. /\ \A u : u \in WokenOf(k, ctx, op) <=> u \in Threads /\ ctx[u].op = op /\ Answered(k, u)
        /\ \A u : u \in WokenOf(k', ctx', op) <=> u \in Threads /\ ctx'[u].op = op /\ Answered(k', u)
    BY WokenIs
  <2>3. k.error \in [Everyone -> Errors] BY <1>2, FieldsOf DEF Sound
  <2>4. \A u \in Threads : u # t => (Answered(k', u) <=> Answered(k, u))
    BY <1>9, <2>3 DEF Answered, SameQueues, Everyone
  <2>5. \A u \in Threads : ctx'[u].op = ctx[u].op BY <1>6 DEF Alike
  <2>. QED BY <1>3, <2>1, <2>2, <2>4, <2>5
<1>11. /\ Count(k', ctx', "take") = Count(k, ctx, "take") /\ Count(k', ctx', "recv") = Count(k, ctx, "recv")
       /\ Count(k', ctx', "send") = Count(k, ctx, "send") /\ Count(k', ctx', "alloc") = Count(k, ctx, "alloc")
  BY <1>10 DEF Count
<1>12. /\ kind \in Objects /\ kind \in Kinds /\ obj \in Objs /\ owed \in Int /\ MailSound(obj, mail)
       /\ NoLoss(k, ctx, kind, obj, owed)
  BY InvParts
<1>13. NoLoss(k', ctx', kind, obj, owed)
  BY <1>9, <1>11, <1>12 DEF NoLoss, SemSound, MailFlows, PoolFlows, DoneSound
<1>. QED BY <1>1, <1>7, <1>12, <1>13, InvFrom

LEMMA YieldKeeps ==
    ASSUME IpcInv, NEW t, Yield(t)
    PROVE IpcInv'
<1>1. User(t) /\ k' = ThreadYield(k, t) /\ UNCHANGED <<kind, obj, ctx, isr, loop, owed, mail>> BY DEF Yield
<1>2. Stand(t) BY <1>1, UserStands
<1>3. /\ isr = "none" /\ loop = "none" /\ CoreInv(k, ctx, "none", "none", kind) /\ Running(k, ctx, t)
      /\ t \in Everyone
  BY <1>2, Stands
<1>4. ThreadInv(k', ctx, "none", "none", kind) BY <1>1, <1>3, YieldStep
<1>5. ThreadInv(k', ctx', isr', loop', kind') BY <1>1, <1>3, <1>4
<1>6. Sound(k) BY InvParts
<1>7. k' = Schedule([k EXCEPT !.yield[t] = TRUE]) BY <1>1 DEF ThreadYield
<1>8. Sound(k') /\ SameStatus(k, k') /\ k'.error = k.error /\ k'.list = k.list BY <1>3, <1>6, <1>7, YieldIs
<1>9. OpsAlike(ctx, ctx') BY <1>1 DEF OpsAlike
<1>10. Equal(k, ctx, k', ctx') BY <1>6, <1>8, <1>9, StandCounts
<1>. QED BY <1>1, <1>5, <1>8, <1>10, QuietKeeps

LEMMA LockKeeps ==
    ASSUME IpcInv, NEW t, Lock(t)
    PROVE IpcInv'
<1>1. /\ User(t) /\ k' = EnterCritical(k) /\ ctx' = [ctx EXCEPT ![t].pc = "locked"]
      /\ UNCHANGED <<kind, obj, isr, loop, owed, mail>>
  BY DEF Lock
<1>2. Stand(t) BY <1>1, UserStands
<1>3. /\ isr = "none" /\ loop = "none" /\ CoreInv(k, ctx, "none", "none", kind) /\ Running(k, ctx, t)
      /\ t \in Everyone /\ t \in Threads
  BY <1>2, Stands
<1>4. ctx[t].pc = "user" BY <1>1 DEF User, At
<1>5. Sound(k) /\ CallsSound(ctx) BY InvParts
<1>6. ctx \in [Threads -> CallsOf] BY <1>5 DEF CallsSound
<1>7. Calls(ctx, ctx', t, LockedCall(ctx[t])) BY <1>1, <1>3, <1>6 DEF Calls, LockedCall
<1>8. ThreadInv(k', ctx', "none", "none", kind) BY <1>1, <1>3, <1>4, <1>7, LockStep
<1>9. ThreadInv(k', ctx', isr', loop', kind') BY <1>1, <1>3, <1>8
<1>10. k.lock = 0 BY <1>3, RunnerIs
<1>11. Sound(k') /\ SameQueues(k, k') /\ k'.error = k.error /\ k'.list = k.list BY <1>1, <1>5, <1>10, EnterIs
<1>12. SameStatus(k, k') BY <1>11 DEF SameStatus, SameQueues, Awake
<1>13. OpsAlike(ctx, ctx')
  <2>1. \A u \in Threads : ctx[u] \in CallsOf BY <1>6
  <2>2. \A u \in Threads : ctx'[u].op = ctx[u].op BY <1>1, <1>3, <1>6, <2>1 DEF CallsOf
  <2>. QED BY <2>2 DEF OpsAlike
<1>14. Equal(k, ctx, k', ctx') BY <1>5, <1>11, <1>12, <1>13, StandCounts
<1>. QED BY <1>1, <1>9, <1>11, <1>14, QuietKeeps

LEMMA UnlockKeeps ==
    ASSUME IpcInv, NEW t, Unlock(t)
    PROVE IpcInv'
<1>1. /\ t \in Threads /\ k.current = t /\ isr = "none" /\ loop = "none" /\ ctx[t].pc = "locked"
      /\ k' = ExitCritical(k) /\ ctx' = [ctx EXCEPT ![t] = AtUser]
      /\ UNCHANGED <<kind, obj, isr, loop, owed, mail>>
  BY DEF Unlock, At, Runs
<1>2. Sound(k) /\ CallsSound(ctx) /\ CoreInv(k, ctx, "none", "none", kind) BY <1>1, InvParts
<1>3. PICK r : r = UserCall OBVIOUS
<1>4. Calls(ctx, ctx', t, UserCall) BY <1>1 DEF Calls, UserCall
<1>5. ThreadInv(k', ctx', "none", "none", kind) BY <1>1, <1>2, <1>4, UnlockStep
<1>6. ThreadInv(k', ctx', isr', loop', kind') BY <1>1, <1>5
<1>7. Sound(k') /\ SameStatus(k, k') /\ k'.error = k.error /\ k'.list = k.list BY <1>1, <1>2, ExitCriticalIs
<1>8. OpsAlike(ctx, ctx')
  <2>1. ctx[t].op = "none" BY <1>1, <1>2 DEF CallsSound
  <2>2. Calls(ctx, ctx', t, r) /\ r \in CallsOf /\ r.op = "none" BY <1>3, <1>4, TheCalls
  <2>3. DOMAIN ctx = Threads BY <1>2 DEF CallsSound
  <2>4. ctx'[t].op = "none" /\ \A u \in Threads : u # t => ctx'[u] = ctx[u]
    BY <1>1, <2>2, <2>3 DEF Calls
  <2>. QED BY <2>1, <2>4 DEF OpsAlike
<1>9. Equal(k, ctx, k', ctx') BY <1>2, <1>7, <1>8, StandCounts
<1>. QED BY <1>1, <1>6, <1>7, <1>9, QuietKeeps

----------------------------------------------------------------------------
(* main(), the idle thread and the tick.                                    *)
LEMMA StartupKeeps ==
    ASSUME IpcInv, NEW t \in Threads, Startup(t)
    PROVE IpcInv'
<1>1. /\ isr = "none" /\ loop = "none" /\ k.stat[t] = "init" /\ k' = ThreadStartup(k, t)
      /\ UNCHANGED <<kind, obj, ctx, isr, loop, owed, mail>>
  BY DEF Startup, At, Runs
<1>2. Sound(k) /\ CoreInv(k, ctx, "none", "none", kind) BY <1>1, InvParts
<1>3. ThreadInv(k', ctx, "none", "none", kind) /\ Woke(k, k', t) BY <1>1, <1>2, StartupStep
<1>4. ThreadInv(k', ctx', isr', loop', kind') BY <1>1, <1>3
<1>5. k'.error = k.error BY <1>1, <1>2, StartupIs
<1>6. \A v \in Threads : Answered(k', v) <=> Answered(k, v) BY <1>1, <1>3, <1>5 DEF Woke, Awake, Answered, Everyone
<1>7. Stays(k, ctx, k', ctx') BY <1>1, <1>6, StaysIs
<1>8. Equal(k, ctx, k', ctx') BY <1>7, StaysCount
<1>9. Shorter(k, k') BY <1>2, <1>3, WokeShorter
<1>10. "wait" \in WaitLists /\ "send" \in WaitLists BY DEF WaitLists
<1>. QED BY <1>1, <1>4, <1>8, <1>9, <1>10, QuietKeeps DEF Shorter

LEMMA MainReturnsKeeps ==
    ASSUME IpcInv, MainReturns
    PROVE IpcInv'
<1>1. /\ Main \in Threads /\ isr = "none" /\ loop = "none" /\ k.current = Main /\ ctx[Main].pc = "user"
      /\ k' = ThreadExit(k, Main) /\ UNCHANGED <<kind, obj, ctx, isr, loop, owed, mail>>
  BY DEF MainReturns, At, Runs
<1>2. Sound(k) /\ CoreInv(k, ctx, "none", "none", kind) BY <1>1, InvParts
<1>3. PICK t : t = Main OBVIOUS
<1>4. Running(k, ctx, t) /\ ctx[t].pc = "user" BY <1>1, <1>3 DEF Running
<1>5. k' = ThreadExit(k, t) BY <1>1, <1>3
<1>6. /\ ThreadInv(k', ctx, "none", "none", kind) /\ k'.error = k.error
      /\ k'.list["wait"] = k.list["wait"] /\ k'.list["send"] = k.list["send"]
      /\ \A u \in Everyone : u # t => (Awake(k', u) <=> Awake(k, u)) /\ (~Awake(k, u) => k'.stat[u] = k.stat[u])
  BY <1>2, <1>4, <1>5, ExitStep
<1>7. ThreadInv(k', ctx', isr', loop', kind') BY <1>1, <1>6
<1>8. k.stat[t] = "running" /\ k.lock = 0 /\ t \in Threads BY <1>2, <1>4, RunnerIs
<1>9. k'.stat[t] = "close" BY <1>2, <1>5, <1>8, ExitIs
<1>10. \A v \in Threads : Answered(k', v) <=> Answered(k, v) BY <1>6, <1>8, <1>9 DEF Awake, Answered, Everyone
<1>11. Stays(k, ctx, k', ctx') BY <1>1, <1>10, StaysIs
<1>12. Equal(k, ctx, k', ctx') BY <1>11, StaysCount
<1>. QED BY <1>1, <1>6, <1>7, <1>12, QuietKeeps

LEMMA DefunctKeeps ==
    ASSUME IpcInv, DefunctExecute
    PROVE IpcInv'
<1>1. /\ isr = "none" /\ loop = "none" /\ k.list["dead"] # <<>> /\ k' = Unlink(k, Head(k.list["dead"]))
      /\ UNCHANGED <<kind, obj, ctx, isr, loop, owed, mail>>
  BY DEF DefunctExecute, Runs
<1>2. Sound(k) /\ ThreadInv(k, ctx, "none", "none", kind) BY <1>1, InvParts
<1>3. /\ ThreadInv(k', ctx, "none", "none", kind) /\ SameQueues(k, k') /\ k'.error = k.error
      /\ ToSet(k'.list["wait"]) = ToSet(k.list["wait"]) /\ ToSet(k'.list["send"]) = ToSet(k.list["send"])
  BY <1>1, <1>2, DefunctStep
<1>4. ThreadInv(k', ctx', isr', loop', kind') BY <1>1, <1>3
<1>5. Sound(k') BY <1>3 DEF ThreadInv, CoreInv
<1>6. SameStatus(k, k') BY <1>3 DEF SameStatus, SameQueues, Awake
<1>7. OpsAlike(ctx, ctx') BY <1>1 DEF OpsAlike
<1>8. Equal(k, ctx, k', ctx') /\ \A l \in {"wait", "send"} : k'.list[l] # <<>> => k.list[l] # <<>>
  BY <1>2, <1>3, <1>5, <1>6, <1>7, StandCounts
<1>. QED BY <1>1, <1>4, <1>8, QuietKeeps

LEMMA TickKeeps ==
    ASSUME IpcInv, loop = "none", Tick
    PROVE IpcInv'
<1>1. isr = "none" /\ isr' = "tick" /\ UNCHANGED <<kind, obj, loop, owed, mail>> BY DEF Tick
<1>2. PICK e \in BOOLEAN : k' = TickIncrease(k, e) BY DEF Tick
<1>3. Spend(ctx, ctx') BY DEF Tick, Spend
<1>4. Sound(k) /\ ThreadInv(k, ctx, "none", "none", kind) BY <1>1, InvParts
<1>5. /\ ThreadInv(k', ctx', "tick", "none", kind) /\ k'.error = k.error /\ k'.list = k.list /\ SameStatus(k, k')
      /\ \A t \in Threads : SpentOne(ctx[t], ctx'[t])
  BY <1>2, <1>3, <1>4, TickStep
<1>6. ThreadInv(k', ctx', isr', loop', kind') BY <1>1, <1>5
<1>7. Sound(k') BY <1>5 DEF ThreadInv, CoreInv
<1>8. OpsAlike(ctx, ctx') BY <1>5 DEF OpsAlike, SpentOne
<1>9. Equal(k, ctx, k', ctx') BY <1>4, <1>5, <1>7, <1>8, StandCounts
<1>. QED BY <1>1, <1>5, <1>6, <1>9, QuietKeeps

LEMMA CheckTimerKeeps ==
    ASSUME IpcInv, CheckTimer
    PROVE IpcInv'
<1>1. /\ isr = "tick" /\ loop # "reset" /\ IsDue(k) /\ k' = TimerExpires(k) /\ loop' = "timers"
      /\ UNCHANGED <<kind, obj, ctx, isr, owed, mail>>
  BY DEF CheckTimer
<1>2. Sound(k) /\ CoreInv(k, ctx, "tick", loop, kind) BY <1>1, InvParts
<1>3. PICK t : t = Head(k.timers).t OBVIOUS
<1>4. k.timers # <<>> BY <1>1 DEF IsDue
<1>5. /\ ThreadInv(k', ctx, "tick", "timers", kind) /\ t \in Threads /\ k.stat[t] = "suspend" /\ Woke(k, k', t)
      /\ k'.error = [k.error EXCEPT ![t] = "timeout"]
  BY <1>1, <1>2, <1>3, <1>4, ExpiresStep
<1>6. ThreadInv(k', ctx', isr', loop', kind') BY <1>1, <1>5
<1>7. k.error \in [Everyone -> Errors] /\ t \in Everyone BY <1>2, <1>5, FieldsOf DEF Sound, Everyone
<1>8. k'.error[t] = "timeout" /\ \A v \in Everyone : v # t => k'.error[v] = k.error[v] BY <1>5, <1>7
<1>9. /\ \A v \in Everyone : v # t => (Answered(k', v) <=> Answered(k, v))
      /\ Answered(k', t) <=> k'.error[t] = "ok"
  BY <1>5, <1>7, <1>8, AnsweredWoke
<1>10. ~Answered(k, t) /\ ~Answered(k', t) BY <1>5, <1>8, <1>9 DEF Answered
<1>11. \A v \in Threads : Answered(k', v) <=> Answered(k, v) BY <1>9, <1>10 DEF Everyone
<1>12. Stays(k, ctx, k', ctx') BY <1>1, <1>11, StaysIs
<1>13. Equal(k, ctx, k', ctx') BY <1>12, StaysCount
<1>14. Shorter(k, k') BY <1>2, <1>5, WokeShorter
<1>15. "wait" \in WaitLists /\ "send" \in WaitLists BY DEF WaitLists
<1>. QED BY <1>1, <1>6, <1>13, <1>14, <1>15, QuietKeeps DEF Shorter

LEMMA TimersCheckedKeeps ==
    ASSUME IpcInv, TimersChecked
    PROVE IpcInv'
<1>1. /\ isr = "tick" /\ loop # "reset" /\ ~IsDue(k) /\ isr' = "none" /\ loop' = "none"
      /\ UNCHANGED <<k, kind, obj, ctx, owed, mail>>
  BY DEF TimersChecked
<1>2. ThreadInv(k, ctx, "tick", loop, kind) BY <1>1, InvParts
<1>3. ThreadInv(k, ctx, "none", "none", kind) BY <1>1, <1>2, CheckedStep
<1>4. ThreadInv(k', ctx', isr', loop', kind') BY <1>1, <1>3
<1>5. Equal(k, ctx, k', ctx') BY <1>1 DEF Equal
<1>. QED BY <1>1, <1>4, <1>5, QuietKeeps

----------------------------------------------------------------------------
(* Mailbox.  A thread counts for at most one call.                          *)
CountsFor(j, c, t, g) == \A op : op # "none" /\ op # g => t \notin WokenOf(j, c, op)
Gained(j, c, n, d, op) == Count(n, d, op) = Count(j, c, op) + 1
Kept(j, c, n, d, op) == Count(n, d, op) >= Count(j, c, op)
LostOne(j, c, n, d, op) == Count(n, d, op) >= Count(j, c, op) - 1
LEMMA SwapsCounts ==
    ASSUME NEW j, NEW c, NEW n, NEW d, NEW t, NEW g, NEW op, Swaps(j, c, n, d, t, g), CountsFor(j, c, t, op),
           g # op, g # "none", op # "none"
    PROVE Gained(j, c, n, d, g) /\ LostOne(j, c, n, d, op)
<1>1. Count(j, c, op) \in Nat /\ Count(j, c, g) \in Nat BY WokenIs
<1>2. t \notin WokenOf(j, c, g) BY DEF CountsFor
<1>3. Count(n, d, op) = Count(j, c, op) \/ Count(n, d, op) = Count(j, c, op) - 1 BY DEF Swaps
<1>4. Count(n, d, g) = Count(j, c, g) + 1 BY <1>2 DEF Swaps
<1>. QED BY <1>1, <1>3, <1>4 DEF Gained, LostOne
LEMMA FewerCounts ==
    ASSUME NEW j, NEW c, NEW n, NEW d, NEW t, NEW g, NEW op, Fewer(j, c, n, d, t), CountsFor(j, c, t, op),
           g # op, g # "none", op # "none"
    PROVE Kept(j, c, n, d, g) /\ LostOne(j, c, n, d, op)
<1>1. Count(j, c, op) \in Nat /\ Count(j, c, g) \in Nat BY WokenIs
<1>2. t \notin WokenOf(j, c, g) BY DEF CountsFor
<1>3. Count(n, d, op) = Count(j, c, op) \/ Count(n, d, op) = Count(j, c, op) - 1 BY DEF Fewer
<1>4. Count(n, d, g) = Count(j, c, g) BY <1>2 DEF Fewer
<1>. QED BY <1>1, <1>3, <1>4 DEF Kept, LostOne
LEMMA MoreCounts ==
    ASSUME NEW j, NEW c, NEW n, NEW d, NEW g, NEW op, More(j, c, n, d, g), g # op, g # "none", op # "none"
    PROVE Gained(j, c, n, d, g) /\ LostOne(j, c, n, d, op)
<1>1. Count(j, c, op) \in Nat /\ Count(j, c, g) \in Nat BY WokenIs
<1>2. Count(n, d, op) = Count(j, c, op) /\ Count(n, d, g) = Count(j, c, g) + 1 BY DEF More
<1>. QED BY <1>1, <1>2 DEF Gained, LostOne

LEMMA MailInv ==
    ASSUME kind' \in Objects, kind' = "mailbox", ThreadInv(k', ctx', isr', loop', kind'), obj' \in Objs, owed' \in Int,
           MailSound(obj', mail'), MailFlows(k', ctx', obj')
    PROVE IpcInv'
<1>1. NoLoss(k', ctx', kind', obj', owed') BY DEF NoLoss
<1>2. kind' \in Kinds BY DEF Kinds
<1>. QED BY <1>1, <1>2, InvFrom
LEMMA MailParts ==
    ASSUME IpcInv, kind = "mailbox"
    PROVE /\ kind \in Objects /\ obj \in Objs /\ owed \in Int /\ MailSound(obj, mail) /\ MailFlows(k, ctx, obj)
          /\ obj.entry \in Nat /\ obj.entry <= Slots /\ Slots \in Nat
<1>1. MailFlows(k, ctx, obj) BY InvParts DEF NoLoss
<1>2. obj \in Objs BY InvParts
<1>3. obj.entry \in 0..Slots /\ Slots \in Nat BY <1>2, ObjsOf, SlotsAre
<1>. QED BY <1>1, <1>3, InvParts

(* A message more, with a receiver woken if one waits; one less, with a     *)
(* sender woken; and a thread that finds the mailbox full or empty.         *)
LEMMA PutFlows ==
    ASSUME NEW j, NEW c, NEW o, NEW n, NEW d, NEW p, o.entry \in Nat, o.entry <= Slots, p.entry = o.entry + 1,
           LostOne(j, c, n, d, "send"), j.list["wait"] # <<>> => Gained(j, c, n, d, "recv"),
           n.list["wait"] # <<>> => j.list["wait"] # <<>>, n.list["send"] # <<>> => j.list["send"] # <<>>,
           MailFlows(j, c, o)
    PROVE MailFlows(n, d, p)
<1>1. /\ Slots \in Nat /\ Count(j, c, "send") \in Nat /\ Count(n, d, "send") \in Nat
      /\ Count(j, c, "recv") \in Nat /\ Count(n, d, "recv") \in Nat
  BY SlotsAre, WokenIs
<1>2. ASSUME n.list["wait"] # <<>> PROVE p.entry <= Count(n, d, "recv")
  <2>1. Count(n, d, "recv") = Count(j, c, "recv") + 1 /\ o.entry <= Count(j, c, "recv")
    BY <1>2 DEF Gained, MailFlows
  <2>. QED BY <1>1, <2>1
<1>3. ASSUME n.list["send"] # <<>> PROVE Slots - p.entry <= Count(n, d, "send")
  <2>1. Count(n, d, "send") >= Count(j, c, "send") - 1 /\ Slots - o.entry <= Count(j, c, "send")
    BY <1>3 DEF LostOne, MailFlows
  <2>. QED BY <1>1, <2>1
<1>. QED BY <1>2, <1>3 DEF MailFlows
LEMMA GetFlows ==
    ASSUME NEW j, NEW c, NEW o, NEW n, NEW d, NEW p, o.entry \in Nat, o.entry <= Slots, p.entry = o.entry - 1,
           LostOne(j, c, n, d, "recv"), j.list["send"] # <<>> => Gained(j, c, n, d, "send"),
           n.list["wait"] # <<>> => j.list["wait"] # <<>>, n.list["send"] # <<>> => j.list["send"] # <<>>,
           MailFlows(j, c, o)
    PROVE MailFlows(n, d, p)
<1>1. /\ Slots \in Nat /\ Count(j, c, "send") \in Nat /\ Count(n, d, "send") \in Nat
      /\ Count(j, c, "recv") \in Nat /\ Count(n, d, "recv") \in Nat
  BY SlotsAre, WokenIs
<1>2. ASSUME n.list["wait"] # <<>> PROVE p.entry <= Count(n, d, "recv")
  <2>1. Count(n, d, "recv") >= Count(j, c, "recv") - 1 /\ o.entry <= Count(j, c, "recv")
    BY <1>2 DEF LostOne, MailFlows
  <2>. QED BY <1>1, <2>1
<1>3. ASSUME n.list["send"] # <<>> PROVE Slots - p.entry <= Count(n, d, "send")
  <2>1. Count(n, d, "send") = Count(j, c, "send") + 1 /\ Slots - o.entry <= Count(j, c, "send")
    BY <1>3 DEF Gained, MailFlows
  <2>. QED BY <1>1, <2>1
<1>. QED BY <1>2, <1>3 DEF MailFlows
LEMMA FullFlows ==
    ASSUME NEW j, NEW c, NEW o, NEW n, NEW d, o.entry = Slots, Kept(j, c, n, d, "recv"),
           n.list["wait"] # <<>> => j.list["wait"] # <<>>, MailFlows(j, c, o)
    PROVE MailFlows(n, d, o)
<1>1. /\ Slots \in Nat /\ Count(n, d, "send") \in Nat
      /\ Count(j, c, "recv") \in Nat /\ Count(n, d, "recv") \in Nat
  BY SlotsAre, WokenIs
<1>2. ASSUME n.list["wait"] # <<>> PROVE o.entry <= Count(n, d, "recv")
  <2>1. Count(n, d, "recv") >= Count(j, c, "recv") /\ o.entry <= Count(j, c, "recv")
    BY <1>2 DEF Kept, MailFlows
  <2>. QED BY <1>1, <2>1
<1>3. Slots - o.entry <= Count(n, d, "send") BY <1>1
<1>. QED BY <1>2, <1>3 DEF MailFlows
LEMMA EmptyFlows ==
    ASSUME NEW j, NEW c, NEW o, NEW n, NEW d, o.entry = 0, Kept(j, c, n, d, "send"),
           n.list["send"] # <<>> => j.list["send"] # <<>>, MailFlows(j, c, o)
    PROVE MailFlows(n, d, o)
<1>1. /\ Slots \in Nat /\ Count(n, d, "recv") \in Nat
      /\ Count(j, c, "send") \in Nat /\ Count(n, d, "send") \in Nat
  BY SlotsAre, WokenIs
<1>2. ASSUME n.list["send"] # <<>> PROVE Slots - o.entry <= Count(n, d, "send")
  <2>1. Count(n, d, "send") >= Count(j, c, "send") /\ Slots - o.entry <= Count(j, c, "send")
    BY <1>2 DEF Kept, MailFlows
  <2>. QED BY <1>1, <2>1
<1>3. o.entry <= Count(n, d, "recv") BY <1>1
<1>. QED BY <1>2, <1>3 DEF MailFlows

LEMMA StoredIs ==
    ASSUME NEW v
    PROVE Stored(v) = PutLast(obj, v)
BY DEF Stored, PutLast
LEMMA TakenIs == Taken = TakeFirst(obj)
BY DEF Taken, TakeFirst

LEMMA ReturnFlows ==
    ASSUME IpcInv, NEW t, Stand(t), Return(t), UNCHANGED <<kind, isr, loop>>,
           NEW g, NEW op, g # op, g # "none", op # "none", CountsFor(k, ctx, t, op)
    PROVE /\ ThreadInv(k', ctx', isr', loop', kind') /\ k'.list = k.list
          /\ Kept(k, ctx, k', ctx', g) /\ LostOne(k, ctx, k', ctx', op)
<1>1. ThreadInv(k', ctx', isr', loop', kind') /\ Fewer(k, ctx, k', ctx', t) /\ k'.list = k.list BY ReturnDoes
<1>. QED BY <1>1, FewerCounts

Enters(v) ==
    \/ obj' = PutLast(obj, v) /\ mail' = Append(mail, v)
    \/ obj' = PutFirst(obj, v) /\ mail' = <<v>> \o mail

(* The call wakes a thread on the list, if there is one, and returns.       *)
ReturnWaking(t, l) ==
    IF k.list[l] # <<>> THEN ReturnAfterSchedule(t, ListResume(k, l)) ELSE Return(t)

(* A message enters the mailbox.                                            *)
LEMMA PutKeeps ==
    ASSUME IpcInv, kind = "mailbox", obj.entry < Slots, NEW v \in MailValues,
           Enters(v),
           UNCHANGED <<kind, owed>>, ThreadInv(k', ctx', isr', loop', kind'),
           LostOne(k, ctx, k', ctx', "send"), k.list["wait"] # <<>> => Gained(k, ctx, k', ctx', "recv"),
           k'.list["wait"] # <<>> => k.list["wait"] # <<>>, k'.list["send"] # <<>> => k.list["send"] # <<>>
    PROVE IpcInv'
<1>1. /\ kind \in Objects /\ obj \in Objs /\ owed \in Int /\ MailSound(obj, mail) /\ MailFlows(k, ctx, obj)
      /\ obj.entry \in Nat /\ obj.entry <= Slots /\ Slots \in Nat
  BY MailParts
<1>2. obj' \in Objs /\ MailSound(obj', mail') /\ obj'.entry = obj.entry + 1
  <2>1. PICK p, m : p = obj' /\ m = mail' OBVIOUS
  <2>2. obj \in Objs /\ MailSound(obj, mail) BY <1>1
  <2>3. CASE p = PutLast(obj, v) /\ m = Append(mail, v)
    <3>1. Puts(obj, mail, v, p, m) BY <2>3 DEF Puts
    <3>2. p \in Objs /\ MailSound(p, m) /\ p.entry = obj.entry + 1 BY <2>2, <3>1, PutIs
    <3>. QED BY <2>1, <3>2
  <2>4. CASE p = PutFirst(obj, v) /\ m = <<v>> \o mail
    <3>1. PutsFirst(obj, mail, v, p, m) BY <2>4 DEF PutsFirst
    <3>2. p \in Objs /\ MailSound(p, m) /\ p.entry = obj.entry + 1 BY <2>2, <3>1, PutFirstIs
    <3>. QED BY <2>1, <3>2
  <2>. QED BY <2>1, <2>3, <2>4 DEF Enters
<1>3. MailFlows(k', ctx', obj') BY <1>1, <1>2, PutFlows
<1>. QED BY <1>1, <1>2, <1>3, MailInv

(* From a thread: it wakes a receiver if one waits, and returns.            *)
LEMMA PutThreadKeeps ==
    ASSUME IpcInv, kind = "mailbox", obj.entry < Slots, NEW v \in MailValues,
           Enters(v),
           UNCHANGED <<kind, isr, loop, owed>>, NEW t, Stand(t), CountsFor(k, ctx, t, "send"),
           ReturnWaking(t, "wait")
    PROVE IpcInv'
<1>1. "wait" \in WaitLists /\ "send" \in WaitLists /\ "wait" \in {"wait", "send"} BY DEF WaitLists
<1>2. CASE k.list["wait"] # <<>>
  <2>1. ReturnAfterSchedule(t, ListResume(k, "wait")) BY <1>2 DEF ReturnWaking
  <2>2. /\ ThreadInv(k', ctx', isr', loop', kind') /\ Swaps(k, ctx, k', ctx', t, ListOp("wait", kind))
        /\ Shorter(k, k')
    BY <1>1, <1>2, <2>1, WakeDoes
  <2>3. ListOp("wait", kind) = "recv" BY DEF ListOp, WaitOp
  <2>4. Swaps(k, ctx, k', ctx', t, "recv") BY <2>2, <2>3
  <2>5. Gained(k, ctx, k', ctx', "recv") /\ LostOne(k, ctx, k', ctx', "send") BY <2>4, SwapsCounts
  <2>6. /\ k'.list["wait"] # <<>> => k.list["wait"] # <<>>
        /\ k'.list["send"] # <<>> => k.list["send"] # <<>>
    BY <1>1, <2>2 DEF Shorter
  <2>. QED BY <2>2, <2>5, <2>6, PutKeeps
<1>3. CASE k.list["wait"] = <<>>
  <2>1. Return(t) BY <1>3 DEF ReturnWaking
  <2>2. /\ ThreadInv(k', ctx', isr', loop', kind') /\ k'.list = k.list
        /\ Kept(k, ctx, k', ctx', "recv") /\ LostOne(k, ctx, k', ctx', "send")
    BY <2>1, ReturnFlows
  <2>. QED BY <1>3, <2>2, PutKeeps
<1>. QED BY <1>2, <1>3

LEMMA SendKeeps ==
    ASSUME IpcInv, kind = "mailbox", NEW t, Stand(t), CountsFor(k, ctx, t, "send"),
           NEW n \in -1..Half - 1, NEW v \in MailValues, Send(t, n, v), UNCHANGED <<kind, isr, loop, owed>>
    PROVE IpcInv'
<1>1. /\ kind \in Objects /\ obj \in Objs /\ owed \in Int /\ MailSound(obj, mail) /\ MailFlows(k, ctx, obj)
      /\ obj.entry \in Nat /\ obj.entry <= Slots /\ Slots \in Nat
  BY MailParts
<1>2. "wait" \in WaitLists /\ "send" \in WaitLists /\ "send" \in {"wait", "send"} BY DEF WaitLists
<1>3. CASE obj.entry = Slots
  <2>1. UNCHANGED <<obj, mail>> BY <1>3 DEF Send
  <2>2. ASSUME ThreadInv(k', ctx', isr', loop', kind'), Fewer(k, ctx, k', ctx', t),
               k'.list["wait"] # <<>> => k.list["wait"] # <<>>
        PROVE IpcInv'
    <3>1. Kept(k, ctx, k', ctx', "recv") BY <2>2, FewerCounts
    <3>2. MailFlows(k', ctx', obj) BY <1>1, <1>3, <2>2, <3>1, FullFlows
    <3>. QED BY <1>1, <2>1, <2>2, <3>2, MailInv
  <2>3. CASE n = 0
    <3>1. Return(t) BY <1>3, <2>3 DEF Send
    <3>2. ThreadInv(k', ctx', isr', loop', kind') /\ Fewer(k, ctx, k', ctx', t) /\ k'.list = k.list
      BY <3>1, ReturnDoes
    <3>. QED BY <2>2, <3>2
  <2>4. CASE n # 0
    <3>1. Waits(t, "send", n, v, BlockAtEnd(k, t, "send", n, "intr")) BY <1>3, <2>4 DEF Send
    <3>2. "send" = ListOp("send", kind) /\ "intr" \in Errors BY DEF ListOp, Errors
    <3>3. /\ ThreadInv(k', ctx', isr', loop', kind') /\ Fewer(k, ctx, k', ctx', t)
          /\ \A x \in WaitLists : x # "send" /\ k'.list[x] # <<>> => k.list[x] # <<>>
      BY <1>2, <3>1, <3>2, WaitDoes
    <3>4. k'.list["wait"] # <<>> => k.list["wait"] # <<>> BY <1>2, <3>3
    <3>. QED BY <2>2, <3>3, <3>4
  <2>. QED BY <2>3, <2>4
<1>4. CASE obj.entry # Slots
  <2>1. /\ obj' = Stored(v) /\ mail' = Append(mail, v)
        /\ ReturnWaking(t, "wait")
    BY <1>4 DEF Send, ReturnWaking
  <2>2. Enters(v) BY <2>1, StoredIs DEF Enters
  <2>3. obj.entry < Slots BY <1>1, <1>4
  <2>. QED BY <2>1, <2>2, <2>3, PutThreadKeeps
<1>. QED BY <1>3, <1>4

LEMMA ReceiveKeeps ==
    ASSUME IpcInv, kind = "mailbox", NEW t, Stand(t), CountsFor(k, ctx, t, "recv"),
           NEW n \in -1..Half - 1, Receive(t, n), UNCHANGED <<kind, isr, loop, owed>>
    PROVE IpcInv'
<1>1. /\ kind \in Objects /\ obj \in Objs /\ owed \in Int /\ MailSound(obj, mail) /\ MailFlows(k, ctx, obj)
      /\ obj.entry \in Nat /\ obj.entry <= Slots /\ Slots \in Nat
  BY MailParts
<1>2. /\ "wait" \in WaitLists /\ "send" \in WaitLists /\ "send" \in {"wait", "send"}
      /\ "wait" \in {"wait", "send"}
  BY DEF WaitLists
<1>3. CASE obj.entry = 0
  <2>1. UNCHANGED <<obj, mail>> BY <1>3 DEF Receive
  <2>2. ASSUME ThreadInv(k', ctx', isr', loop', kind'), Fewer(k, ctx, k', ctx', t),
               k'.list["send"] # <<>> => k.list["send"] # <<>>
        PROVE IpcInv'
    <3>1. Kept(k, ctx, k', ctx', "send") BY <2>2, FewerCounts
    <3>2. MailFlows(k', ctx', obj) BY <1>1, <1>3, <2>2, <3>1, EmptyFlows
    <3>. QED BY <1>1, <2>1, <2>2, <3>2, MailInv
  <2>3. CASE n = 0
    <3>1. Return(t) BY <1>3, <2>3 DEF Receive
    <3>2. ThreadInv(k', ctx', isr', loop', kind') /\ Fewer(k, ctx, k', ctx', t) /\ k'.list = k.list
      BY <3>1, ReturnDoes
    <3>. QED BY <2>2, <3>2
  <2>4. CASE n # 0
    <3>1. Waits(t, "recv", n, 0, BlockAtEnd(k, t, "wait", n, "intr")) BY <1>3, <2>4 DEF Receive
    <3>2. "recv" = ListOp("wait", kind) /\ "intr" \in Errors /\ 0 \in MailValues
      BY DEF ListOp, WaitOp, Errors, MailValues
    <3>3. /\ ThreadInv(k', ctx', isr', loop', kind') /\ Fewer(k, ctx, k', ctx', t)
          /\ \A x \in WaitLists : x # "wait" /\ k'.list[x] # <<>> => k.list[x] # <<>>
      BY <1>2, <3>1, <3>2, WaitDoes
    <3>4. k'.list["send"] # <<>> => k.list["send"] # <<>> BY <1>2, <3>3
    <3>. QED BY <2>2, <3>3, <3>4
  <2>. QED BY <2>3, <2>4
<1>4. CASE obj.entry # 0
  <2>1. /\ obj' = Taken /\ mail' = Tail(mail)
        /\ ReturnWaking(t, "send")
    BY <1>4 DEF Receive, ReturnWaking
  <2>2. obj' = TakeFirst(obj) BY <2>1, TakenIs
  <2>3. obj' \in Objs /\ MailSound(obj', mail') /\ obj'.entry = obj.entry - 1
    <3>1. PICK p, m : p = obj' /\ m = mail' OBVIOUS
    <3>2. p \in Objs /\ MailSound(p, m) /\ p.entry = obj.entry - 1 BY <1>1, <1>4, <2>1, <2>2, <3>1, GetIs
    <3>. QED BY <3>1, <3>2
  <2>4. ASSUME ThreadInv(k', ctx', isr', loop', kind'), LostOne(k, ctx, k', ctx', "recv"),
               k.list["send"] # <<>> => Gained(k, ctx, k', ctx', "send"),
               k'.list["wait"] # <<>> => k.list["wait"] # <<>>, k'.list["send"] # <<>> => k.list["send"] # <<>>
        PROVE IpcInv'
    <3>1. MailFlows(k', ctx', obj') BY <1>1, <2>3, <2>4, GetFlows
    <3>. QED BY <1>1, <2>3, <2>4, <3>1, MailInv
  <2>5. CASE k.list["send"] # <<>>
    <3>1. ReturnAfterSchedule(t, ListResume(k, "send")) BY <2>1, <2>5 DEF ReturnWaking
    <3>2. /\ ThreadInv(k', ctx', isr', loop', kind') /\ Swaps(k, ctx, k', ctx', t, ListOp("send", kind))
          /\ Shorter(k, k')
      BY <1>2, <2>5, <3>1, WakeDoes
    <3>3. ListOp("send", kind) = "send" BY DEF ListOp
    <3>4. Swaps(k, ctx, k', ctx', t, "send") BY <3>2, <3>3
    <3>5. Gained(k, ctx, k', ctx', "send") /\ LostOne(k, ctx, k', ctx', "recv") BY <3>4, SwapsCounts
    <3>6. /\ k'.list["wait"] # <<>> => k.list["wait"] # <<>>
          /\ k'.list["send"] # <<>> => k.list["send"] # <<>>
      BY <1>2, <3>2 DEF Shorter
    <3>. QED BY <2>4, <3>2, <3>5, <3>6
  <2>6. CASE k.list["send"] = <<>>
    <3>1. Return(t) BY <2>1, <2>6 DEF ReturnWaking
    <3>2. /\ ThreadInv(k', ctx', isr', loop', kind') /\ k'.list = k.list
          /\ Kept(k, ctx, k', ctx', "send") /\ LostOne(k, ctx, k', ctx', "recv")
      BY <3>1, ReturnFlows
    <3>. QED BY <2>4, <2>6, <3>2
  <2>. QED BY <2>5, <2>6
<1>. QED BY <1>3, <1>4

LEMMA UserCounts ==
    ASSUME IpcInv, NEW t, User(t), NEW g
    PROVE Stand(t) /\ CountsFor(k, ctx, t, g)
BY UserStands DEF CountsFor
LEMMA AgainCounts ==
    ASSUME IpcInv, NEW t, At(t, "woken"), k.error[t] = "ok", NEW g, ctx[t].op = g
    PROVE /\ Stand(t) /\ CountsFor(k, ctx, t, g) /\ (g # "none" => t \in WokenOf(k, ctx, g))
          /\ Left(t) \in -1..Half - 1 /\ ctx[t].value \in MailValues
<1>1. Stand(t) /\ \A op : t \in WokenOf(k, ctx, op) <=> op = ctx[t].op BY WokenStands
<1>2. t \in Threads /\ CallsSound(ctx) BY InvParts DEF At
<1>3. ctx[t] \in CallsOf BY <1>2, CallSoundOf
<1>4. ctx[t].spent = 0 \/ ctx[t].spent <= ctx[t].left BY <1>2 DEF CallsSound
<1>5. PICK a, b : a = ctx[t].left /\ b = ctx[t].spent OBVIOUS
<1>6. a \in -1..Half - 1 /\ b \in 0..Half - 1 /\ ctx[t].value \in MailValues BY <1>3, <1>5 DEF CallsOf
<1>7. b = 0 \/ b <= a BY <1>4, <1>5
<1>8. Half \in Int BY Halves
<1>9. a - b \in -1..Half - 1 BY <1>6, <1>7, <1>8
<1>10. Left(t) = a - b BY <1>5 DEF Left
<1>. QED BY <1>1, <1>6, <1>9, <1>10 DEF CountsFor

LEMMA MbSendWaitKeeps ==
    ASSUME IpcInv, NEW t, NEW n \in Timeouts[kind], NEW v \in Mails, MbSendWait(t, n, v)
    PROVE IpcInv'
<1>1. kind = "mailbox" /\ User(t) /\ Send(t, n, v) /\ UNCHANGED <<kind, isr, loop, owed>> BY DEF MbSendWait
<1>2. Stand(t) /\ CountsFor(k, ctx, t, "send") BY <1>1, UserCounts
<1>3. n \in -1..Half - 1 BY TimeoutIs
<1>4. v \in MailValues BY DEF MailValues
<1>. QED BY <1>1, <1>2, <1>3, <1>4, SendKeeps
LEMMA MbRecvKeeps ==
    ASSUME IpcInv, NEW t, NEW n \in Timeouts[kind], MbRecv(t, n)
    PROVE IpcInv'
<1>1. kind = "mailbox" /\ User(t) /\ Receive(t, n) /\ UNCHANGED <<kind, isr, loop, owed>> BY DEF MbRecv
<1>2. Stand(t) /\ CountsFor(k, ctx, t, "recv") BY <1>1, UserCounts
<1>3. n \in -1..Half - 1 BY TimeoutIs
<1>. QED BY <1>1, <1>2, <1>3, ReceiveKeeps
LEMMA OpKind ==
    ASSUME IpcInv, NEW t \in Threads
    PROVE /\ ctx[t].op \in {"send", "recv"} => kind = "mailbox"
          /\ ctx[t].op = "alloc" => kind = "pool"
          /\ ctx[t].op = "done" => kind = "completion"
<1>1. WaitersSound(k, ctx, kind) /\ kind \in Kinds BY InvParts DEF CoreInv
<1>2. ctx[t].op \in {"none", "sleep", WaitOp(kind)} \/ (kind = "mailbox" /\ ctx[t].op = "send")
  BY <1>1 DEF WaitersSound
<1>. QED BY <1>1, <1>2 DEF WaitOp, Kinds
LEMMA MbAgainKeeps ==
    ASSUME IpcInv, NEW t, MbAgain(t)
    PROVE IpcInv'
<1>1. At(t, "woken") /\ k.error[t] = "ok" /\ UNCHANGED <<kind, isr, loop, owed>> /\ t \in Threads BY DEF MbAgain, At
<1>2. CASE ctx[t].op = "send" /\ Send(t, Left(t), ctx[t].value)
  <2>1. kind = "mailbox" BY <1>1, <1>2, OpKind
  <2>2. /\ Stand(t) /\ CountsFor(k, ctx, t, "send")
        /\ Left(t) \in -1..Half - 1 /\ ctx[t].value \in MailValues
    BY <1>1, <1>2, AgainCounts
  <2>3. PICK n, v : n = Left(t) /\ v = ctx[t].value OBVIOUS
  <2>4. Send(t, n, v) /\ n \in -1..Half - 1 /\ v \in MailValues BY <1>2, <2>2, <2>3
  <2>. QED BY <1>1, <2>1, <2>2, <2>4, SendKeeps
<1>3. CASE ctx[t].op = "recv" /\ Receive(t, Left(t))
  <2>1. kind = "mailbox" BY <1>1, <1>3, OpKind
  <2>2. /\ Stand(t) /\ CountsFor(k, ctx, t, "recv") /\ Left(t) \in -1..Half - 1
    BY <1>1, <1>3, AgainCounts
  <2>3. PICK n : n = Left(t) OBVIOUS
  <2>4. Receive(t, n) /\ n \in -1..Half - 1 BY <1>3, <2>2, <2>3
  <2>. QED BY <1>1, <2>1, <2>2, <2>4, ReceiveKeeps
<1>. QED BY <1>2, <1>3 DEF MbAgain
LEMMA MbUrgentKeeps ==
    ASSUME IpcInv, NEW t, NEW v \in Mails, MbUrgent(t, v)
    PROVE IpcInv'
<1>1. /\ kind = "mailbox" /\ User(t) /\ obj.entry < Slots /\ UNCHANGED <<kind, isr, loop, owed>>
      /\ obj' = PutFirst(obj, v) /\ mail' = <<v>> \o mail
      /\ ReturnWaking(t, "wait")
  BY DEF MbUrgent, PutFirst, ReturnWaking
<1>4. Enters(v) BY <1>1 DEF Enters
<1>2. Stand(t) /\ CountsFor(k, ctx, t, "send") BY <1>1, UserCounts
<1>3. v \in MailValues BY DEF MailValues
<1>. QED BY <1>1, <1>2, <1>3, <1>4, PutThreadKeeps
LEMMA IsrSendKeeps ==
    ASSUME IpcInv, loop = "none", NEW v \in Mails, IsrSend(v)
    PROVE IpcInv'
<1>1. /\ kind = "mailbox" /\ obj.entry < Slots /\ UNCHANGED <<kind, ctx, isr, loop, owed>>
      /\ obj' = Stored(v) /\ mail' = Append(mail, v)
      /\ k' = IF k.list["wait"] # <<>> THEN Schedule(ListResume(k, "wait")) ELSE k
  BY DEF IsrSend
<1>2. Enters(v) /\ v \in MailValues BY <1>1, StoredIs DEF MailValues, Enters
<1>3. "wait" \in {"wait", "send"} /\ "wait" \in WaitLists /\ "send" \in WaitLists BY DEF WaitLists
<1>4. CASE k.list["wait"] # <<>>
  <2>1. k' = Schedule(ListResume(k, "wait")) BY <1>1, <1>4
  <2>2. /\ ThreadInv(k', ctx', isr', loop', kind') /\ More(k, ctx, k', ctx', ListOp("wait", kind)) /\ Shorter(k, k')
    BY <1>1, <1>3, <1>4, <2>1, WakeOutDoes
  <2>3. ListOp("wait", kind) = "recv" BY <1>1 DEF ListOp, WaitOp
  <2>4. More(k, ctx, k', ctx', "recv") BY <2>2, <2>3
  <2>5. Gained(k, ctx, k', ctx', "recv") /\ LostOne(k, ctx, k', ctx', "send") BY <2>4, MoreCounts
  <2>6. /\ k'.list["wait"] # <<>> => k.list["wait"] # <<>>
        /\ k'.list["send"] # <<>> => k.list["send"] # <<>>
    BY <1>3, <2>2 DEF Shorter
  <2>. QED BY <1>1, <1>2, <2>2, <2>5, <2>6, PutKeeps
<1>5. CASE k.list["wait"] = <<>>
  <2>1. k' = k BY <1>1, <1>5
  <2>2. ThreadInv(k', ctx', isr', loop', kind') BY <1>1, <2>1, InvParts
  <2>3. Count(k, ctx, "send") \in Nat BY WokenIs
  <2>4. Count(k', ctx', "send") = Count(k, ctx, "send") BY <1>1, <2>1
  <2>5. LostOne(k, ctx, k', ctx', "send") BY <2>3, <2>4 DEF LostOne
  <2>. QED BY <1>1, <1>2, <1>5, <2>1, <2>2, <2>5, PutKeeps
<1>. QED BY <1>4, <1>5

----------------------------------------------------------------------------
(* Memory pool.                                                             *)
LEMMA PoolInv ==
    ASSUME kind' \in Objects, kind' = "pool", ThreadInv(k', ctx', isr', loop', kind'), obj' \in Objs, owed' \in Int,
           MailSound(obj', mail'), PoolFlows(k', ctx', obj')
    PROVE IpcInv'
<1>1. NoLoss(k', ctx', kind', obj', owed') BY DEF NoLoss
<1>2. kind' \in Kinds BY DEF Kinds
<1>. QED BY <1>1, <1>2, InvFrom
LEMMA PoolParts ==
    ASSUME IpcInv, kind = "pool"
    PROVE /\ kind \in Objects /\ obj \in Objs /\ owed \in Int /\ MailSound(obj, mail) /\ PoolFlows(k, ctx, obj)
          /\ obj.free \in Nat /\ obj.held \in Nat
<1>1. PoolFlows(k, ctx, obj) BY InvParts DEF NoLoss
<1>2. obj \in Objs BY InvParts
<1>3. obj.free \in Nat /\ obj.held \in Nat BY <1>2, ObjsOf
<1>. QED BY <1>1, <1>3, InvParts
LEMMA FreedFlows ==
    ASSUME NEW j, NEW c, NEW o, NEW n, NEW d, NEW p, o.free \in Nat, p.free = o.free + 1,
           j.list["wait"] # <<>> => Gained(j, c, n, d, "alloc"),
           n.list["wait"] # <<>> => j.list["wait"] # <<>>, PoolFlows(j, c, o)
    PROVE PoolFlows(n, d, p)
<1>1. Count(j, c, "alloc") \in Nat /\ Count(n, d, "alloc") \in Nat BY WokenIs
<1>2. ASSUME n.list["wait"] # <<>> PROVE p.free <= Count(n, d, "alloc")
  <2>1. Count(n, d, "alloc") = Count(j, c, "alloc") + 1 /\ o.free <= Count(j, c, "alloc")
    BY <1>2 DEF Gained, PoolFlows
  <2>. QED BY <1>1, <2>1
<1>. QED BY <1>2 DEF PoolFlows
LEMMA AllocFlows ==
    ASSUME NEW j, NEW c, NEW o, NEW n, NEW d, NEW p, o.free \in Nat, p.free = o.free - 1,
           LostOne(j, c, n, d, "alloc"), n.list["wait"] # <<>> => j.list["wait"] # <<>>, PoolFlows(j, c, o)
    PROVE PoolFlows(n, d, p)
<1>1. Count(j, c, "alloc") \in Nat /\ Count(n, d, "alloc") \in Nat BY WokenIs
<1>2. ASSUME n.list["wait"] # <<>> PROVE p.free <= Count(n, d, "alloc")
  <2>1. Count(n, d, "alloc") >= Count(j, c, "alloc") - 1 /\ o.free <= Count(j, c, "alloc")
    BY <1>2 DEF LostOne, PoolFlows
  <2>. QED BY <1>1, <2>1
<1>. QED BY <1>2 DEF PoolFlows

LEMMA AllocKeeps ==
    ASSUME IpcInv, kind = "pool", NEW t, Stand(t), CountsFor(k, ctx, t, "alloc"),
           NEW n \in -1..Half - 1, Alloc(t, n), UNCHANGED <<kind, isr, loop, owed, mail>>
    PROVE IpcInv'
<1>1. /\ kind \in Objects /\ obj \in Objs /\ owed \in Int /\ MailSound(obj, mail) /\ PoolFlows(k, ctx, obj)
      /\ obj.free \in Nat /\ obj.held \in Nat
  BY PoolParts
<1>2. "wait" \in WaitLists /\ "wait" \in {"wait", "send"} BY DEF WaitLists
<1>3. CASE obj.free = 0
  <2>1. UNCHANGED obj BY <1>3 DEF Alloc
  <2>2. ASSUME ThreadInv(k', ctx', isr', loop', kind') PROVE IpcInv'
    <3>1. PICK x \in Nat : x = Count(k', ctx', "alloc") BY WokenIs
    <3>2. obj'.free <= Count(k', ctx', "alloc") BY <1>3, <2>1, <3>1
    <3>3. PoolFlows(k', ctx', obj') BY <3>2 DEF PoolFlows
    <3>. QED BY <1>1, <2>1, <2>2, <3>3, PoolInv
  <2>3. CASE n = 0
    <3>1. Return(t) BY <1>3, <2>3 DEF Alloc
    <3>2. ThreadInv(k', ctx', isr', loop', kind') BY <3>1, ReturnDoes
    <3>. QED BY <2>2, <3>2
  <2>4. CASE n # 0
    <3>1. Waits(t, "alloc", n, 0, BlockInFront(k, t, "wait", n, "ok")) BY <1>3, <2>4 DEF Alloc
    <3>2. "alloc" = ListOp("wait", kind) /\ "ok" \in Errors /\ 0 \in MailValues
      BY DEF ListOp, WaitOp, Errors, MailValues
    <3>3. ThreadInv(k', ctx', isr', loop', kind') BY <1>2, <3>1, <3>2, WaitDoes
    <3>. QED BY <2>2, <3>3
  <2>. QED BY <2>3, <2>4
<1>4. CASE obj.free # 0
  <2>1. obj' = [obj EXCEPT !.free = @ - 1, !.held = @ + 1] /\ Return(t) BY <1>4 DEF Alloc
  <2>2. PICK f, h : f \in Nat /\ h \in Nat /\ f = obj.free - 1 /\ h = obj.held + 1 BY <1>1, <1>4
  <2>3. obj' = [obj EXCEPT !.free = f, !.held = h] BY <2>1, <2>2
  <2>4. obj' \in Objs /\ SameMail(obj, obj') /\ obj'.free = f
    <3>1. PICK p : p = obj' OBVIOUS
    <3>2. obj \in Objs /\ f \in Nat /\ h \in Nat /\ p = BlocksOf(obj, f, h) BY <1>1, <2>2, <2>3, <3>1 DEF BlocksOf
    <3>3. p \in Objs /\ SameMail(obj, p) /\ p.free = f /\ p.held = h BY <3>2, BlocksSet
    <3>. QED BY <3>1, <3>3
  <2>5. MailSound(obj', mail') BY <1>1, <2>4, MailKept
  <2>6. "recv" # "alloc" /\ "recv" # "none" /\ "alloc" # "none" OBVIOUS
  <2>7. /\ ThreadInv(k', ctx', isr', loop', kind') /\ k'.list = k.list
        /\ Kept(k, ctx, k', ctx', "recv") /\ LostOne(k, ctx, k', ctx', "alloc")
    BY <2>1, <2>6, ReturnFlows
  <2>8. PoolFlows(k', ctx', obj') BY <1>1, <2>2, <2>4, <2>7, AllocFlows
  <2>. QED BY <1>1, <2>4, <2>5, <2>7, <2>8, PoolInv
<1>. QED BY <1>3, <1>4

LEMMA MpAllocKeeps ==
    ASSUME IpcInv, NEW t, NEW n \in Timeouts[kind], MpAlloc(t, n)
    PROVE IpcInv'
<1>1. kind = "pool" /\ User(t) /\ Alloc(t, n) /\ UNCHANGED <<kind, isr, loop, owed, mail>> BY DEF MpAlloc
<1>2. Stand(t) /\ CountsFor(k, ctx, t, "alloc") BY <1>1, UserCounts
<1>3. n \in -1..Half - 1 BY TimeoutIs
<1>. QED BY <1>1, <1>2, <1>3, AllocKeeps
LEMMA MpAgainKeeps ==
    ASSUME IpcInv, NEW t, MpAgain(t)
    PROVE IpcInv'
<1>1. /\ At(t, "woken") /\ k.error[t] = "ok" /\ ctx[t].op = "alloc" /\ t \in Threads
      /\ ctx' = [ctx EXCEPT ![t].pc = "again", ![t].left = Left(t), ![t].spent = 0]
      /\ UNCHANGED <<k, kind, obj, isr, loop, owed, mail>>
  BY DEF MpAgain, At
<1>2. Stand(t) /\ Left(t) \in -1..Half - 1 BY <1>1, AgainCounts
<1>3. /\ isr = "none" /\ loop = "none" /\ ThreadInv(k, ctx, "none", "none", kind)
      /\ CoreInv(k, ctx, "none", "none", kind) /\ Running(k, ctx, t) /\ ctx[t] \in CallsOf
  BY <1>2, Stands
<1>4. Sound(k) /\ CallsSound(ctx) BY InvParts
<1>5. ctx \in [Threads -> CallsOf] BY <1>4 DEF CallsSound
<1>6. PICK c, x : c = ctx[t] /\ x = Left(t) OBVIOUS
<1>7. PICK r : r = AgainCall(c, x) OBVIOUS
<1>8. Calls(ctx, ctx', t, r)
  <2>1. ctx' = [ctx EXCEPT ![t].pc = "again", ![t].left = x, ![t].spent = 0] BY <1>1, <1>6
  <2>. QED BY <1>1, <1>5, <1>6, <1>7, <2>1 DEF Calls, AgainCall
<1>9. r \in CallsOf /\ CallSound(r) /\ r.op = "alloc" /\ r.pc = "again"
  <2>1. c \in CallsOf /\ c.op = "alloc" /\ x \in -1..Half - 1 BY <1>1, <1>2, <1>3, <1>6
  <2>2. 0 \in 0..Half - 1 BY Halves
  <2>. QED BY <1>7, <2>1, <2>2 DEF AgainCall, CallsOf, CallSound
<1>10. ThreadInv(k, ctx', "none", "none", kind) BY <1>1, <1>3, <1>8, <1>9, AgainStep
<1>11. ThreadInv(k', ctx', isr', loop', kind') BY <1>1, <1>3, <1>10
<1>12. ctx'[t] = r /\ \A u \in Threads : u # t => ctx'[u] = ctx[u] BY <1>1, <1>5, <1>8 DEF Calls
<1>13. OpsAlike(ctx, ctx') BY <1>1, <1>9, <1>12 DEF OpsAlike
<1>14. SameStatus(k, k') BY <1>1 DEF SameStatus, Awake
<1>15. Sound(k') /\ k'.error = k.error /\ k'.list = k.list BY <1>1, <1>4
<1>16. Equal(k, ctx, k', ctx') BY <1>4, <1>13, <1>14, <1>15, StandCounts
<1>. QED BY <1>1, <1>11, <1>15, <1>16, QuietKeeps
LEMMA MpRetriesKeeps ==
    ASSUME IpcInv, NEW t, MpRetries(t)
    PROVE IpcInv'
<1>1. /\ At(t, "again") /\ Alloc(t, ctx[t].left) /\ UNCHANGED <<kind, isr, loop, owed, mail>>
      /\ t \in Threads /\ Stand(t)
  BY DEF MpRetries, At, Stand
<1>2. ctx[t] \in CallsOf /\ CallSound(ctx[t]) BY <1>1, InvParts, CallSoundOf
<1>3. ctx[t].pc = "again" BY <1>1 DEF At
<1>4. ctx[t].op = "alloc" BY <1>2, <1>3 DEF CallSound
<1>5. kind = "pool" BY <1>1, <1>4, OpKind
<1>6. \A op : t \in WokenOf(k, ctx, op) => op = ctx[t].op BY WokenIs
<1>7. CountsFor(k, ctx, t, "alloc") BY <1>4, <1>6 DEF CountsFor
<1>8. PICK n : n = ctx[t].left OBVIOUS
<1>9. Alloc(t, n) /\ n \in -1..Half - 1 BY <1>1, <1>2, <1>8 DEF CallsOf
<1>. QED BY <1>1, <1>5, <1>7, <1>9, AllocKeeps

FreedOf(o) == [o EXCEPT !.free = @ + 1, !.held = @ - 1]
LEMMA FreedIs ==
    ASSUME NEW o, o \in Objs, o.held > 0, NEW p, p = FreedOf(o)
    PROVE p \in Objs /\ SameMail(o, p) /\ p.free = o.free + 1
<1>1. o.free \in Nat /\ o.held \in Nat BY ObjsOf
<1>2. PICK f, h : f = o.free + 1 /\ h = o.held - 1 OBVIOUS
<1>3. f \in Nat /\ h \in Nat BY <1>1, <1>2
<1>4. p = BlocksOf(o, f, h) BY <1>2 DEF FreedOf, BlocksOf
<1>5. p \in Objs /\ SameMail(o, p) /\ p.free = f BY <1>3, <1>4 DEF Objs, SameMail, BlocksOf
<1>. QED BY <1>2, <1>5
LEMMA FreedKeeps ==
    ASSUME IpcInv, kind = "pool", obj.held > 0, obj' = Freed, UNCHANGED <<kind, owed, mail>>,
           ThreadInv(k', ctx', isr', loop', kind'), k.list["wait"] # <<>> => Gained(k, ctx, k', ctx', "alloc"),
           k'.list["wait"] # <<>> => k.list["wait"] # <<>>
    PROVE IpcInv'
<1>1. /\ kind \in Objects /\ obj \in Objs /\ owed \in Int /\ MailSound(obj, mail) /\ PoolFlows(k, ctx, obj)
      /\ obj.free \in Nat /\ obj.held \in Nat
  BY PoolParts
<1>2. obj' = FreedOf(obj) BY DEF Freed, FreedOf
<1>3. obj' \in Objs /\ SameMail(obj, obj') /\ obj'.free = obj.free + 1 BY <1>1, <1>2, FreedIs
<1>4. MailSound(obj', mail') BY <1>1, <1>3, MailKept
<1>5. PoolFlows(k', ctx', obj') BY <1>1, <1>3, FreedFlows
<1>. QED BY <1>1, <1>3, <1>4, <1>5, PoolInv
LEMMA MpFreeKeeps ==
    ASSUME IpcInv, NEW t, MpFree(t)
    PROVE IpcInv'
<1>1. /\ kind = "pool" /\ User(t) /\ obj.held > 0 /\ obj' = Freed /\ UNCHANGED <<kind, isr, loop, owed, mail>>
      /\ ReturnWaking(t, "wait")
  BY DEF MpFree, ReturnWaking
<1>2. Stand(t) /\ CountsFor(k, ctx, t, "recv") BY <1>1, UserCounts
<1>3. "wait" \in WaitLists /\ "wait" \in {"wait", "send"} BY DEF WaitLists
<1>4. CASE k.list["wait"] # <<>>
  <2>1. ReturnAfterSchedule(t, ListResume(k, "wait")) BY <1>1, <1>4 DEF ReturnWaking
  <2>2. /\ ThreadInv(k', ctx', isr', loop', kind') /\ Swaps(k, ctx, k', ctx', t, ListOp("wait", kind))
        /\ Shorter(k, k')
    BY <1>1, <1>2, <1>3, <1>4, <2>1, WakeDoes
  <2>3. ListOp("wait", kind) = "alloc" BY <1>1 DEF ListOp, WaitOp
  <2>4. Swaps(k, ctx, k', ctx', t, "alloc") BY <2>2, <2>3
  <2>5. Gained(k, ctx, k', ctx', "alloc") /\ LostOne(k, ctx, k', ctx', "recv") BY <1>2, <2>4, SwapsCounts
  <2>. QED BY <1>1, <1>4, <2>2, <2>5, FreedKeeps
<1>5. CASE k.list["wait"] = <<>>
  <2>1. Return(t) BY <1>1, <1>5 DEF ReturnWaking
  <2>2. ThreadInv(k', ctx', isr', loop', kind') /\ Fewer(k, ctx, k', ctx', t) /\ k'.list = k.list
    BY <1>1, <1>2, <2>1, ReturnDoes
  <2>. QED BY <1>1, <1>5, <2>2, FreedKeeps
<1>. QED BY <1>4, <1>5
LEMMA IsrFreeKeeps ==
    ASSUME IpcInv, loop = "none", IsrFree
    PROVE IpcInv'
<1>1. /\ kind = "pool" /\ obj.held > 0 /\ obj' = Freed /\ UNCHANGED <<kind, ctx, isr, loop, owed, mail>>
      /\ k' = IF k.list["wait"] # <<>> THEN Schedule(ListResume(k, "wait")) ELSE k
  BY DEF IsrFree
<1>2. "wait" \in WaitLists /\ "wait" \in {"wait", "send"} BY DEF WaitLists
<1>3. CASE k.list["wait"] # <<>>
  <2>1. k' = Schedule(ListResume(k, "wait")) BY <1>1, <1>3
  <2>2. /\ ThreadInv(k', ctx', isr', loop', kind') /\ More(k, ctx, k', ctx', ListOp("wait", kind)) /\ Shorter(k, k')
    BY <1>1, <1>2, <1>3, <2>1, WakeOutDoes
  <2>3. ListOp("wait", kind) = "alloc" BY <1>1 DEF ListOp, WaitOp
  <2>4. More(k, ctx, k', ctx', "alloc") BY <2>2, <2>3
  <2>5. "recv" # "alloc" /\ "recv" # "none" /\ "alloc" # "none" OBVIOUS
  <2>6. Gained(k, ctx, k', ctx', "alloc") /\ LostOne(k, ctx, k', ctx', "recv") BY <2>4, <2>5, MoreCounts
  <2>. QED BY <1>1, <1>3, <2>2, <2>6, FreedKeeps
<1>4. CASE k.list["wait"] = <<>>
  <2>1. k' = k BY <1>1, <1>4
  <2>2. ThreadInv(k', ctx', isr', loop', kind') BY <1>1, <2>1, InvParts
  <2>. QED BY <1>1, <1>4, <2>1, <2>2, FreedKeeps
<1>. QED BY <1>3, <1>4

----------------------------------------------------------------------------
(* Completion.                                                              *)
LEMMA DoneInv ==
    ASSUME IpcInv, kind = "completion", UNCHANGED <<kind, owed, mail>>, ThreadInv(k', ctx', isr', loop', kind'),
           NEW f \in BOOLEAN, obj' = [obj EXCEPT !.flag = f] \/ (obj' = obj /\ f = obj.flag),
           f => k'.list["wait"] = <<>>
    PROVE IpcInv'
<1>1. kind \in Objects /\ kind \in Kinds /\ obj \in Objs /\ owed \in Int /\ MailSound(obj, mail) BY InvParts
<1>2. obj' \in Objs /\ SameMail(obj, obj') /\ obj'.flag = f
  <2>1. CASE obj' = [obj EXCEPT !.flag = f] BY <1>1, <2>1, FlagSet
  <2>2. CASE obj' = obj /\ f = obj.flag BY <1>1, <2>2 DEF SameMail
  <2>. QED BY <2>1, <2>2
<1>3. MailSound(obj', mail') BY <1>1, <1>2, MailKept
<1>4. NoLoss(k', ctx', kind', obj', owed') BY <1>2 DEF NoLoss, DoneSound
<1>. QED BY <1>1, <1>2, <1>3, <1>4, InvFrom
LEMMA CompletionWaitKeeps ==
    ASSUME IpcInv, NEW t, NEW n \in Timeouts[kind], CompletionWait(t, n)
    PROVE IpcInv'
<1>1. /\ kind = "completion" /\ User(t) /\ (\A u \in Threads : ctx[u].op # "done")
      /\ UNCHANGED <<kind, isr, loop, owed, mail>>
  BY DEF CompletionWait
<1>2. FALSE \in BOOLEAN OBVIOUS
<1>3. CASE obj' = [obj EXCEPT !.flag = FALSE] /\ UNCHANGED <<k, ctx>>
  <2>1. ThreadInv(k', ctx', isr', loop', kind') BY <1>1, <1>3, InvParts
  <2>. QED BY <1>1, <1>2, <1>3, <2>1, DoneInv
<1>4. CASE /\ ~obj.flag /\ Waits(t, "done", n, 0, BlockAtEnd(k, t, "wait", n, "ok"))
           /\ UNCHANGED obj
  <2>1. Stand(t) BY <1>1, UserStands
  <2>2. "done" = ListOp("wait", kind) BY <1>1 DEF ListOp, WaitOp
  <2>3. 0 \in MailValues /\ "ok" \in Errors BY DEF MailValues, Errors
  <2>4. n \in -1..Half - 1 BY TimeoutIs
  <2>5. "wait" \in {"wait", "send"} OBVIOUS
  <2>6. ThreadInv(k', ctx', isr', loop', kind')
    BY <1>1, <1>4, <2>1, <2>2, <2>3, <2>4, <2>5, WaitDoes
  <2>7. PICK f \in BOOLEAN : f = obj.flag BY InvParts, ObjsOf
  <2>8. obj' = obj /\ ~f BY <1>4, <2>7
  <2>. QED BY <1>1, <2>6, <2>7, <2>8, DoneInv
<1>. QED BY <1>3, <1>4 DEF CompletionWait
LEMMA CompletionEndsKeeps ==
    ASSUME IpcInv, NEW t, CompletionEnds(t)
    PROVE IpcInv'
<1>1. /\ At(t, "woken") /\ ctx[t].op = "done" /\ Return(t) /\ UNCHANGED <<kind, isr, loop, owed, mail>>
      /\ obj' = [obj EXCEPT !.flag = FALSE] /\ t \in Threads
  BY DEF CompletionEnds, At
<1>2. Stand(t) BY <1>1 DEF Stand
<1>3. ThreadInv(k', ctx', isr', loop', kind') BY <1>1, <1>2, ReturnDoes
<1>4. kind = "completion" /\ FALSE \in BOOLEAN BY <1>1, OpKind
<1>. QED BY <1>1, <1>3, <1>4, DoneInv

(* At most one thread waits, so that nobody waits when one was resumed.     *)
LEMMA LastWaiter ==
    ASSUME NEW j, Sound(j), NEW c, WaitersSound(j, c, "completion"), NEW n, NEW u, Woke(j, n, u),
           u \in ToSet(j.list["wait"])
    PROVE n.list["wait"] = <<>>
<1>1. "wait" \in WaitLists /\ "wait" \in {"wait", "send"} BY DEF WaitLists
<1>2. ToSet(n.list["wait"]) = ToSet(j.list["wait"]) \ {u} /\ Sound(n) BY <1>1 DEF Woke
<1>3. SUFFICES ASSUME n.list["wait"] # <<>> PROVE FALSE OBVIOUS
<1>4. PICK v \in Threads : v \in ToSet(n.list["wait"]) BY <1>1, <1>2, <1>3, HeadWaits
<1>5. v \in ToSet(j.list["wait"]) /\ v # u BY <1>2, <1>4
<1>6. u \in Threads
  <2>1. u \in Everyone /\ j.stat[u] = "suspend"
    <3>1. j.list["wait"] \in Seq(Everyone) BY <1>1, FieldsOf DEF Sound
    <3>2. ToSet(j.list["wait"]) \subseteq Everyone BY <3>1, Members
    <3>. QED BY <3>2 DEF Sound, ListsSound
  <2>. QED BY <2>1 DEF Sound, QueuesSound, Awake, Everyone
<1>7. c[u].op = "done" /\ c[v].op = "done" BY <1>4, <1>5, <1>6 DEF WaitersSound, WaitOp
<1>. QED BY <1>4, <1>5, <1>6, <1>7 DEF WaitersSound
LEMMA IsrDoneKeeps ==
    ASSUME IpcInv, loop = "none", IsrDone
    PROVE IpcInv'
<1>1. /\ kind = "completion" /\ obj' = [obj EXCEPT !.flag = TRUE] /\ UNCHANGED <<kind, ctx, isr, loop, owed, mail>>
      /\ k' = IF k.list["wait"] # <<>> THEN Schedule(ResumeThread(k, Head(k.list["wait"]))) ELSE k
  BY DEF IsrDone
<1>2. TRUE \in BOOLEAN /\ "wait" \in {"wait", "send"} /\ "wait" \in WaitLists BY DEF WaitLists
<1>3. CASE k.list["wait"] # <<>>
  <2>1. PICK u : u = Head(k.list["wait"]) OBVIOUS
  <2>2. PICK w : w = ResumeThread(k, u) OBVIOUS
  <2>3. k' = Schedule(w) BY <1>1, <1>3, <2>1, <2>2
  <2>4. Sound(k) /\ CoreInv(k, ctx, isr, "none", kind) BY InvParts
  <2>5. u \in Everyone /\ k.stat[u] = "suspend" /\ u \in ToSet(k.list["wait"]) BY <1>2, <1>3, <2>1, <2>4, HeadWaits
  <2>6. Woke(k, w, u) /\ w.current = k.current BY <2>2, <2>4, <2>5, ResumeIs
  <2>7. ThreadInv(k', ctx, isr, "none", kind) /\ Woke(k, k', u) BY <2>3, <2>4, <2>5, <2>6, InterruptResumes
  <2>8. ThreadInv(k', ctx', isr', loop', kind') BY <1>1, <2>7
  <2>9. WaitersSound(k, ctx, "completion") BY <1>1, <2>4 DEF CoreInv
  <2>10. k'.list["wait"] = <<>> BY <2>4, <2>5, <2>7, <2>9, LastWaiter
  <2>. QED BY <1>1, <1>2, <2>8, <2>10, DoneInv
<1>4. CASE k.list["wait"] = <<>>
  <2>1. k' = k BY <1>1, <1>4
  <2>2. ThreadInv(k', ctx', isr', loop', kind') BY <1>1, <2>1, InvParts
  <2>3. k'.list["wait"] = <<>> BY <1>4, <2>1
  <2>. QED BY <1>1, <1>2, <2>2, <2>3, DoneInv
<1>. QED BY <1>3, <1>4

----------------------------------------------------------------------------
(* At the start main runs, the idle thread is ready, and the others are not *)
(* started.                                                                 *)
LEMMA InitFields ==
    ASSUME NEW a \in Assignments, NEW j, j = KernelInit(a)
    PROVE /\ j.current = Main /\ j.group = {LastPriority} /\ j.timers = <<>> /\ j.tick = 0 /\ j.lock = 0
          /\ j.prio = [t \in Everyone |-> IF t = Idle THEN LastPriority ELSE a[t]]
          /\ j.stat = [t \in Everyone |-> CASE t = Main -> "running" [] t = Idle -> "ready" [] OTHER -> "init"]
          /\ j.yield = [t \in Everyone |-> FALSE] /\ j.error = [t \in Everyone |-> "ok"]
          /\ j.ready = [p \in Priorities |-> IF p = LastPriority THEN <<Idle>> ELSE <<>>]
          /\ j.list = [l \in WaitLists |-> <<>>]
BY DEF KernelInit
LEMMA InitThreads ==
    /\ Main \in Threads /\ Main \in Everyone /\ Idle \in Everyone /\ Main # Idle
    /\ LastPriority \in Priorities /\ LastPriority \in Nat /\ Priorities \subseteq Nat
    /\ Assignments \subseteq [Threads -> 0..LastPriority - 1]
BY KernelAssumption DEF Everyone, Priorities
LEMMA InitKernel ==
    ASSUME NEW a \in Assignments, NEW j, j = KernelInit(a)
    PROVE /\ j \in Kernels /\ j.stat[Main] = "running" /\ j.stat[Idle] = "ready"
          /\ \A t \in Everyone : t # Main /\ t # Idle => j.stat[t] = "init"
          /\ \A t \in Threads : j.prio[t] \in Nat /\ j.prio[t] < LastPriority
          /\ j.prio[Idle] = LastPriority
<1>1. /\ j.current = Main /\ j.group = {LastPriority} /\ j.timers = <<>> /\ j.tick = 0 /\ j.lock = 0
      /\ j.prio = [t \in Everyone |-> IF t = Idle THEN LastPriority ELSE a[t]]
      /\ j.stat = [t \in Everyone |-> CASE t = Main -> "running" [] t = Idle -> "ready" [] OTHER -> "init"]
      /\ j.yield = [t \in Everyone |-> FALSE] /\ j.error = [t \in Everyone |-> "ok"]
      /\ j.ready = [p \in Priorities |-> IF p = LastPriority THEN <<Idle>> ELSE <<>>]
      /\ j.list = [l \in WaitLists |-> <<>>]
  BY InitFields
<1>2. \A t \in Threads : a[t] \in 0..LastPriority - 1 BY InitThreads
<1>3. \A t \in Threads : t # Idle /\ t \in Everyone BY KernelAssumption DEF Everyone
<1>4. \A t \in Threads : j.prio[t] = a[t] BY <1>1, <1>3
<1>5. \A t \in Threads : j.prio[t] \in Nat /\ j.prio[t] < LastPriority BY <1>2, <1>4, InitThreads
<1>6. j.prio[Idle] = LastPriority BY <1>1, InitThreads
<1>7. j.prio \in [Everyone -> Priorities]
  <2>1. \A t \in Everyone : (IF t = Idle THEN LastPriority ELSE a[t]) \in Priorities
    BY <1>2, InitThreads DEF Everyone, Priorities
  <2>. QED BY <1>1, <2>1
<1>8. j.stat[Main] = "running" /\ j.stat[Idle] = "ready" BY <1>1, InitThreads
<1>9. \A t \in Everyone : t # Main /\ t # Idle => j.stat[t] = "init" BY <1>1
<1>10. j.stat \in [Everyone -> Stats] BY <1>1 DEF Stats
<1>11. j.yield \in [Everyone -> BOOLEAN] BY <1>1
<1>12. j.error \in [Everyone -> Errors] BY <1>1 DEF Errors
<1>13. j.ready \in [Priorities -> Seq(Everyone)]
  <2>1. <<Idle>> \in Seq(Everyone) /\ <<>> \in Seq(Everyone) BY InitThreads
  <2>. QED BY <1>1, <2>1
<1>14. j.list \in [WaitLists -> Seq(Everyone)]
  <2>1. <<>> \in Seq(Everyone) OBVIOUS
  <2>. QED BY <1>1, <2>1
<1>15. j.timers \in Seq(Timers) BY <1>1
<1>16. j.tick \in 0..TickWidth - 1 /\ j.lock \in {0, 1} BY <1>1, Halves
<1>17. j.current \in Everyone /\ j.group \in SUBSET Priorities BY <1>1, InitThreads
<1>18. j = [current |-> j.current, prio |-> j.prio, stat |-> j.stat, yield |-> j.yield, ready |-> j.ready,
            group |-> j.group, error |-> j.error, list |-> j.list, timers |-> j.timers, tick |-> j.tick,
            lock |-> j.lock]
  BY DEF KernelInit
<1>19. j \in Kernels BY <1>7, <1>10, <1>11, <1>12, <1>13, <1>14, <1>15, <1>16, <1>17, <1>18 DEF Kernels
<1>. QED BY <1>5, <1>6, <1>8, <1>9, <1>19

LEMMA InitSound ==
    ASSUME NEW a \in Assignments, NEW j, j = KernelInit(a)
    PROVE Sound(j) /\ \A l \in WaitLists : j.list[l] = <<>> /\ ToSet(j.list[l]) = {}
<1>1. /\ j \in Kernels /\ j.stat[Main] = "running" /\ j.stat[Idle] = "ready"
      /\ \A t \in Everyone : t # Main /\ t # Idle => j.stat[t] = "init"
      /\ \A t \in Threads : j.prio[t] \in Nat /\ j.prio[t] < LastPriority
      /\ j.prio[Idle] = LastPriority
  BY InitKernel
<1>2. /\ j.current = Main /\ j.group = {LastPriority} /\ j.timers = <<>> /\ j.tick = 0 /\ j.lock = 0
      /\ j.ready = [p \in Priorities |-> IF p = LastPriority THEN <<Idle>> ELSE <<>>]
      /\ j.list = [l \in WaitLists |-> <<>>]
  BY InitFields
<1>3. ToSet(<<>>) = {} /\ IsInjective(<<>>) BY DEF ToSet, IsInjective
<1>4. ToSet(<<Idle>>) = {Idle} /\ IsInjective(<<Idle>>) /\ <<Idle>> # <<>> BY DEF ToSet, IsInjective
<1>5. \A t \in Everyone : j.stat[t] = "ready" <=> t = Idle BY <1>1, InitThreads
<1>6. QueuesMatch(j.ready, j.group, j.stat, j.prio)
  <2>1. \A p \in Priorities : IsInjective(j.ready[p]) BY <1>2, <1>3, <1>4
  <2>2. ASSUME NEW p \in Priorities
        PROVE ToSet(j.ready[p]) = {t \in Everyone : j.stat[t] = "ready" /\ j.prio[t] = p}
    <3>1. \A t \in Everyone : j.stat[t] = "ready" /\ j.prio[t] = p <=> t = Idle /\ p = LastPriority BY <1>1, <1>5
    <3>2. CASE p = LastPriority BY <1>2, <1>4, <3>1, <3>2, InitThreads
    <3>3. CASE p # LastPriority BY <1>2, <1>3, <3>1, <3>3
    <3>. QED BY <3>2, <3>3
  <2>3. j.group = {p \in Priorities : j.ready[p] # <<>>}
    <3>1. \A p \in Priorities : j.ready[p] # <<>> <=> p = LastPriority BY <1>2, <1>4
    <3>. QED BY <1>2, <3>1, InitThreads
  <2>. QED BY <2>1, <2>2, <2>3 DEF QueuesMatch
<1>7. QueuesSound(j)
  <2>1. \A t \in Everyone : j.stat[t] = "running" => t = j.current BY <1>1, <1>2
  <2>2. j.stat[j.current] # "ready" /\ Awake(j, Idle) BY <1>1, <1>2 DEF Awake
  <2>. QED BY <1>6, <2>1, <2>2 DEF QueuesSound
<1>8. \A l \in WaitLists : j.list[l] = <<>> /\ ToSet(j.list[l]) = {} BY <1>2, <1>3
<1>9. ListsSound(j)
  <2>1. "wait" \in WaitLists /\ "send" \in WaitLists /\ "dead" \in WaitLists BY DEF WaitLists
  <2>2. \A l \in WaitLists : IsInjective(j.list[l]) BY <1>3, <1>8
  <2>. QED BY <1>8, <2>1, <2>2 DEF ListsSound
<1>10. TimersSound(j) BY <1>2, <1>3 DEF TimersSound, Once, Sorted
<1>. QED BY <1>1, <1>7, <1>8, <1>9, <1>10 DEF Sound

LEMMA InitThreadInv ==
    ASSUME NEW a \in Assignments, NEW j, j = KernelInit(a), NEW c, c = [t \in Threads |-> AtUser], NEW kd
    PROVE ThreadInv(j, c, "none", "none", kd)
<1>1. Sound(j) /\ \A l \in WaitLists : j.list[l] = <<>> /\ ToSet(j.list[l]) = {} BY InitSound
<1>2. /\ j.stat[Main] = "running" /\ j.stat[Idle] = "ready"
      /\ \A t \in Everyone : t # Main /\ t # Idle => j.stat[t] = "init"
      /\ \A t \in Threads : j.prio[t] \in Nat /\ j.prio[t] < LastPriority
  BY InitKernel
<1>3. j.current = Main /\ j.group = {LastPriority} /\ j.timers = <<>> /\ j.lock = 0 BY InitFields
<1>4. "wait" \in WaitLists /\ "send" \in WaitLists BY DEF WaitLists
<1>5. \A t \in Threads : /\ c[t].pc = "user" /\ c[t].op = "none" /\ c[t].spent = 0 /\ c[t] \in CallsOf
  <2>1. 0 \in -1..Half - 1 /\ 0 \in 0..Half - 1 /\ 0 \in MailValues BY Halves DEF MailValues
  <2>2. AtUser \in CallsOf /\ AtUser.pc = "user" /\ AtUser.op = "none" /\ AtUser.spent = 0
    BY <2>1 DEF AtUser, CallsOf
  <2>. QED BY <2>2
<1>6. ToSet(j.timers) = {} BY <1>3 DEF ToSet
<1>7. Wakeable(j) BY <1>2 DEF Wakeable
<1>8. CurrentSound(j, c) BY <1>2, <1>3, <1>5 DEF CurrentSound
<1>9. CallsSound(c) BY <1>5 DEF CallsSound
<1>10. LoopSound(j, c, "none", "none", kd) BY DEF LoopSound
<1>11. WaitersSound(j, c, kd) BY <1>1, <1>4, <1>5 DEF WaitersSound
<1>12. TimedSound(j, c, "none") BY <1>6 DEF TimedSound
<1>13. Highest(j)
  <2>1. j.prio[Main] \in Nat /\ j.prio[Main] < LastPriority BY <1>2, InitThreads
  <2>. QED BY <1>3, <2>1, InitThreads DEF Highest
<1>14. HighSound(j, c, "none") BY <1>13 DEF HighSound
<1>15. CoreInv(j, c, "none", "none", kd) BY <1>1, <1>7, <1>8, <1>9, <1>10, <1>11, <1>12 DEF CoreInv
<1>. QED BY <1>14, <1>15 DEF ThreadInv

LEMMA InitObject ==
    ASSUME NEW o, o = [value |-> 0, pool |-> [i \in 0..Slots - 1 |-> 0], in |-> 0, out |-> 0,
                       entry |-> 0, free |-> Slots, held |-> 0, flag |-> FALSE]
    PROVE o \in Objs /\ MailSound(o, <<>>)
<1>1. 0 \in Cells /\ 0 \in 0..Slots /\ 0 \in Nat /\ Slots \in Nat /\ 0 \in MailValues /\ FALSE \in BOOLEAN
  BY SlotsAre DEF MailValues
<1>2. [i \in 0..Slots - 1 |-> 0] \in [Cells -> MailValues] BY <1>1, SlotsAre
<1>3. o \in Objs BY <1>1, <1>2 DEF Objs
<1>4. PICK p : p = [o EXCEPT !.entry = 0, !.in = 0, !.out = 0] OBVIOUS
<1>5. p = o
  <2>1. /\ p.value = o.value /\ p.pool = o.pool /\ p.in = 0 /\ p.out = 0 /\ p.entry = 0 /\ p.free = o.free
        /\ p.held = o.held /\ p.flag = o.flag /\ p \in Objs
    BY <1>1, <1>3, <1>4 DEF Objs
  <2>2. o.in = 0 /\ o.out = 0 /\ o.entry = 0 OBVIOUS
  <2>. QED BY <1>3, <2>1, <2>2 DEF Objs
<1>6. p \in Objs /\ MailSound(p, <<>>) BY <1>3, <1>4, Emptied
<1>. QED BY <1>3, <1>5, <1>6

LEMMA InitInv ==
    ASSUME IpcInit
    PROVE IpcInv
<1>1. PICK a \in Assignments : k = KernelInit(a) BY DEF IpcInit
<1>2. kind \in Objects /\ isr = "none" /\ loop = "none" /\ owed = 0 /\ mail = <<>> BY DEF IpcInit
<1>3. ctx = [t \in Threads |-> AtUser] BY DEF IpcInit
<1>4. obj \in Objs /\ MailSound(obj, mail)
  <2>1. obj \in Objs /\ MailSound(obj, <<>>) BY InitObject DEF IpcInit
  <2>. QED BY <1>2, <2>1
<1>5. ThreadInv(k, ctx, isr, loop, kind) BY <1>1, <1>2, <1>3, InitThreadInv
<1>6. k.list["wait"] = <<>> /\ k.list["send"] = <<>> BY <1>1, InitSound DEF WaitLists
<1>7. obj.value = 0 /\ obj.flag = FALSE BY DEF IpcInit
<1>8. Count(k, ctx, "take") = 0
  <2>1. \A t \in Threads : ctx[t].op = "none" BY <1>3 DEF AtUser
  <2>2. WokenOf(k, ctx, "take") = {} BY <2>1 DEF WokenOf
  <2>. QED BY <2>2, FS_EmptySet DEF Count
<1>9. NoLoss(k, ctx, kind, obj, owed)
  <2>1. SemSound(k, ctx, obj, owed) BY <1>2, <1>6, <1>7, <1>8 DEF SemSound
  <2>2. MailFlows(k, ctx, obj) /\ PoolFlows(k, ctx, obj) /\ DoneSound(k, obj)
    BY <1>6 DEF MailFlows, PoolFlows, DoneSound
  <2>. QED BY <2>1, <2>2 DEF NoLoss
<1>10. kind \in Kinds /\ owed \in Int BY <1>2, IpcAssumption DEF Kinds
<1>. QED BY <1>2, <1>4, <1>5, <1>9, <1>10 DEF IpcInv

----------------------------------------------------------------------------
(* Every step keeps the invariant.                                          *)
LEMMA ThreadStepKeeps ==
    ASSUME IpcInv, NEW t \in Threads, ThreadStep(t)
    PROVE IpcInv'
<1>1. CASE CallSchedule(t) BY <1>1, CallScheduleKeeps
<1>2. CASE WaitFails(t) BY <1>2, WaitFailsKeeps
<1>3. CASE \E n \in Timeouts[kind] : SemTake(t, n) \/ MbRecv(t, n) \/ MpAlloc(t, n) \/ CompletionWait(t, n)
                                       \/ Sleep(t, n)
  <2>1. PICK n \in Timeouts[kind] : SemTake(t, n) \/ MbRecv(t, n) \/ MpAlloc(t, n) \/ CompletionWait(t, n)
                                      \/ Sleep(t, n)
    BY <1>3
  <2>2. CASE SemTake(t, n) BY <2>2, SemTakeKeeps
  <2>3. CASE MbRecv(t, n) BY <2>3, MbRecvKeeps
  <2>4. CASE MpAlloc(t, n) BY <2>4, MpAllocKeeps
  <2>5. CASE CompletionWait(t, n) BY <2>5, CompletionWaitKeeps
  <2>6. CASE Sleep(t, n) BY <2>6, SleepKeeps
  <2>. QED BY <2>1, <2>2, <2>3, <2>4, <2>5, <2>6
<1>4. CASE \E n \in Timeouts[kind], value \in Mails : MbSendWait(t, n, value) BY <1>4, MbSendWaitKeeps
<1>5. CASE SemTaken(t) BY <1>5, SemTakenKeeps
<1>6. CASE SemRelease(t) BY <1>6, SemReleaseKeeps
<1>7. CASE MbAgain(t) BY <1>7, MbAgainKeeps
<1>8. CASE \E value \in Mails : MbUrgent(t, value) BY <1>8, MbUrgentKeeps
<1>9. CASE MbReset(t) BY <1>9, MbResetKeeps
<1>10. CASE MbResetEnds(t) BY <1>10, MbResetEndsKeeps
<1>11. CASE MpAgain(t) \/ MpRetries(t) BY <1>11, MpAgainKeeps, MpRetriesKeeps
<1>12. CASE MpFree(t) BY <1>12, MpFreeKeeps
<1>13. CASE CompletionEnds(t) BY <1>13, CompletionEndsKeeps
<1>14. CASE SleepMark(t) BY <1>14, SleepMarkKeeps
<1>15. CASE SleepEnds(t) BY <1>15, SleepEndsKeeps
<1>16. CASE Yield(t) BY <1>16, YieldKeeps
<1>17. CASE Lock(t) BY <1>17, LockKeeps
<1>18. CASE Unlock(t) BY <1>18, UnlockKeeps
<1>19. CASE Startup(t) BY <1>19, StartupKeeps
<1>. QED
  BY <1>1, <1>2, <1>3, <1>4, <1>5, <1>6, <1>7, <1>8, <1>9, <1>10, <1>11, <1>12, <1>13, <1>14, <1>15, <1>16,
     <1>17, <1>18, <1>19 DEF ThreadStep

LEMMA IpcStepKeeps ==
    ASSUME IpcInv, IpcNext
    PROVE IpcInv'
<1>1. CASE \E t \in Threads : ThreadStep(t) BY <1>1, ThreadStepKeeps
<1>2. CASE MainReturns BY <1>2, MainReturnsKeeps
<1>3. CASE DefunctExecute BY <1>3, DefunctKeeps
<1>4. CASE Interrupt
  <2>1. loop = "none" BY <1>4 DEF Interrupt
  <2>2. CASE Tick BY <2>1, <2>2, TickKeeps
  <2>3. CASE IsrRelease BY <2>1, <2>3, IsrReleaseKeeps
  <2>4. CASE IsrReset BY <2>1, <2>4, IsrResetKeeps
  <2>5. CASE \E value \in Mails : IsrSend(value) BY <2>1, <2>5, IsrSendKeeps
  <2>6. CASE IsrFree BY <2>1, <2>6, IsrFreeKeeps
  <2>7. CASE IsrDone BY <2>1, <2>7, IsrDoneKeeps
  <2>. QED BY <1>4, <2>2, <2>3, <2>4, <2>5, <2>6, <2>7 DEF Interrupt
<1>5. CASE CheckTimer BY <1>5, CheckTimerKeeps
<1>6. CASE TimersChecked BY <1>6, TimersCheckedKeeps
<1>7. CASE ResumeOne BY <1>7, ResumeOneKeeps
<1>8. CASE SemResetEnds BY <1>8, SemResetEndsKeeps
<1>. QED BY <1>1, <1>2, <1>3, <1>4, <1>5, <1>6, <1>7, <1>8 DEF IpcNext

LEMMA IpcStutters ==
    ASSUME IpcInv, UNCHANGED ipcVars
    PROVE IpcInv'
<1>1. UNCHANGED <<k, kind, obj, ctx, isr, loop, owed, mail>> BY DEF ipcVars
<1>2. /\ kind \in Objects /\ kind \in Kinds /\ ThreadInv(k, ctx, isr, loop, kind)
      /\ obj \in Objs /\ owed \in Int /\ MailSound(obj, mail) /\ NoLoss(k, ctx, kind, obj, owed)
  BY InvParts
<1>3. ThreadInv(k', ctx', isr', loop', kind') BY <1>1, <1>2
<1>4. MailSound(obj', mail') /\ NoLoss(k', ctx', kind', obj', owed') BY <1>1, <1>2
<1>. QED BY <1>1, <1>2, <1>3, <1>4, InvFrom

(* Every list, timer, call, count and message is where the next step of the *)
(* kernel expects it.                                                       *)
THEOREM IpcInvariant == Spec => []IpcInv
<1>1. Init => IpcInv BY InitInv DEF Init, IpcQuiet
<1>2. IpcInv /\ [Next]_vars => IpcInv'
  <2>1. SUFFICES ASSUME IpcInv, [Next]_vars PROVE IpcInv' OBVIOUS
  <2>2. CASE IpcNext BY <2>1, <2>2, IpcStepKeeps
  <2>3. CASE UNCHANGED ipcVars BY <2>1, <2>3, IpcStutters
  <2>. QED BY <2>1, <2>2, <2>3 DEF Next, vars
<1>. QED BY <1>1, <1>2, PTL DEF Spec

----------------------------------------------------------------------------
(* What the runs check.                                                     *)
LEMMA AccountedFrom ==
    ASSUME IpcInv
    PROVE ThreadsAccounted
<1>1. Sound(k) /\ CoreInv(k, ctx, isr, loop, kind) BY InvParts
<1>2. k \in Kernels /\ QueuesSound(k) /\ ListsSound(k) /\ TimersSound(k) /\ Wakeable(k) /\ CurrentSound(k, ctx)
  BY <1>1 DEF Sound, CoreInv
<1>3. QueuesMatch(k.ready, k.group, k.stat, k.prio) BY <1>2 DEF QueuesSound
<1>4. /\ k.prio \in [Everyone -> Priorities] /\ k.stat \in [Everyone -> Stats] /\ k.timers \in Seq(Timers)
      /\ k.list \in [WaitLists -> Seq(Everyone)]
  BY <1>2, FieldsOf
<1>5. \A t \in Everyone : Queues(t) = IF k.stat[t] = "ready" THEN {k.prio[t]} ELSE {}
  <2>1. SUFFICES ASSUME NEW t \in Everyone PROVE Queues(t) = IF k.stat[t] = "ready" THEN {k.prio[t]} ELSE {} OBVIOUS
  <2>2. k.prio[t] \in Priorities BY <1>4
  <2>3. \A p \in Priorities : t \in ToSet(k.ready[p]) <=> k.stat[t] = "ready" /\ k.prio[t] = p BY <1>3 DEF QueuesMatch
  <2>. QED BY <2>2, <2>3 DEF Queues
<1>6. \A t \in Everyone : Timed(t) <=> \E m \in ToSet(k.timers) : m.t = t
  <2>1. \A x : x \in ToSet(k.timers) <=> \E i \in 1..Len(k.timers) : k.timers[i] = x BY <1>4, Members
  <2>. QED BY <2>1 DEF Timed
<1>7. \A t \in Everyone : Timed(t) => k.stat[t] = "suspend" BY <1>2, <1>6 DEF TimersSound
<1>8. "wait" \in WaitLists /\ "send" \in WaitLists /\ "dead" \in WaitLists /\ WaitLists = {"wait", "send", "dead"}
  BY DEF WaitLists
<1>9. \A t \in Everyone :
        /\ k.stat[t] = "suspend" => Lists(t) \in {{}, {"wait"}, {"send"}} /\ "dead" \notin Lists(t)
        /\ k.stat[t] = "close" => Lists(t) \in {{}, {"dead"}}
        /\ k.stat[t] \notin {"suspend", "close"} => Lists(t) = {}
  <2>1. SUFFICES ASSUME NEW t \in Everyone
                 PROVE /\ k.stat[t] = "suspend" => Lists(t) \in {{}, {"wait"}, {"send"}} /\ "dead" \notin Lists(t)
                       /\ k.stat[t] = "close" => Lists(t) \in {{}, {"dead"}}
                       /\ k.stat[t] \notin {"suspend", "close"} => Lists(t) = {}
    OBVIOUS
  <2>2. /\ t \in ToSet(k.list["wait"]) => k.stat[t] = "suspend" /\ t \notin ToSet(k.list["send"])
        /\ t \in ToSet(k.list["send"]) => k.stat[t] = "suspend"
        /\ t \in ToSet(k.list["dead"]) => k.stat[t] = "close"
    BY <1>2 DEF ListsSound
  <2>3. Lists(t) \subseteq {"wait", "send", "dead"} BY DEF Lists, WaitLists
  <2>4. /\ "wait" \in Lists(t) <=> t \in ToSet(k.list["wait"])
        /\ "send" \in Lists(t) <=> t \in ToSet(k.list["send"])
        /\ "dead" \in Lists(t) <=> t \in ToSet(k.list["dead"])
    BY <1>8 DEF Lists
  <2>. QED BY <2>2, <2>3, <2>4
<1>10. ASSUME NEW t \in Everyone, k.stat[t] = "suspend" PROVE Lists(t) # {} \/ Timed(t)
  <2>1. t \in ToSet(k.list["wait"]) \cup ToSet(k.list["send"]) \/ \E m \in ToSet(k.timers) : m.t = t
    BY <1>2, <1>10 DEF Wakeable
  <2>. QED BY <1>6, <1>8, <2>1 DEF Lists
<1>11. ASSUME NEW t \in Everyone, k.stat[t] = "suspend", t = k.current PROVE ctx[t].pc \in {"mark", "sched"}
  BY <1>2, <1>11 DEF CurrentSound
<1>12. \A t \in Everyone :
         CASE k.stat[t] = "running" -> t = k.current /\ Queues(t) = {} /\ Lists(t) = {} /\ ~Timed(t)
           [] k.stat[t] = "ready"   -> t # k.current /\ Queues(t) = {k.prio[t]} /\ Lists(t) = {} /\ ~Timed(t)
           [] k.stat[t] = "suspend" -> /\ Queues(t) = {} /\ Lists(t) \in {{}, {"wait"}, {"send"}}
                                       /\ Lists(t) # {} \/ Timed(t)
                                       /\ t = k.current => ctx[t].pc \in {"mark", "sched"}
           [] k.stat[t] = "init"    -> Queues(t) = {} /\ Lists(t) = {} /\ ~Timed(t)
           [] k.stat[t] = "close"   -> Queues(t) = {} /\ Lists(t) \in {{}, {"dead"}} /\ ~Timed(t)
  <2>1. TAKE t \in Everyone
  <2>2. k.stat[t] \in {"init", "ready", "running", "suspend", "close"} BY <1>4 DEF Stats
  <2>3. k.stat[t] = "running" => t = k.current BY <1>2 DEF QueuesSound
  <2>4. k.stat[t] = "ready" => t # k.current BY <1>2 DEF QueuesSound
  <2>5. Queues(t) = IF k.stat[t] = "ready" THEN {k.prio[t]} ELSE {} BY <1>5
  <2>6. Timed(t) => k.stat[t] = "suspend" BY <1>7
  <2>7. /\ k.stat[t] = "suspend" => Lists(t) \in {{}, {"wait"}, {"send"}}
        /\ k.stat[t] = "close" => Lists(t) \in {{}, {"dead"}}
        /\ k.stat[t] \notin {"suspend", "close"} => Lists(t) = {}
    BY <1>9
  <2>8. k.stat[t] = "suspend" => Lists(t) # {} \/ Timed(t) BY <1>10
  <2>9. k.stat[t] = "suspend" /\ t = k.current => ctx[t].pc \in {"mark", "sched"} BY <1>11
  <2>10. CASE k.stat[t] = "running" BY <2>3, <2>5, <2>6, <2>7, <2>10
  <2>11. CASE k.stat[t] = "ready" BY <2>4, <2>5, <2>6, <2>7, <2>11
  <2>12. CASE k.stat[t] = "suspend" BY <2>5, <2>7, <2>8, <2>9, <2>12
  <2>13. CASE k.stat[t] = "init" BY <2>5, <2>6, <2>7, <2>13
  <2>14. CASE k.stat[t] = "close" BY <2>5, <2>6, <2>7, <2>14
  <2>. QED BY <2>2, <2>10, <2>11, <2>12, <2>13, <2>14
<1>13. \A i, j \in 1..Len(k.timers) : k.timers[i].t = k.timers[j].t => i = j BY <1>2 DEF TimersSound, Once
<1>14. \A l \in WaitLists : IsInjective(k.list[l]) BY <1>2 DEF ListsSound
<1>15. (\A p \in Priorities : IsInjective(k.ready[p])) /\ k.group = {p \in Priorities : k.ready[p] # <<>>}
  BY <1>3 DEF QueuesMatch
<1>. QED BY <1>12, <1>13, <1>14, <1>15 DEF ThreadsAccounted

LEMMA HighestFrom ==
    ASSUME IpcInv
    PROVE HighestRuns
<1>1. HighSound(k, ctx, loop) BY InvParts
<1>. QED BY <1>1 DEF HighestRuns, HighSound, Highest, Runs

LEMMA InTimeFrom ==
    ASSUME IpcInv
    PROVE TimersInTime
<1>1. Sound(k) /\ TimedSound(k, ctx, isr) BY InvParts DEF CoreInv
<1>2. k \in Kernels /\ TimersSound(k) BY <1>1 DEF Sound
<1>3. k.timers \in Seq(Timers) /\ k.tick \in 0..TickWidth - 1 BY <1>2, FieldsOf
<1>4. Len(k.timers) \in Nat BY <1>3, Members
<1>5. \A i, j \in 1..Len(k.timers) : i < j => Before(k.tick, k.timers[i].at) <= Before(k.tick, k.timers[j].at)
  BY <1>2, <1>4 DEF TimersSound, Sorted
<1>6. ASSUME NEW i \in 1..Len(k.timers), NEW m, m = k.timers[i]
      PROVE /\ Before(k.tick, m.at) < Half /\ (isr = "none" => m.at # k.tick)
            /\ ctx[m.t].op # "sleep" => Before(k.tick, m.at) <= ctx[m.t].left
            /\ ctx[m.t].op \in Retried => Before(k.tick, m.at) = Left(m.t)
  <2>1. m \in ToSet(k.timers) BY <1>3, <1>6, Members
  <2>2. Remaining(k, m) = Before(k.tick, m.at) BY DEF Remaining
  <2>3. Remaining(k, m) < Half BY <1>2, <2>1 DEF TimersSound
  <2>4. TimedOne(Remaining(k, m), ctx[m.t], isr) BY <1>1, <2>1 DEF TimedSound
  <2>5. ASSUME isr = "none" PROVE m.at # k.tick
    <3>1. Before(k.tick, m.at) >= 1 BY <2>2, <2>4, <2>5 DEF TimedOne
    <3>2. Before(k.tick, k.tick) = 0 BY <1>3, BeforeIs
    <3>. QED BY <3>1, <3>2
  <2>. QED BY <2>2, <2>3, <2>4, <2>5 DEF TimedOne, Left
<1>. QED BY <1>5, <1>6 DEF TimersInTime

LEMMA NoneLostFrom ==
    ASSUME IpcInv
    PROVE NoWakeupLost
<1>1. NoLoss(k, ctx, kind, obj, owed) BY InvParts
<1>2. /\ Woken("take") = Count(k, ctx, "take") /\ Woken("recv") = Count(k, ctx, "recv")
      /\ Woken("send") = Count(k, ctx, "send") /\ Woken("alloc") = Count(k, ctx, "alloc")
  BY DEF Woken, Count, WokenOf
<1>. QED BY <1>1, <1>2 DEF NoWakeupLost, NoLoss, SemSound, MailFlows, PoolFlows, DoneSound

(* Every thread is where its state says and nowhere else, and something is  *)
(* there to wake each one that is suspended.                                *)
THEOREM EveryThreadAccounted == Spec => []ThreadsAccounted
<1>1. IpcInv => ThreadsAccounted BY AccountedFrom
<1>. QED BY <1>1, IpcInvariant, PTL

(* Whatever makes a thread ready, from a thread or an interrupt, is         *)
(* followed by rt_schedule before any thread runs its own code again.       *)
THEOREM HighestAlwaysRuns == Spec => []HighestRuns
<1>1. IpcInv => HighestRuns BY HighestFrom
<1>. QED BY <1>1, IpcInvariant, PTL

(* The timers are in the order in which they are due, for every width of    *)
(* the tick counter, and a wait is never longer than what it was given.     *)
THEOREM TimersAlwaysInTime == Spec => []TimersInTime
<1>1. IpcInv => TimersInTime BY InTimeFrom
<1>. QED BY <1>1, IpcInvariant, PTL

(* Nobody sleeps over a release, a message, room in the mailbox, a block or *)
(* a completion that is there for him.                                      *)
THEOREM NoWakeupEverLost == Spec => []NoWakeupLost
<1>1. IpcInv => NoWakeupLost BY NoneLostFrom
<1>. QED BY <1>1, IpcInvariant, PTL

(* The messages are in the ring of the mailbox in the order they were sent. *)
THEOREM MailAlwaysInOrder == Spec => []MailInOrder
<1>1. IpcInv => MailInOrder BY InvParts DEF MailInOrder, MailSound
<1>. QED BY <1>1, IpcInvariant, PTL

=============================================================================

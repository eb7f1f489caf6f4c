---------------------------- MODULE BoundedFifo ----------------------------
(***************************************************************************)
(* What a ring buffer is for: a queue of at most Capacity bytes.           *)
(***************************************************************************)
EXTENDS Integers, Sequences

CONSTANTS
  Capacity,  (* how many bytes the queue holds                             *)
  Values,    (* the bytes                                                  *)
  Packets    (* the sequences of bytes callers put                         *)

VARIABLES
  queue,     (* the bytes, oldest first                                    *)
  out,       (* the bytes the last read returned                           *)
  call       (* the operation last called                                  *)

vars == <<queue, out, call>>

Room == Capacity - Len(queue)
Front(s, n) == SubSeq(s, 1, n)
Last(s, n)  == SubSeq(s, Len(s) - n + 1, Len(s))
AtMost(a, b) == IF a < b THEN a ELSE b

Init == queue = << >> /\ out = << >> /\ call = "clear"

(* Append what fits. *)
Put(d) ==
  /\ queue' = queue \o Front(d, AtMost(Room, Len(d)))
  /\ call' = "put" /\ UNCHANGED out

(* Append everything and forget the oldest bytes. *)
PutForce(d) ==
  /\ LET s == queue \o d IN queue' = Last(s, AtMost(Capacity, Len(s)))
  /\ call' = "putForce" /\ UNCHANGED out

(* Bytes that somebody else stored become part of the queue. *)
Commit(n) ==
  /\ \E d \in [1 .. AtMost(Room, n) -> Values] : queue' = queue \o d
  /\ call' = "commit" /\ UNCHANGED out

(* Take the n oldest bytes. *)
Take(n) ==
  /\ n \in 0 .. Len(queue)
  /\ out' = Front(queue, n)
  /\ queue' = SubSeq(queue, n + 1, Len(queue))
  /\ call' = "take"

Clear == queue' = << >> /\ call' = "clear" /\ UNCHANGED out

Next ==
  \/ Clear
  \/ \E d \in Packets : Put(d) \/ PutForce(d)
  \/ \E v \in Values : Put(<<v>>) \/ PutForce(<<v>>)
  \/ \E n \in 0 .. Capacity : Commit(n) \/ Take(n)

Spec == Init /\ [][Next]_vars
=============================================================================

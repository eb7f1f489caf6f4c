------------------------------ MODULE MCRtSystem ----------------------------
(* Small instances of RtSystem for TLC.                                        *)
EXTENDS RtSystem
CONSTANTS main, idle, first, second, third, zero, one, note, card

(* Waits for ever, not at all and for two ticks.                            *)
SomeTimeouts == [o \in Objects |-> CASE o = "mailbox" -> {-1, 0} [] o = "pool" -> {0, 2} [] OTHER -> {-1, 0, 2}]

(* Two threads above main, of one priority or of two.                       *)
TwoOrder == <<first, second>>
TwoAssigned == {(first :> a) @@ (second :> 0) @@ (main :> 2) : a \in {0, 1}}

(* With the completion, a thread also sleeps, yields and locks.             *)
OneSleeper == [o \in Objects |-> IF o = "completion" THEN {first} ELSE {}]

(* Three threads of one priority.                                           *)
ThreeOrder == <<first, second, third>>
AllSleep == [o \in Objects |-> {first, second, third}]
OnePriority == {[t \in {first, second, third} |-> 0] @@ (main :> 1)}

(* A message is only stored and handed on.                                  *)
MailsAlike == Permutations({note, card})

(* A ring over two values, with packets up to one byte longer than it:      *)
(* all that are short, and those that alternate.                            *)
TwoValues == {zero, one}
SomePackets == UNION {[1..n -> TwoValues] : n \in 0..2}
    \cup {[i \in 1..n |-> IF i % 2 = 0 THEN one ELSE v] : n \in 3..Size + 1, v \in TwoValues}
=============================================================================

----------------------------- MODULE DapService -----------------------------
(***************************************************************************)
(* What the probe promises a CMSIS-DAP host: requests are accepted one     *)
(* after the other, each gets one response, responses come in the order of *)
(* the requests, and at most Window requests wait for theirs.              *)
(***************************************************************************)
EXTENDS Naturals, Sequences

CONSTANT Window

VARIABLES
  accepted,  (* how many requests were accepted: they are 1..accepted      *)
  answered   (* the numbers of the requests answered so far                *)

vars == <<accepted, answered>>

Init == accepted = 0 /\ answered = << >>

Accept ==
  /\ accepted - Len(answered) < Window
  /\ accepted' = accepted + 1
  /\ UNCHANGED answered

Answer ==
  /\ Len(answered) < accepted
  /\ answered' = Append(answered, Len(answered) + 1)
  /\ UNCHANGED accepted

Next == Accept \/ Answer

Spec == Init /\ [][Next]_vars
=============================================================================

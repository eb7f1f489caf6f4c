---------------------------- MODULE RtCompletion ----------------------------
(***************************************************************************)
(* The completion object of rt-thread/ipc/completion.c, as operators on a  *)
(* record: its flag, and whether a thread is on its suspended list.        *)
(***************************************************************************)

Completion == [done : BOOLEAN, waiter : BOOLEAN]

(* rt_completion_init: the suspended list is made empty without resuming   *)
(* the thread that is on it.                                               *)
Fresh == [done |-> FALSE, waiter |-> FALSE]

(* rt_completion_wait: the caller goes on at once, or is suspended. *)
Suspend(c) == [c EXCEPT !.waiter = TRUE]
Consume(c) == [c EXCEPT !.done = FALSE]

(* rt_completion_done: nothing happens to an object already done; else the *)
(* waiting thread, if there is one, is resumed.                            *)
Resumes(c)  == ~c.done /\ c.waiter
Complete(c) == IF c.done THEN c ELSE [done |-> TRUE, waiter |-> FALSE]
=============================================================================

------------------------------ MODULE SwdWire ------------------------------
(* One call of dap_swd_read or dap_swd_write (cmsis-dap/swd.c), clock by    *)
(* clock.  The quick and the slow functions differ in delays only and are   *)
(* one program here.  The probe works off a list of phases; the target,     *)
(* external, follows the SWD protocol with a list of its own.  A phase says *)
(* how many clocks are left of it.  Whether both lists stay in step, and    *)
(* whether the return value is true, are the questions.                     *)
EXTENDS Naturals, Sequences, FiniteSets

CONSTANTS
    Requests, \* values of request, as sets of bit positions
    Words,    \* words read or written, as sets of bit positions
    Trns,     \* values of swd_control.trn
    Idles,    \* values of swd_control.idle
    Limits    \* values of swd_control.retry_limit

ASSUME SwdAssumption ==
    /\ Requests \subseteq SUBSET (0..7) /\ Words \subseteq SUBSET (0..31)
    /\ Trns \subseteq 1..14 /\ Idles \subseteq 0..192 /\ Limits \subseteq Nat

VARIABLES
    call,     \* arguments and settings of the call, and the board's resistor
    todo,     \* the probe's phases of this attempt
    tries,    \* retry
    ack,      \* temp after the three ack bits, "" before
    result,   \* what the call returned, "" before
    target,   \* the target's phases; empty when it waits for a start bit
    answer,   \* the target's last answer, and how often it did the transfer
    performed
swdVars == <<call, todo, tries, ack, result, target, answer, performed>>

(* Parity, folded by exclusive or of the shifted value with itself.         *)
Xor(s, t) == (s \ t) \cup (t \ s)
Shifted(s, k) == {i - k : i \in {j \in s : j >= k}}
Fold(s, k) == Xor(s, Shifted(s, k))
Parity4(s) == IF 0 \in Fold(Fold(s, 2), 1) THEN 1 ELSE 0
Parity32Short(s) == IF 0 \in Fold(Fold(Fold(Fold(s, 8), 4), 2), 1) THEN 1 ELSE 0
Parity32(s) == IF 0 \in Fold(Fold(Fold(Fold(Fold(s, 16), 8), 4), 2), 1) THEN 1 ELSE 0

(* The request byte: start, the four request bits, parity, stop, park.      *)
Header(request) ==
    {i + 1 : i \in request \cap 0..3} \cup {0, 7} \cup (IF Parity4(request) = 1 THEN {5} ELSE {})
IsWrite(request) == 1 \notin request

(* What the target takes for a request.                                     *)
Valid(header) ==
    /\ {0, 7} \subseteq header /\ 6 \notin header
    /\ Cardinality(header \cap 1..5) % 2 = 0

Acks == {"OK", "WAIT", "FAULT"}
Calls == [request : Requests, data : Words, parityError : BOOLEAN, force : BOOLEAN,
          trn : Trns, idle : Idles, limit : Limits, pullUp : BOOLEAN]

Phase(p, clocks) == [phase |-> p, n |-> clocks]
Then(p, clocks, phases) == <<Phase(p, clocks)>> \o phases
Tick(phases) ==
    LET p == Head(phases) IN
    IF p.n = 1 THEN Tail(phases) ELSE Then(p.phase, p.n - 1, Tail(phases))
Now(phases) == IF phases = <<>> THEN Phase("idle", 0) ELSE Head(phases)

(* The probe up to the acknowledge.                                         *)
Attempt(c) == Then("request", 8, Then("trn", c.trn, Then("ack", 3, <<>>)))

(* The probe after it.  "clock" is a phase in which nobody looks at or      *)
(* drives the line; there may be no idle clocks.                            *)
IdleClocks(c) ==
    IF c.idle = 0 THEN <<>> ELSE Then(IF IsWrite(c.request) THEN "widle" ELSE "ridle", c.idle, <<>>)

AfterReadShortForce(c, a) ==
    CASE a = "OK" -> Then("rdata", 32, Then("rparity", 1, Then("trn", c.trn, IdleClocks(c))))
      [] a \in {"WAIT", "FAULT"} /\ c.force -> Then("clock", 32, Then("clock", c.trn, <<>>))
      [] a \in {"WAIT", "FAULT"} /\ ~c.force -> Then("trn", c.trn, <<>>)
      [] OTHER -> Then("clock", 32, Then("clock", 1, <<>>))
AfterRead(c, a) ==
    CASE a = "OK" -> Then("rdata", 32, Then("rparity", 1, Then("trn", c.trn, IdleClocks(c))))
      [] a \in {"WAIT", "FAULT"} /\ c.force -> Then("clock", 32, Then("clock", 1 + c.trn, <<>>))
      [] a \in {"WAIT", "FAULT"} /\ ~c.force -> Then("trn", c.trn, <<>>)
      [] OTHER -> Then("clock", 32, Then("clock", 1, <<>>))

AfterWriteNoTrn(c, a) ==
    CASE a = "OK" -> Then("wdata", 32, Then("wparity", 1, IdleClocks(c)))
      [] a \in {"WAIT", "FAULT"} /\ c.force -> Then("trn", c.trn, Then("clock", 32, Then("clock", 1, <<>>)))
      [] a \in {"WAIT", "FAULT"} /\ ~c.force -> Then("trn", c.trn, <<>>)
      [] OTHER -> Then("clock", 32, Then("clock", 1, <<>>))
AfterWrite(c, a) ==
    CASE a = "OK" -> Then("trn", c.trn, Then("wdata", 32, Then("wparity", 1, IdleClocks(c))))
      [] a \in {"WAIT", "FAULT"} /\ c.force -> Then("trn", c.trn, Then("clock", 32, Then("clock", 1, <<>>)))
      [] a \in {"WAIT", "FAULT"} /\ ~c.force -> Then("trn", c.trn, <<>>)
      [] OTHER -> Then("clock", 32, Then("clock", 1, <<>>))

AfterAck(c, a) == IF IsWrite(c.request) THEN AfterWrite(c, a) ELSE AfterRead(c, a)

(* temp at the end of the attempt: the loops that clock out a data phase    *)
(* count in temp and leave zero.                                            *)
Temp(c, a) == IF a \in {"WAIT", "FAULT"} /\ ~c.force THEN a ELSE "zero"

ProbeDrives(p) == p.phase \in {"request", "wdata", "wparity", "widle"}
TargetDrives(p) == p.phase \in {"ack", "rdata", "rparity"}

(* The line as an idle target sees it.  In the idle clocks of a write the   *)
(* probe still drives the parity bit; a line nobody drives has the level    *)
(* of the board's resistor.                                                 *)
LineHigh(c, p) == CASE p.phase = "request" -> TRUE
                    [] p.phase = "widle" -> Parity32(c.data) = 1
                    [] OTHER -> c.pullUp

(* The target: what follows the request, for each answer.  With overrun     *)
(* detection, which the host sets together with data_force, a data phase    *)
(* always follows.  "none": it saw no valid request and stays out of it.    *)
AfterReply(c, a) ==
    CASE a = "OK" /\ ~IsWrite(c.request) -> Then("rdata", 32, Then("rparity", 1, Then("trn", c.trn, <<>>)))
      [] a = "OK" /\ IsWrite(c.request) -> Then("trn", c.trn, Then("wdata", 32, Then("wparity", 1, <<>>)))
      [] a # "OK" /\ c.force /\ IsWrite(c.request) -> Then("trn", c.trn, Then("ignore", 33, <<>>))
      [] a # "OK" /\ c.force /\ ~IsWrite(c.request) -> Then("rdata", 33, Then("trn", c.trn, <<>>))
      [] OTHER -> Then("trn", c.trn, <<>>)
Reply(c, a) ==
    IF a = "none" THEN Then("out", 1, <<>>)
    ELSE Then("trn", c.trn, Then("ack", 3, AfterReply(c, a)))

SwdInit ==
    /\ call \in Calls
    /\ todo = Attempt(call)
    /\ tries = 0 /\ ack = "" /\ result = ""
    /\ target = <<>> /\ answer = "none" /\ performed = 0

(* The other port is connected.                                             *)
SwdQuiet ==
    /\ call = [request |-> {}, data |-> {}, parityError |-> FALSE, force |-> FALSE,
               trn |-> 1, idle |-> 0, limit |-> 0, pullUp |-> FALSE]
    /\ todo = <<>> /\ tries = 0 /\ ack = "silence" /\ result = "zero"
    /\ target = <<>> /\ answer = "none" /\ performed = 0

(* One clock for the target.                                                *)
TargetClock(p) ==
    LET t == Now(target) IN
    \/ /\ t.phase = "idle"
       /\ target' = IF ~LineHigh(call, p) THEN <<>>
                    ELSE IF p.phase = "request" THEN Then("request", 7, <<>>)
                    ELSE Then("out", 1, <<>>)
       /\ UNCHANGED <<answer, performed>>
    \/ /\ t.phase = "request" /\ t.n = 1
       /\ \E a \in (IF Valid(Header(call.request)) THEN Acks ELSE {}) \cup {"none"} :
            answer' = a /\ target' = Reply(call, a)
       /\ UNCHANGED performed
    \/ /\ t.phase = "out"
       /\ UNCHANGED <<target, answer, performed>>
    \/ /\ t.phase \notin {"idle", "out"} /\ ~(t.phase = "request" /\ t.n = 1)
       /\ target' = Tick(target)
       /\ performed' = performed + (IF t.phase = "wparity" \/ t.phase = "rparity" THEN 1 ELSE 0)
       /\ UNCHANGED answer

(* The acknowledge read back: what the target drives, or the resistor.      *)
AckRead == IF Now(target).phase = "ack" THEN answer ELSE "silence"

(* A clock of the probe.  At the third ack bit it knows what follows.       *)
SwdClock ==
    /\ result = "" /\ todo # <<>>
    /\ LET p == Head(todo) IN
         /\ TargetClock(p)
         /\ IF p.phase = "ack" /\ p.n = 1
            THEN ack' = AckRead /\ todo' = AfterAck(call, AckRead)
            ELSE ack' = ack /\ todo' = Tick(todo)
    /\ UNCHANGED <<call, tries, result>>

MayRestartOneLess == Temp(call, ack) = "WAIT" /\ tries + 1 < call.limit
MayRestart == Temp(call, ack) = "WAIT" /\ tries < call.limit

(* goto SYNC_READ_RESTART                                                   *)
SwdRestart ==
    /\ result = "" /\ todo = <<>>
    /\ MayRestart
    /\ tries' = tries + 1 /\ ack' = "" /\ todo' = Attempt(call)
    /\ UNCHANGED <<call, result, target, answer, performed>>

(* The parity bit after the data, as the target sends it: right, or with an *)
(* error on the way.                                                        *)
ParitySent == (Cardinality(call.data) + IF call.parityError THEN 1 ELSE 0) % 2

SwdReturn ==
    /\ result = "" /\ todo = <<>>
    /\ ~MayRestart
    /\ result' = IF ack # "OK" THEN Temp(call, ack)
                 ELSE IF IsWrite(call.request) \/ ParitySent = Parity32(call.data) THEN "OK"
                 ELSE "OK|MISMATCH"
    /\ UNCHANGED <<call, todo, tries, ack, target, answer, performed>>

SwdNext == SwdClock \/ SwdRestart \/ SwdReturn

----------------------------------------------------------------------------
(* Probe and target never drive the line together, and every bit one of     *)
(* them samples is the bit the other one gives: the phases of swd.c fit the *)
(* protocol for each turnaround, with and without forced data phases,       *)
(* whatever the target answers and however often.                           *)
InStep ==
    LET p == Now(todo)
        t == Now(target) IN
    result = "" /\ p.phase # "idle" =>
      /\ ~(ProbeDrives(p) /\ TargetDrives(t))
      /\ t.phase # "out" =>
           /\ p.phase \in {"ack", "rdata", "rparity"} => t = p
           /\ t.phase \in {"wdata", "wparity"} => t = p

(* After the call a target that answered waits for a start bit, so the next *)
(* call finds it.  The exception is what the idle clocks do: swd.c leaves   *)
(* the line on the parity bit after a write, and to the resistor after a    *)
(* read, and a high line is a start bit.                                    *)
IdleClocksHigh == call.idle > 0 /\ IF IsWrite(call.request) THEN Parity32(call.data) = 1 ELSE call.pullUp
TargetLeftIdle ==
    result # "" /\ answer # "none" /\ target # <<>> => ack = "OK" /\ IdleClocksHigh

(* A call says OK exactly when the target did the transfer, and however     *)
(* often it is retried the target does it at most once; a word read with a  *)
(* wrong parity bit is marked as such, and no other.                        *)
DoneOnce ==
    result # "" =>
      /\ performed = IF result \in {"OK", "OK|MISMATCH"} THEN 1 ELSE 0
      /\ performed = 1 =>
           (result = "OK|MISMATCH" <=> ~IsWrite(call.request) /\ call.parityError)
      /\ result \in Acks => result = answer

(* A WAIT is returned as such, after one attempt more than the limit: as    *)
(* long as data phases are not forced.  (If they are, it is reported as an  *)
(* acknowledge of zero after one attempt.)                                  *)
WaitIsRetried ==
    result # "" /\ answer = "WAIT" =>
      IF call.force THEN tries = 0 /\ result = "zero"
      ELSE tries = call.limit /\ result = "WAIT"
=============================================================================

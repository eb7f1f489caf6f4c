------------------------------ MODULE JtagScan ------------------------------
(* One access to a device of a JTAG chain (cmsis-dap/jtag.c): dap_jtag_ir   *)
(* loads the instruction, then dap_jtag_dr exchanges the data register, or  *)
(* dap_jtag_idcode (dap_main.c) reads the identification.  The probe sends  *)
(* bit buffers clock by clock; the TAP controllers and the shift path, of   *)
(* the IEEE standard, are external.  A bit is its origin, <<"wr", 5>>.      *)
EXTENDS Naturals, Sequences, FiniteSetsExt, SequencesExt

CONSTANTS
    Counts,   \* numbers of devices
    IrLens,   \* lengths of an instruction
    IdleCycles, \* values of jtag_control.idle
    WaitLimits  \* values of jtag_control.retry_limit

BufferBits == 64     \* of buf_tms, buf_tdi and buf_tdo
MaxDevices == 4      \* DAP_JTAG_DEV_CNT

ASSUME JtagAssumption ==
    /\ Counts \subseteq 1..MaxDevices /\ IrLens \subseteq 1..8
    /\ IdleCycles \subseteq 0..255 /\ WaitLimits \subseteq Nat

VARIABLES
    job,      \* what is accessed, and the settings
    scan,     \* "ir", "dr", "id", or "end"
    clock,    \* bits of the scan sent
    tdo,      \* bits read back
    attempts, \* retry
    tap,      \* state of the TAP controllers, the same in all
    path,     \* the bits between TDI and TDO, the one at TDO first
    ir,       \* the instruction register of each device
    dr,       \* what the last update gave each device
    sent,     \* what the addressed device captured last
    undef     \* the shift of dap_jtag_idcode past the width of int gave zero
jtagVars == <<job, scan, clock, tdo, attempts, tap, path, ir, dr, sent, undef>>

Zero == <<"zero", 0>>
One == <<"one", 0>>
Field(name, width) == [k \in 1..width |-> <<name, k>>]
Filled(bit, width) == [k \in 1..width |-> bit]
Concat(seqs) == FlattenSeq(seqs)

Jobs == UNION {[count : {c}, index : 0..c - 1, irLength : [0..c - 1 -> IrLens],
                kind : {"read", "write", "id"}, idle : IdleCycles, limit : WaitLimits] : c \in Counts}
Devices == 0..job.count - 1

(* dap_jtag_configure.                                                      *)
IrBeforeReversed(n) == MapThenSumSet(LAMBDA m : job.irLength[m], n + 1..job.count - 1)
IrBefore(n) == MapThenSumSet(LAMBDA m : job.irLength[m], 0..n - 1)
IrAfter(n) == MapThenSumSet(LAMBDA m : job.irLength[m], n + 1..job.count - 1)

(* The scans: for each clock the TMS and TDI bit.                           *)
IrTdi ==
    LET i == job.index IN
    Filled(Zero, 4) \o Filled(One, IrBefore(i)) \o Field("ir", job.irLength[i])
      \o Filled(One, IrAfter(i)) \o <<Zero, One>>
IrTms ==
    LET shifts == IrBefore(job.index) + job.irLength[job.index] + IrAfter(job.index) IN
    <<1, 1, 0, 0>> \o Filled(0, shifts - 1) \o <<1, 1, 0>>

DrBefore == job.index
DrAfter == job.count - 1 - job.index
DrTdi ==
    Filled(Zero, 3 + DrBefore) \o Field("req", 3)
      \o (IF job.kind = "write" THEN Field("wr", 32) ELSE Filled(Zero, 32))
      \o Filled(Zero, DrAfter + 1 + job.idle) \o <<One>>
DrExit == 3 + DrBefore + 3 + 31 + DrAfter
DrTms ==
    <<1, 0, 0>> \o Filled(0, DrExit - 3) \o <<1, 1>> \o Filled(0, job.idle + 1)
(* After eight bits the hardware sends whole bytes, and TMS stays as it is. *)
DmaBytes == (DrExit - 8) \div 8
DrTmsAt(k) == IF k \in 9..8 + 8 * DmaBytes THEN DrTms[8] ELSE DrTms[k]

(* The identification: the bits that end the scan are ored in by a shift    *)
(* of an int by more than its width.                                        *)
IdTdi == Filled(Zero, 3 + job.index + 34)
IdTms == <<1, 0, 0>> \o Filled(0, job.index + 31)
           \o (IF undef THEN <<0, 0, 0>> ELSE <<1, 1, 0>>)

Tdi == CASE scan = "ir" -> IrTdi [] scan = "dr" -> DrTdi [] scan = "id" -> IdTdi
Tms(k) == CASE scan = "ir" -> IrTms[k] [] scan = "dr" -> DrTmsAt(k) [] scan = "id" -> IdTms[k]
ScanLength == Len(Tdi)

(* The standard's state machine.                                            *)
TapNext(s, tms) ==
    CASE s = "Idle"      -> IF tms = 1 THEN "SelectDR" ELSE "Idle"
      [] s = "SelectDR"  -> IF tms = 1 THEN "SelectIR" ELSE "CaptureDR"
      [] s = "CaptureDR" -> IF tms = 1 THEN "Exit1DR" ELSE "ShiftDR"
      [] s = "ShiftDR"   -> IF tms = 1 THEN "Exit1DR" ELSE "ShiftDR"
      [] s = "Exit1DR"   -> IF tms = 1 THEN "UpdateDR" ELSE "PauseDR"
      [] s = "PauseDR"   -> IF tms = 1 THEN "Exit2DR" ELSE "PauseDR"
      [] s = "Exit2DR"   -> IF tms = 1 THEN "UpdateDR" ELSE "ShiftDR"
      [] s = "UpdateDR"  -> IF tms = 1 THEN "SelectDR" ELSE "Idle"
      [] s = "SelectIR"  -> IF tms = 1 THEN "Reset" ELSE "CaptureIR"
      [] s = "CaptureIR" -> IF tms = 1 THEN "Exit1IR" ELSE "ShiftIR"
      [] s = "ShiftIR"   -> IF tms = 1 THEN "Exit1IR" ELSE "ShiftIR"
      [] s = "Exit1IR"   -> IF tms = 1 THEN "UpdateIR" ELSE "PauseIR"
      [] s = "PauseIR"   -> IF tms = 1 THEN "Exit2IR" ELSE "PauseIR"
      [] s = "Exit2IR"   -> IF tms = 1 THEN "UpdateIR" ELSE "ShiftIR"
      [] s = "UpdateIR"  -> IF tms = 1 THEN "SelectDR" ELSE "Idle"
      [] s = "Reset"     -> IF tms = 1 THEN "Reset" ELSE "Idle"

(* The registers.  Device 0 is the one next to TDO.  Its instruction is     *)
(* known by whether all bits are one.                                       *)
Bypassed(n) == ir[n] = Filled(One, job.irLength[n])
IrCapture == Concat([n \in 1..job.count |-> Field("cap", job.irLength[n - 1])])
DrCapture(register) ==
    Concat([n \in 1..job.count |-> IF Bypassed(n - 1) THEN <<Zero>> ELSE register])
Width(n) == IF Bypassed(n) THEN 1 ELSE IF scan = "id" THEN 32 ELSE 35
IrStart(n) == MapThenSumSet(LAMBDA m : job.irLength[m], 0..n - 1)
DrStart(n) == MapThenSumSet(Width, 0..n - 1)

(* Acknowledge bits as captured, and as converted by dap_jtag_dr.           *)
Captured == [OK |-> <<Zero, One, Zero>>, WAIT |-> <<One, Zero, Zero>>]
Swapped(bits) == <<bits[2], bits[1], bits[3]>>
AckOf(bits) == CASE bits = <<One, Zero, Zero>> -> "OK"
                 [] bits = <<Zero, One, Zero>> -> "WAIT"
                 [] OTHER -> "other"

Registers == IF scan = "id" THEN {Field("idcode", 32)}
             ELSE {Captured[a] \o Field("rd", 32) : a \in {"OK", "WAIT"}}

JtagInit ==
    /\ job \in Jobs
    /\ scan = "ir" /\ clock = 0 /\ tdo = <<>> /\ attempts = 0
    /\ tap = "Idle" /\ path = <<>> /\ sent = <<>>
    /\ ir = [n \in Devices |-> Filled(One, job.irLength[n])]
    /\ dr = [n \in Devices |-> <<>>]
    /\ undef \in (IF job.kind = "id" THEN BOOLEAN ELSE {FALSE})

(* The other port is connected.                                             *)
JtagQuiet ==
    /\ job = [count |-> 1, index |-> 0, irLength |-> <<>>, kind |-> "id", idle |-> 0, limit |-> 0]
    /\ scan = "end" /\ clock = 0 /\ tdo = <<>> /\ attempts = 0
    /\ tap = "Idle" /\ path = <<>> /\ sent = <<>>
    /\ ir = <<>> /\ dr = <<>> /\ undef = FALSE

(* A rising edge: the TAPs capture, shift or update and go to their next    *)
(* state; the probe samples TDO.                                            *)
JtagClock ==
    /\ scan # "end" /\ clock < ScanLength
    /\ clock' = clock + 1
    /\ \E tms \in IF clock < BufferBits THEN {Tms(clock + 1)} ELSE {0, 1} :
         tap' = TapNext(tap, tms)
    /\ tdo' = Append(tdo, IF tap \in {"ShiftDR", "ShiftIR"} THEN Head(path) ELSE Zero)
    /\ CASE tap = "CaptureIR" -> path' = IrCapture /\ UNCHANGED <<ir, dr, sent>>
         [] tap = "CaptureDR" ->
              \E register \in Registers :
                path' = DrCapture(register) /\ sent' = register /\ UNCHANGED <<ir, dr>>
         [] tap \in {"ShiftDR", "ShiftIR"} ->
              path' = Append(Tail(path), Tdi[clock + 1]) /\ UNCHANGED <<ir, dr, sent>>
         [] tap = "UpdateIR" ->
              /\ ir' = [n \in Devices |-> SubSeq(path, IrStart(n) + 1, IrStart(n) + job.irLength[n])]
              /\ UNCHANGED <<path, dr, sent>>
         [] tap = "UpdateDR" ->
              /\ dr' = [n \in Devices |-> SubSeq(path, DrStart(n) + 1, DrStart(n) + Width(n))]
              /\ UNCHANGED <<path, ir, sent>>
         [] OTHER -> UNCHANGED <<path, ir, dr, sent>>
    /\ UNCHANGED <<job, scan, attempts, undef>>

(* What the code takes from the bits read back.                             *)
Ack == AckOf(Swapped(SubSeq(tdo, DrBefore + 4, DrBefore + 6)))
DataRead == IF scan = "id" THEN SubSeq(tdo, 4 + job.index, 35 + job.index)
            ELSE SubSeq(tdo, DrBefore + 7, DrBefore + 38)

MayRetry == Ack = "WAIT" /\ attempts < job.limit

IrDone ==
    /\ scan = "ir" /\ clock = ScanLength
    /\ scan' = (IF job.kind = "id" THEN "id" ELSE "dr")
    /\ clock' = 0 /\ tdo' = <<>>
    /\ UNCHANGED <<job, attempts, tap, path, ir, dr, sent, undef>>

(* do ... while (retry++ < retry_limit)                                     *)
DrRetry ==
    /\ scan = "dr" /\ clock = ScanLength
    /\ MayRetry
    /\ attempts' = attempts + 1 /\ clock' = 0 /\ tdo' = <<>>
    /\ UNCHANGED <<job, scan, tap, path, ir, dr, sent, undef>>

Finished ==
    /\ scan \in {"dr", "id"} /\ clock = ScanLength
    /\ scan = "id" \/ (scan = "dr" /\ ~MayRetry)

JtagNext == JtagClock \/ IrDone \/ DrRetry

----------------------------------------------------------------------------
(* The scan fits the 64 bits of the buffers.  dap_jtag_config does not limit *)
(* the idle cycles as dap_swd_config does: with more than 24 of them the    *)
(* bits after the last one of buf_tms are whatever follows it in memory.    *)
Fits == job.idle + job.count <= 25

(* Between two scans the TAPs are in Run-Test/Idle, which each scan of      *)
(* jtag.c starts from: as long as it fits the buffers, and but for          *)
(* dap_jtag_idcode, whose last TMS bits get lost where the shift of         *)
(* 0x3 by 34 and more gives zero.                                           *)
EndsIdle == tap = (IF scan = "id" /\ undef THEN "ShiftDR" ELSE "Idle") \/ ~Fits

IrLoaded ==
    /\ ir[job.index] = Field("ir", job.irLength[job.index])
    /\ \A n \in Devices \ {job.index} : Bypassed(n)

DrExchanged ==
    /\ DataRead = (IF scan = "id" THEN sent ELSE SubSeq(sent, 4, 35))
    /\ scan = "dr" =>
         /\ Captured[Ack] = SubSeq(sent, 1, 3)
         /\ dr[job.index] = SubSeq(DrTdi, 4 + DrBefore, 38 + DrBefore)
         /\ Ack = "WAIT" => attempts = job.limit

(* Each scan leaves the TAPs where the next one starts (EndsIdle).  The     *)
(* instruction goes to the addressed device, from its first to its last     *)
(* bit, and every other device is in bypass: what dap_jtag_configure        *)
(* computes for ir_before and ir_after fits every chain (IrLoaded).  The    *)
(* data read is what the addressed device captured in this scan, the        *)
(* request and the word written arrive in its register, and the acknowledge *)
(* is its own: not shifted by the bypass bits of the others, not mixed up   *)
(* by the bytes sent by the hardware; WAIT is the result only after one     *)
(* attempt more than the limit (DrExchanged).                               *)
ScansExact ==
    /\ scan # "end" /\ clock = ScanLength => EndsIdle
    /\ scan \in {"dr", "id"} /\ clock = 0 /\ attempts = 0 => IrLoaded
    /\ Finished /\ Fits => DrExchanged
=============================================================================

----------------------------- MODULE DapSession -----------------------------
(* The settings of the probe (cmsis-dap/dap_main.c, dap_vendor.c) over any   *)
(* sequence of commands: dap_info, which keeps them, swd_control and         *)
(* jtag_control, which the wires use, and the pins.                          *)
EXTENDS Naturals

CONSTANTS
    Clocks,   \* clock frequencies in kHz a host asks for
    IdleSettings,    \* idle cycles
    RetrySettings,  \* retry counts
    TrnSettings    \* turnarounds

ASSUME SessionAssumption ==
    /\ Clocks \subseteq Nat /\ IdleSettings \subseteq Nat
    /\ RetrySettings \subseteq Nat /\ TrnSettings \subseteq Nat

VARIABLES
    info,     \* dap_info
    swd,      \* swd_control
    jtag,     \* jtag_control
    pins,     \* the pins of the processor that are outputs (the buffers between
              \* them and the target are left out)
    update,   \* update_flag
    down,     \* the probe takes no more commands: it is off to the bootloader,
              \* or called a function of swd_control or jtag_control that is null
    loose     \* pins the host drives with DAP_SWJ_Pins or a raw sequence of SWD,
              \* or left driven with a DAP_Connect to no port, since they were
              \* last released
sessionVars == <<info, swd, jtag, pins, update, down, loose>>

Least(a, b) == IF a < b THEN a ELSE b
Greatest(a, b) == IF a < b THEN b ELSE a

DefaultClock == 4500                          \* DAP_DEFAULT_SWJ_CLOCK
NoControl == [set |-> FALSE]                  \* after memset

SwdConfig(i) ==
    [set |-> TRUE, idle |-> Least(i.idle, 192), trn |-> Least(i.trn, 14), force |-> i.force,
     retry |-> i.retry, khz |-> i.khz, quick |-> i.khz >= 6000]
JtagConfig(i) ==
    [set |-> TRUE, idle |-> i.idle, retry |-> i.retry, khz |-> i.khz, quick |-> i.khz >= 3000]

(* The clocks of the two wires are different pins, the one of SWD (SWCLK)   *)
(* also that of DAP_SWJ_Pins; the data line of SWD is the TMS of JTAG.      *)
SwdPins == {"SWCLK", "TMS", "RST"}
JtagPins == {"TCK", "TMS", "TDI", "TRST", "RST"}
SwjSelected == {"SWCLK", "TMS", "TDI", "TRST", "RST"}
(* Driven after ..._io_reconfig; over SWD the data line is an input.        *)
Outputs(port) == IF port = "swd" THEN {"SWCLK", "RST"} ELSE IF port = "jtag" THEN JtagPins ELSE {}
Inputs(port) == IF port = "swd" THEN {"TMS"} ELSE {}
Released(port) == IF port = "swd" THEN SwdPins ELSE IF port = "jtag" THEN JtagPins ELSE {}
Reconfigured(p, port) == (p \ Inputs(port)) \cup Outputs(port)

SessionInit ==
    /\ info = [port |-> "swd", khz |-> DefaultClock, idle |-> 0, retry |-> 100,
               trn |-> 1, force |-> FALSE, reconfig |-> FALSE]
    /\ swd = SwdConfig(info) /\ jtag = NoControl
    /\ pins = Outputs("swd")
    /\ update = FALSE /\ down = FALSE /\ loose = {}

(* No command runs while the probe is down.                                 *)
SessionQuiet ==
    /\ info = [port |-> "disabled", khz |-> DefaultClock, idle |-> 0, retry |-> 100,
               trn |-> 1, force |-> FALSE, reconfig |-> FALSE]
    /\ swd = NoControl /\ jtag = NoControl /\ pins = {}
    /\ update = FALSE /\ down = TRUE /\ loose = {}

(* dap_connect: port_deinit of the old port, port_init of the new one.      *)
ConfigureNewSwd(i) == IF i.khz # 0 THEN SwdConfig(i) ELSE NoControl
ConfigureNewJtag(i) == IF i.khz # 0 THEN JtagConfig(i) ELSE NoControl
Connect(port) ==
    /\ port \in {"swd", "jtag"}
    /\ info' = [info EXCEPT !.port = port, !.reconfig = FALSE]
    /\ pins' = Reconfigured(pins \ Released(info.port), port)
    /\ swd' = IF port = "swd" THEN ConfigureNewSwd(info) ELSE swd
    /\ jtag' = IF port = "jtag" THEN ConfigureNewJtag(info) ELSE jtag
    /\ loose' = loose \ Released(info.port)
    /\ UNCHANGED <<update, down>>

(* A port the probe does not have: it is disabled.                          *)
ConnectOther ==
    /\ info' = [info EXCEPT !.port = "disabled"]
    /\ loose' = loose \cup pins
    /\ UNCHANGED <<swd, jtag, pins, update, down>>

Disconnect ==
    /\ info' = [info EXCEPT !.port = "disabled", !.reconfig = TRUE]
    /\ pins' = pins \ Released(info.port)
    /\ loose' = loose \ Released(info.port)
    /\ UNCHANGED <<swd, jtag, update, down>>

(* The settings go to the wire of the port in use.                          *)
Apply(i) ==
    /\ info' = i
    /\ swd' = IF i.port = "swd" THEN SwdConfig(i) ELSE swd
    /\ jtag' = IF i.port = "jtag" THEN JtagConfig(i) ELSE jtag
    /\ UNCHANGED <<pins, update, down, loose>>

(* dap_swj_clock: zero means the default; speed_khz has 16 bits.            *)
Stored(khz) == (IF khz = 0 THEN DefaultClock ELSE khz) % 65536
SwjClock(khz) == Apply([info EXCEPT !.khz = Stored(khz)])

(* dap_transfer_configure: a retry count of less than 255 is raised to it.  *)
TransferConfigureKeepsRetry(idle, retry) ==
    /\ info' = [info EXCEPT !.idle = idle, !.retry = Greatest(retry, 255)]
    /\ swd' = IF info.port = "swd" THEN SwdConfig([info EXCEPT !.idle = idle]) ELSE swd
    /\ jtag' = IF info.port = "jtag" THEN JtagConfig([info EXCEPT !.idle = idle]) ELSE jtag
    /\ UNCHANGED <<pins, update, down, loose>>
TransferConfigure(idle, retry) ==
    Apply([info EXCEPT !.idle = idle, !.retry = Greatest(retry, 255)])

(* dap_swd_configure: whatever the port.                                    *)
SwdConfigure(trn, force) ==
    /\ info' = [info EXCEPT !.trn = trn, !.force = force]
    /\ swd' = SwdConfig(info')
    /\ UNCHANGED <<jtag, pins, update, down, loose>>

(* dap_swj_pin: the selected pins are driven.                               *)
SwjPins(select) ==
    /\ pins' = pins \cup select
    /\ loose' = loose \cup select
    /\ info' = [info EXCEPT !.reconfig = TRUE]
    /\ UNCHANGED <<swd, jtag, update, down>>

(* dap_swd_seqout and dap_swd_seqin: whole bytes go through the SPI, with   *)
(* the clock pin a driven output afterwards, the bits left over through a   *)
(* function of swd_control, null while it has no configuration.  After      *)
(* output the data line is released.                                        *)
Clocked(p, in, bytes) ==
    (IF bytes THEN p \cup {"SWCLK"} ELSE p) \ (IF ~in /\ (bytes \/ swd.set) THEN {"TMS"} ELSE {})
SwdRaw(p, in, bytes, tail) ==
    /\ bytes \/ tail
    /\ pins' = Clocked(p, in, bytes) /\ loose' = Clocked(loose, in, bytes)
    /\ down' = (tail /\ ~swd.set)

(* dap_swj_sequence sets the pins up again if need be.  JTAG's bits go      *)
(* through jtag_control.jtag_rw, which leaves each pin what it is.          *)
SwjSequence(bytes, tail) ==
    /\ info' = [info EXCEPT !.reconfig = FALSE]
    /\ LET p == IF info.reconfig THEN Reconfigured(pins, info.port) ELSE pins IN
       \/ info.port = "swd" /\ SwdRaw(p, FALSE, bytes, tail)
       \/ info.port = "jtag" /\ pins' = p /\ down' = ~jtag.set /\ UNCHANGED loose
       \/ info.port = "disabled" /\ pins' = p /\ UNCHANGED <<down, loose>>
    /\ UNCHANGED <<swd, jtag, update>>

(* One sequence of a dap_swd_sequence or dap_jtag_sequence, whatever port   *)
(* is connected: the handlers only note it in the answer.                   *)
SwdSequence(in, bytes, tail) ==
    SwdRaw(pins, in, bytes, tail) /\ UNCHANGED <<info, swd, jtag, update>>
JtagSequence ==
    down' = ~jtag.set /\ UNCHANGED <<info, swd, jtag, pins, update, loose>>

(* An access of a DAP_Transfer, DAP_TransferBlock or DAP_WriteABORT (over   *)
(* JTAG also of a DAP_JTAG_IDCODE, and there the pins it uses are outputs   *)
(* before and after).                                                       *)
Access ==
    /\ \/ info.port = "swd" /\ swd.set /\ SwdRaw(pins, FALSE, TRUE, FALSE)
       \/ info.port = "swd" /\ ~swd.set /\ down' = TRUE /\ UNCHANGED <<pins, loose>>
       \/ info.port = "jtag" /\ down' = ~jtag.set /\ UNCHANGED <<pins, loose>>
    /\ UNCHANGED <<info, swd, jtag, update>>

(* Vendor commands 0 and 1.                                                 *)
VendorUpdate(key) == update' = key /\ UNCHANGED <<info, swd, jtag, pins, down, loose>>
VendorReset ==
    /\ update
    /\ down' = TRUE /\ UNCHANGED <<info, swd, jtag, pins, update, loose>>

SessionNext ==
    /\ ~down
    /\ \/ \E port \in {"swd", "jtag"} : Connect(port)
       \/ ConnectOther
       \/ Disconnect
       \/ \E khz \in Clocks : SwjClock(khz)
       \/ \E idle \in IdleSettings, retry \in RetrySettings : TransferConfigure(idle, retry)
       \/ \E trn \in TrnSettings, force \in BOOLEAN : SwdConfigure(trn, force)
       \/ \E pin \in SwjSelected : SwjPins({pin})
       \/ \E bytes, tail \in BOOLEAN : SwjSequence(bytes, tail)
       \/ \E in, bytes, tail \in BOOLEAN : SwdSequence(in, bytes, tail)
       \/ JtagSequence
       \/ Access
       \/ \E key \in BOOLEAN : VendorUpdate(key)
       \/ VendorReset

SessionSpec == SessionInit /\ [][SessionNext]_sessionVars

----------------------------------------------------------------------------
(* In whatever order the commands came and whichever port was connected     *)
(* when they did: the wire of the connected port runs with the settings     *)
(* last given, and while no port is connected only those pins are driven    *)
(* that the host itself drove with DAP_SWJ_Pins or a raw sequence of SWD,   *)
(* or left driven with a DAP_Connect to a port the probe does not have.     *)
(* The exception is a clock of a multiple of 65536 kHz, which speed_khz     *)
(* stores as zero: the next dap_connect then leaves the wire without a      *)
(* configuration, and the next access over it takes the probe down.         *)
SettingsInForce ==
    /\ info.port = "swd" => swd = SwdConfig(info) \/ (info.khz = 0 /\ swd = NoControl)
    /\ info.port = "jtag" => jtag = JtagConfig(info) \/ (info.khz = 0 /\ jtag = NoControl)
    /\ info.port = "disabled" => pins \subseteq loose
=============================================================================

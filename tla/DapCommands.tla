---------------------------- MODULE DapCommands ----------------------------
(* What dap_process_thread runs for a packet: the handlers of dap_main.c    *)
(* and the wires under them.  They meet in few places (a handler calls a    *)
(* wire and looks at the acknowledge; dap_info is set by one command and    *)
(* read by the next), and each of those is a parameter of the module on the *)
(* other side, so the parts run one at a time here.                         *)
EXTENDS SwdWire, JtagScan, DapSequence, DapTransfer, DapSession, DapPacket

VARIABLE part
vars == <<part, swdVars, jtagVars, sequenceVars, transferVars, sessionVars, packetVars>>

Init ==
    \/ /\ part = "swd" /\ SwdInit
       /\ JtagQuiet /\ SequenceQuiet /\ TransferQuiet /\ SessionQuiet /\ PacketQuiet
    \/ /\ part = "jtag" /\ JtagInit
       /\ SwdQuiet /\ SequenceQuiet /\ TransferQuiet /\ SessionQuiet /\ PacketQuiet
    \/ /\ part = "sequence" /\ SequenceInit
       /\ SwdQuiet /\ JtagQuiet /\ TransferQuiet /\ SessionQuiet /\ PacketQuiet
    \/ /\ part = "transfer" /\ TransferInit
       /\ SwdQuiet /\ JtagQuiet /\ SequenceQuiet /\ SessionQuiet /\ PacketQuiet
    \/ /\ part = "session" /\ SessionInit
       /\ SwdQuiet /\ JtagQuiet /\ SequenceQuiet /\ TransferQuiet /\ PacketQuiet
    \/ /\ part = "packet" /\ PacketInit
       /\ SwdQuiet /\ JtagQuiet /\ SequenceQuiet /\ TransferQuiet /\ SessionQuiet

Next ==
    /\ UNCHANGED part
    /\ \/ /\ part = "swd" /\ SwdNext
          /\ UNCHANGED <<jtagVars, sequenceVars, transferVars, sessionVars, packetVars>>
       \/ /\ part = "jtag" /\ JtagNext
          /\ UNCHANGED <<swdVars, sequenceVars, transferVars, sessionVars, packetVars>>
       \/ /\ part = "sequence" /\ SequenceNext
          /\ UNCHANGED <<swdVars, jtagVars, transferVars, sessionVars, packetVars>>
       \/ /\ part = "transfer" /\ TransferNext
          /\ UNCHANGED <<swdVars, jtagVars, sequenceVars, sessionVars, packetVars>>
       \/ /\ part = "session" /\ SessionNext
          /\ UNCHANGED <<swdVars, jtagVars, sequenceVars, transferVars, packetVars>>
       \/ /\ part = "packet" /\ PacketNext
          /\ UNCHANGED <<swdVars, jtagVars, sequenceVars, transferVars, sessionVars>>

Spec == Init /\ [][Next]_vars
=============================================================================

----------------------------- MODULE DapPacket -----------------------------
(* dap_request_handler (cmsis-dap/dap_main.c): one packet, with a single    *)
(* command or a DAP_ExecuteCommands of several.  Each handler moves two     *)
(* pointers: req_ptr over the bytes of its command, resp_ptr over those of  *)
(* its answer.  Nothing in a packet marks where a command begins, so host   *)
(* and probe agree only if every handler, in every state an earlier command *)
(* of the packet may have left, moves both as the host expects.  What is in *)
(* a transfer is the business of DapTransfer, and bits that of DapSequence. *)
EXTENDS Naturals, Sequences, SequencesExt

CONSTANTS
    PacketCommands,   \* commands a packet is made of, records
    MaxCommands,      \* most commands of a packet
    PktSize           \* pkt_size

ASSUME PacketAssumption ==
    /\ MaxCommands \in Nat \ {0} /\ PktSize \in Nat \ {0}
    /\ \A c \in PacketCommands : c.op \in STRING

VARIABLES
    packet,     \* [exec: is it a DAP_ExecuteCommands, cmds: the commands]
    run,        \* dap_transfer and the locals of dap_request_handler; with
                \* the commands done, the last byte of the response buffer
                \* that was written, and what else happened (odd)
    dapInfo,    \* dap_info: the port, the number of JTAG devices, and whether
                \* speed_khz is zero; with the wires whose control (swd_control,
                \* jtag_control) has a configuration
    response    \* the bytes up to resp_ptr, each with the command it is of
packetVars == <<packet, run, dapInfo, response>>

Word == 4
SumOver(list, size(_)) == FoldLeft(LAMBDA sum, x : sum + size(x), 0, list)
SequenceBytes(field) == ((IF field = 0 THEN 64 ELSE field) + 7) \div 8
SwjBytes(field) == ((IF field = 0 THEN 256 ELSE field) + 7) \div 8
CarriesWord(r) == ~r.rd \/ r.match

(* The length of a command as the host composes it, the id included.        *)
Size(c) ==
    CASE c.op \in {"disconnect", "reset", "vendor1", "unknown"} -> 1
      [] c.op \in {"info", "connect", "swdconf", "idcode"} -> 2
      [] c.op \in {"host", "delay", "vendor0"} -> 3
      [] c.op = "clock" -> 5
      [] c.op \in {"tconf", "abort"} -> 6
      [] c.op = "pins" -> 7
      [] c.op = "swj" -> 2 + SwjBytes(c.field)
      [] c.op = "jtagconf" -> 2 + c.devices
      [] c.op = "swdseq" -> 2 + SumOver(c.list, LAMBDA s : 1 + IF s.in THEN 0 ELSE SequenceBytes(s.field))
      [] c.op = "jtagseq" -> 2 + SumOver(c.list, LAMBDA s : 1 + SequenceBytes(s.field))
      [] c.op = "transfer" -> 3 + SumOver(c.reqs, LAMBDA r : 1 + IF CarriesWord(r) THEN Word ELSE 0)
      [] c.op = "block" -> 5 + IF c.rd THEN 0 ELSE Word * c.words

Start(k) == (IF packet.exec THEN 3 ELSE 1) + SumOver(SubSeq(packet.cmds, 1, k - 1), Size)
CommandAt(at) ==   \* the command that begins there, or 0
    LET starts == {k \in 1..Len(packet.cmds) : Start(k) = at} IN
    IF starts = {} THEN 0 ELSE CHOOSE k \in starts : TRUE

Packets ==
    {[exec |-> FALSE, cmds |-> <<c>>] : c \in PacketCommands}
    \cup {[exec |-> TRUE, cmds |-> s] : s \in SeqOf(PacketCommands, MaxCommands)}

AtStart == [pc |-> "begin", left |-> 1, at |-> 1, now |-> 0, cnt |-> 0, done |-> 0, top |-> 0, odd |-> {}]

(* The devices were counted by an earlier packet.  Earlier packets may have *)
(* connected JTAG, and disconnected it again, or left SWD as dap_init       *)
(* connects it.                                                             *)
PacketInit ==
    /\ packet \in Packets
    /\ run = AtStart
    /\ dapInfo \in [port : {"swd", "jtag", "disabled"}, devices : {1}, stopped : {FALSE},
                    wired : {{"swd"}, {"swd", "jtag"}}]
    /\ dapInfo.port = "jtag" => "jtag" \in dapInfo.wired
    /\ dapInfo.port = "swd" => "jtag" \notin dapInfo.wired
    /\ response = <<>>

(* The other parts are looked at.                                           *)
PacketQuiet ==
    /\ packet = [exec |-> TRUE, cmds |-> <<>>]
    /\ run = AtStart
    /\ dapInfo = [port |-> "disabled", devices |-> 1, stopped |-> FALSE, wired |-> {"swd"}]
    /\ response = <<>>

----------------------------------------------------------------------------
(* A command is taken: its handler adds `answer' to the response and leaves *)
(* req_ptr at `at'; `l' holds what else it changes.  The loop goes on if    *)
(* commands are left and the response is shorter than the packet.           *)
C == packet.cmds[run.now]
NoDevice == dapInfo.port = "disabled" \/ (dapInfo.port = "jtag" /\ C.index >= dapInfo.devices)

(* The wires whose functions the handler of the command calls: the port's,  *)
(* but a raw sequence's whatever port is connected.  SWD has one only for   *)
(* the bits that are no whole byte.                                         *)
CalledWires ==
    CASE C.op = "swdseq" -> IF \E i \in DOMAIN C.list : C.list[i].field % 8 # 0 THEN {"swd"} ELSE {}
      [] C.op = "jtagseq" -> IF C.list = <<>> THEN {} ELSE {"jtag"}
      [] C.op = "swj" -> IF dapInfo.port = "jtag" \/ (dapInfo.port = "swd" /\ C.field % 8 # 0)
                         THEN {dapInfo.port} ELSE {}
      [] C.op = "idcode" -> IF dapInfo.port = "jtag" /\ C.index < 4 THEN {"jtag"} ELSE {}
      [] C.op = "abort" -> IF dapInfo.port = "swd" \/ (dapInfo.port = "jtag" /\ C.index < 4)
                           THEN {dapInfo.port} ELSE {}
      [] C.op = "transfer" -> IF NoDevice \/ \A i \in DOMAIN C.reqs : C.reqs[i].match /\ ~C.reqs[i].rd
                              THEN {} ELSE {dapInfo.port}
      [] C.op = "block" -> IF NoDevice \/ C.words = 0 THEN {} ELSE {dapInfo.port}
      [] OTHER -> {}
AtCommand == run.pc = "loop" /\ run.now # 0
Running(op) == AtCommand /\ C.op = op /\ CalledWires \subseteq dapInfo.wired
Configured(i, wire) == [i EXCEPT !.wired = @ \cup {wire}]

Byte(what, v) == [of |-> run.now, what |-> what, v |-> v]
Bytes(what, n) == [i \in 1..n |-> Byte(what, 0)]
Ok == Byte("status", 0)
Error == Byte("status", 255)
StatusIf(good) == IF good THEN <<Ok>> ELSE <<Error>>
IdByte == Byte("id", 0)

Highest(l, resp) == Max({l.top, Len(resp)})
Handled(at, answer, l) ==
    LET resp == response \o <<IdByte>> \o answer IN
    /\ response' = resp
    /\ run' = [l EXCEPT !.at = at, !.now = CommandAt(at), !.left = @ - 1, !.done = @ + 1,
                        !.top = Highest(l, resp),
                        !.pc = IF l.left > 1 /\ Len(resp) < PktSize THEN "loop" ELSE "sent"]
After(used) == run.at + 1 + used
Take(used, answer) == Handled(After(used), answer, run)
Counted(n) == [run EXCEPT !.cnt = n]
Odd(l, why) == [l EXCEPT !.odd = @ \cup {why}]
Unless(expected, l, why) == IF expected THEN l ELSE Odd(l, why)

(* A function of a wire without a configuration is a null pointer: the      *)
(* probe faults and nothing is sent.                                        *)
CallNull ==
    /\ AtCommand /\ ~(CalledWires \subseteq dapInfo.wired)
    /\ run' = [run EXCEPT !.pc = "down"]
    /\ UNCHANGED <<packet, dapInfo, response>>

(* fault: the last byte of the response becomes ID_DAP_Invalid.             *)
Fault ==
    /\ run' = [run EXCEPT !.pc = "sent", !.done = @ + 1, !.top = Highest(run, Append(response, Error))]
    /\ response' = Append(response, Byte("invalid", 0))
    /\ UNCHANGED <<packet, dapInfo>>
Same == UNCHANGED <<packet, dapInfo>>

(* ID_DAP_ExecuteCommands; its answer is the id and the number.             *)
TakePacket ==
    /\ run.pc = "begin"
    /\ IF packet.exec
       THEN /\ run' = [run EXCEPT !.at = 3, !.now = CommandAt(3), !.left = Len(packet.cmds), !.top = 2,
                                  !.pc = IF packet.cmds = <<>> THEN "sent" ELSE "loop"]
            /\ response' = <<[of |-> 0, what |-> "id", v |-> 0],
                             [of |-> 0, what |-> "number", v |-> Len(packet.cmds)]>>
       ELSE run' = [run EXCEPT !.pc = "loop", !.now = 1] /\ UNCHANGED response
    /\ Same

(* ID_DAP_Info: answered only if it fits.                                   *)
TakeInfo ==
    /\ Running("info")
    /\ IF Len(response) + 1 + 1 + C.length <= PktSize
       THEN Take(1, <<Byte("length", C.length)>> \o Bytes("info", C.length)) /\ Same
       ELSE Fault

(* dap_host_status reads the state of the light only of a light it knows.   *)
TakeHostStatus ==
    /\ Running("host")
    /\ Handled(After(IF C.known THEN 2 ELSE 1), StatusIf(C.known), Unless(C.known, run, "light"))
    /\ Same

(* port_init clears the control of the wire, and configures it if the clock *)
(* is not zero.                                                             *)
TakeConnect ==
    /\ Running("connect")
    /\ dapInfo' = [dapInfo EXCEPT !.port = C.port,
                      !.wired = IF dapInfo.stopped THEN @ \ {C.port}
                                ELSE @ \cup ({C.port} \ {"disabled"})]
    /\ Take(1, <<Byte("port", IF C.port = "disabled" THEN 0 ELSE 1)>>)
    /\ UNCHANGED packet
TakeDisconnect ==
    /\ Running("disconnect")
    /\ dapInfo' = [dapInfo EXCEPT !.port = "disabled"]
    /\ Take(0, <<Ok>>)
    /\ UNCHANGED packet

TakeDelay == Running("delay") /\ Take(2, <<Ok>>) /\ Same
TakeResetTarget == Running("reset") /\ Take(0, <<Ok, Byte("execute", 0)>>) /\ Same
TakeSwjPins == Running("pins") /\ Take(6, <<Byte("pins", 0)>>) /\ Same

(* The settings go to the wire of the port, those of SWD to swd_control; a  *)
(* clock of a multiple of 65536 kHz is stored as zero.                      *)
PortConfigured(i) == IF i.port = "disabled" THEN i ELSE Configured(i, i.port)
TakeSwjClock ==
    /\ Running("clock")
    /\ dapInfo' = PortConfigured([dapInfo EXCEPT !.stopped = C.wraps])
    /\ Take(4, StatusIf(dapInfo.port # "disabled"))
    /\ UNCHANGED packet
TakeSwdConfigure ==
    /\ Running("swdconf")
    /\ dapInfo' = Configured(dapInfo, "swd")
    /\ Take(1, <<Ok>>)
    /\ UNCHANGED packet
TakeTransferConfigure ==
    /\ Running("tconf")
    /\ dapInfo' = PortConfigured(dapInfo)
    /\ Take(5, StatusIf(dapInfo.port # "disabled"))
    /\ UNCHANGED packet

(* Over JTAG no more than 64 bits are read from the command.                *)
TakeSwjSequence ==
    /\ Running("swj")
    /\ LET bytes == IF dapInfo.port = "jtag" THEN Min({SwjBytes(C.field), 8}) ELSE SwjBytes(C.field) IN
       Handled(After(1 + bytes), StatusIf(dapInfo.port # "disabled"),
               Unless(bytes = SwjBytes(C.field), run, "long"))
    /\ Same

(* The sequences are sent whatever port is connected, and counted in        *)
(* transfer_cnt; over another port the answer is an error all the same.     *)
TakeSwdSequence ==
    /\ Running("swdseq")
    /\ Handled(After(1 + SumOver(C.list, LAMBDA s : 1 + IF s.in THEN 0 ELSE SequenceBytes(s.field))),
               StatusIf(dapInfo.port = "swd")
                 \o Bytes("bits", SumOver(C.list, LAMBDA s : IF s.in THEN SequenceBytes(s.field) ELSE 0)),
               Counted(Len(C.list)))
    /\ Same
TakeJtagSequence ==
    /\ Running("jtagseq")
    /\ Handled(After(1 + SumOver(C.list, LAMBDA s : 1 + SequenceBytes(s.field))),
               StatusIf(dapInfo.port = "jtag")
                 \o Bytes("bits", SumOver(C.list, LAMBDA s : IF s.in THEN SequenceBytes(s.field) ELSE 0)),
               Counted(Len(C.list)))
    /\ Same

TakeJtagConfigure ==
    /\ Running("jtagconf")
    /\ dapInfo' = [dapInfo EXCEPT !.devices = Min({C.devices, 4})]
    /\ Take(1 + C.devices, <<Ok>>)
    /\ UNCHANGED packet
TakeJtagIdcode ==
    /\ Running("idcode") /\ Same
    /\ IF dapInfo.port = "jtag" /\ C.index < 4 THEN Take(1, <<Ok>> \o Bytes("word", Word))
       ELSE Take(1, <<Error>>)

(* dap_write_abort: over JTAG the access may fail.                          *)
TakeWriteAbort ==
    /\ Running("abort") /\ Same
    /\ \E good \in BOOLEAN :
         /\ dapInfo.port = "disabled" \/ (dapInfo.port = "jtag" /\ C.index >= 4) => ~good
         /\ dapInfo.port = "swd" => good
         /\ Take(5, StatusIf(good))

----------------------------------------------------------------------------
(* ID_DAP_Transfer.  Without a port, or for a device that is not there, it  *)
(* is read over and answered with zeros; resp_ptr goes back over what       *)
(* dap_jtag_transfer left for the answer.                                   *)
ReadOverNoMatch(r) == 1 + IF r.rd THEN 0 ELSE Word
ReadOver(r) == 1 + IF CarriesWord(r) THEN Word ELSE 0
DummyAnswerAppended == <<Byte("left", 0), Byte("left", 0), Byte("count", 0), Byte("ack", 0)>>
DummyAnswer == <<Byte("count", 0), Byte("ack", 0)>>
DummyTransfer ==
    /\ Running("transfer") /\ NoDevice
    /\ Take(2 + SumOver(C.reqs, ReadOver), DummyAnswer)
    /\ Same

PlainReads(n) == Len(SelectSeq(SubSeq(C.reqs, 1, n), LAMBDA r : r.rd /\ ~r.match))

(* Otherwise it runs to its end, or to an abort, after which the rest is    *)
(* read over and counted too; or it fails, and the pointer may be anywhere  *)
(* in the command (0: not where the next one begins).                       *)
Transfer ==
    /\ Running("transfer") /\ ~NoDevice
    /\ LET n == Len(C.reqs)
           Answer(ack, words) == <<Byte("count", n), Byte("ack", ack)>> \o Bytes("word", Word * words)
           next == After(2 + SumOver(C.reqs, ReadOver))
       IN \/ Handled(next, Answer(IF n = 0 THEN 0 ELSE 1, PlainReads(n)), Counted(n))
          \/ \E i \in 1..n - 1 : Handled(next, Answer(1, PlainReads(i)), Odd(Counted(n), "cut"))
          \/ \E i \in 0..n - 1 :
               \E at \in {0, next} :
                 Handled(at, Answer(2, PlainReads(i)), Odd(Counted(n), "failed"))
    /\ Same

(* ID_DAP_TransferBlock.  In the same two cases count and acknowledge are   *)
(* written where the answer would be, but resp_ptr stays before them.       *)
DummyBlock ==
    /\ Running("block") /\ NoDevice
    /\ Handled(After(4 + IF C.rd THEN 0 ELSE Word * C.words), <<>>,
               Odd([run EXCEPT !.top = Max({@, Len(response) + 4})], "unheard"))
    /\ Same

BlockAnswer(count, ack, words) ==
    <<Byte("count", count), Byte("count high", 0), Byte("ack", ack)>> \o Bytes("word", Word * words)

(* A block of no words ends before its request byte is read; over SWD with  *)
(* transfer_cnt as the last command left it.                                *)
EmptyBlock ==
    /\ Running("block") /\ ~NoDevice /\ C.words = 0
    /\ LET cnt == IF dapInfo.port = "swd" THEN run.cnt ELSE 0 IN
       Handled(After(3), BlockAnswer(cnt, 0, 0), Odd(Counted(cnt), "empty"))
    /\ Same
BlockDone ==
    /\ Running("block") /\ ~NoDevice /\ C.words > 0
    /\ \E ack \in IF C.rd THEN {1} ELSE {1, 2} :    \* of the access after the last write
         Handled(After(4 + IF C.rd THEN 0 ELSE Word * C.words),
                 BlockAnswer(C.words, ack, IF C.rd THEN C.words ELSE 0), Counted(C.words))
    /\ Same
(* The word that could not be written is taken, those after it are not.     *)
BlockFailed ==
    /\ Running("block") /\ ~NoDevice /\ C.words > 0
    /\ \E n \in 0..C.words - 1 :
         Handled(After(4 + IF C.rd THEN 0 ELSE Word * (n + 1)),
                 BlockAnswer(n, 2, IF C.rd THEN n ELSE 0),
                 Unless(C.rd \/ n = C.words - 1, Counted(n), "failed"))
    /\ Same

----------------------------------------------------------------------------
(* dap_vendor_request_handler: the update flag is DapSession's; here it may *)
(* be set or not.  After the reset nothing is sent.                         *)
TakeVendorUpdate == Running("vendor0") /\ Same /\ \E good \in BOOLEAN : Take(2, StatusIf(good))
TakeVendorReset ==
    /\ Running("vendor1") /\ Same
    /\ \/ Take(0, <<Error>>)
       \/ run' = [run EXCEPT !.pc = "reset"] /\ UNCHANGED response
TakeUnknown == Running("unknown") /\ Fault

PacketNext ==
    \/ TakePacket \/ CallNull
    \/ TakeInfo \/ TakeHostStatus \/ TakeConnect \/ TakeDisconnect \/ TakeDelay \/ TakeResetTarget
    \/ TakeSwjPins \/ TakeSwjClock \/ TakeSwjSequence \/ TakeSwdConfigure \/ TakeSwdSequence
    \/ TakeJtagSequence \/ TakeJtagConfigure \/ TakeJtagIdcode \/ TakeTransferConfigure
    \/ DummyTransfer \/ Transfer \/ DummyBlock \/ EmptyBlock \/ BlockDone \/ BlockFailed
    \/ TakeWriteAbort \/ TakeVendorUpdate \/ TakeVendorReset \/ TakeUnknown

PacketSpec == PacketInit /\ [][PacketNext]_packetVars

----------------------------------------------------------------------------
(* The handlers find every command of a packet, one after the other, where  *)
(* the host put it, whatever the commands before it were, which port they   *)
(* connected and how their transfers ended, as long as no handler calls a   *)
(* wire without a configuration.  The exceptions: a light DAP_HostStatus    *)
(* does not know, a DAP_SWJ_Sequence of more than 64 bits over JTAG, a      *)
(* block of no words, and a transfer that failed on the wire.               *)
CommandsFound ==
    run.pc = "loop" =>
      \/ run.now = run.done + 1
      \/ run.odd \cap {"light", "long", "empty", "failed"} # {}

(* What the host makes of the response: it knows the commands it sent, and  *)
(* reads how long each answer is from the answer itself.                    *)
AnswerSize(c, p) ==
    LET v(i) == IF p + i <= Len(response) THEN response[p + i].v ELSE 0
        reads == Len(SelectSeq(SubSeq(c.reqs, 1, v(1)), LAMBDA r : r.rd /\ ~r.match))
    IN CASE p > Len(response) -> 1
         [] p <= Len(response) /\ response[p].what = "invalid" -> 1
         [] OTHER ->
              CASE c.op = "info" -> 2 + v(1)
                [] c.op = "reset" -> 3
                [] c.op \in {"swdseq", "jtagseq"} ->
                     2 + SumOver(c.list, LAMBDA s : IF s.in THEN SequenceBytes(s.field) ELSE 0)
                [] c.op = "idcode" -> IF v(1) = 0 THEN 2 + Word ELSE 2
                [] c.op = "transfer" -> 3 + Word * reads
                [] c.op = "block" -> 4 + IF c.rd THEN Word * v(1) ELSE 0
                [] OTHER -> 2
AnswersEnd ==
    LET end[k \in 0..run.done] ==
          IF k = 0 THEN (IF packet.exec THEN 2 ELSE 0)
          ELSE end[k - 1] + AnswerSize(packet.cmds[k], end[k - 1] + 1)
    IN end

(* A host that reads the response, if one is sent, so finds the answer to each of its        *)
(* commands, up to the first the probe refuses or the end of the packet,    *)
(* and nothing after them.  The exceptions: a block without a port or       *)
(* device, whose answer is missing; a block of no words over SWD, which     *)
(* reports the count of another command; and a DAP_Transfer cut short by an *)
(* abort or an error, which reports as many transfers as were asked for.    *)
AnswersFound ==
    run.pc = "sent" /\ run.odd \cap {"unheard", "empty", "cut", "failed"} = {} =>
      /\ AnswersEnd[run.done] = Len(response)
      /\ \A k \in 1..run.done :
           LET first == response[AnswersEnd[k - 1] + 1] IN
           first.of = k /\ first.what \in {"id", "invalid"}
      /\ run.done < Len(packet.cmds) =>
           Len(response) >= PktSize \/ response[Len(response)].what = "invalid"

(* dap_request_handler, by its comment, returns the "Len of response        *)
(* message": each answer its handlers wrote is counted.                     *)
LengthOfResponse == run.pc = "sent" => run.top = Len(response)
=============================================================================

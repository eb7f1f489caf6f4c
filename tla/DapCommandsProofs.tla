------------------------- MODULE DapCommandsProofs -------------------------
(* Proofs about the commands: the settings of the probe, for all clocks,    *)
(* idle cycles, retry counts and turnarounds a host may send; a call of     *)
(* swd.c, for all requests, words, settings and answers of the target; and  *)
(* a transfer command, for all packets, answers and aborts.                 *)
EXTENDS DapCommands, TLAPS, SequenceTheorems, FunctionTheorems, FiniteSetTheorems

----------------------------------------------------------------------------
(* The settings.                                                            *)
PortNames == {"swd", "jtag", "disabled"}
Infos == [port : PortNames, khz : Nat, idle : Nat, retry : Nat, trn : Nat, force : BOOLEAN, reconfig : BOOLEAN]

(* While a port is connected, the pins that are driven are those            *)
(* port_deinit releases and the loose ones.                                 *)
SessionInv ==
    /\ info \in Infos
    /\ SettingsInForce
    /\ pins \subseteq loose \cup Released(info.port)

(* What dap_swd_config and dap_jtag_config make of the settings depends     *)
(* neither on the port nor on whether the pins are to be set up again.      *)
LEMMA ReconfigIgnored ==
    ASSUME NEW i \in Infos, NEW flag \in BOOLEAN, NEW j, j = [i EXCEPT !.reconfig = flag]
    PROVE /\ SwdConfig(j) = SwdConfig(i) /\ JtagConfig(j) = JtagConfig(i)
          /\ j \in Infos /\ j.port = i.port /\ j.khz = i.khz
  BY DEF Infos, SwdConfig, JtagConfig

LEMMA PortIgnored ==
    ASSUME NEW i \in Infos, NEW port \in PortNames, NEW j, j = [i EXCEPT !.port = port]
    PROVE /\ SwdConfig(j) = SwdConfig(i) /\ JtagConfig(j) = JtagConfig(i)
          /\ j \in Infos /\ j.port = port /\ j.khz = i.khz
  BY DEF Infos, SwdConfig, JtagConfig

(* Turnaround and forced data phases are of SWD only.                       *)
LEMMA ForceIgnored ==
    ASSUME NEW i \in Infos, NEW force \in BOOLEAN, NEW j, j = [i EXCEPT !.force = force]
    PROVE JtagConfig(j) = JtagConfig(i) /\ j \in Infos /\ j.port = i.port /\ j.khz = i.khz
  BY DEF Infos, JtagConfig

(* The pins a port drives are among those it releases.                      *)
LEMMA OutputsReleased ==
    ASSUME NEW port \in PortNames, NEW p, NEW l, p \subseteq l \cup Released(port)
    PROVE /\ Reconfigured(p, port) \subseteq l \cup Released(port)
          /\ Released("disabled") = {}
  BY DEF PortNames, Reconfigured, Inputs, Outputs, Released, SwdPins, JtagPins

(* A command that changes settings and leaves the port as it is.            *)
LEMMA ApplyKeeps ==
    ASSUME SessionInv, NEW i \in Infos, i.port = info.port, Apply(i)
    PROVE SessionInv'
<1>1. info' \in Infos /\ info'.port = info.port BY DEF Apply
<1>2. SettingsInForce' BY <1>1 DEF SessionInv, SettingsInForce, Apply
<1>3. QED BY <1>1, <1>2 DEF SessionInv, Apply

(* Raw sequences of SWD: what they leave driven is loose.                   *)
LEMMA RawKeeps ==
    ASSUME NEW p, NEW in, NEW bytes, NEW tail, NEW r, p \subseteq loose \cup r,
           SwdRaw(p, in, bytes, tail)
    PROVE pins' \subseteq loose' \cup r
  BY DEF SwdRaw, Clocked

(* A command that changes the pins and no setting of a wire.                *)
LEMMA PinsKeep ==
    ASSUME SessionInv, info' \in Infos, info'.port = info.port, info'.khz = info.khz,
           SwdConfig(info') = SwdConfig(info), JtagConfig(info') = JtagConfig(info),
           UNCHANGED <<swd, jtag>>, pins' \subseteq loose' \cup Released(info.port)
    PROVE SessionInv'
<1>1. Released("disabled") = {} BY DEF Released
<1>2. SettingsInForce' BY <1>1 DEF SessionInv, SettingsInForce
<1>. QED BY <1>2 DEF SessionInv

(* When the probe starts.                                                   *)
LEMMA InitSession == SessionInit => SessionInv
<1>. SUFFICES ASSUME SessionInit PROVE SessionInv OBVIOUS
<1>1. info \in Infos /\ info.port = "swd" BY SMT DEF SessionInit, Infos, PortNames, DefaultClock
<1>2. SettingsInForce BY <1>1 DEF SessionInit, SettingsInForce
<1>3. pins \subseteq Released("swd") BY DEF SessionInit, Outputs, Released, SwdPins
<1>. QED BY <1>1, <1>2, <1>3 DEF SessionInv

(* Every command keeps the invariant.                                       *)
LEMMA NextSession == SessionInv /\ [SessionNext]_sessionVars => SessionInv'
<1>. SUFFICES ASSUME SessionInv, [SessionNext]_sessionVars PROVE SessionInv' OBVIOUS
<1>. USE SessionAssumption
<1>0. info \in Infos /\ info.port \in PortNames BY DEF SessionInv, Infos
<1>1. ASSUME NEW port \in {"swd", "jtag"}, Connect(port) PROVE SessionInv'
  <2>. DEFINE i == [info EXCEPT !.port = port]
  <2>1. info' = [i EXCEPT !.reconfig = FALSE] BY <1>1, Zenon DEF Connect
  <2>2. /\ SwdConfig(i) = SwdConfig(info) /\ JtagConfig(i) = JtagConfig(info)
        /\ i \in Infos /\ i.port = port /\ i.khz = info.khz
    BY <1>0, PortIgnored DEF PortNames
  <2>. HIDE DEF i
  <2>3. /\ SwdConfig(info') = SwdConfig(info) /\ JtagConfig(info') = JtagConfig(info)
        /\ info' \in Infos /\ info'.port = port /\ info'.khz = info.khz
    BY <2>1, <2>2, ReconfigIgnored
  <2>4. port \in PortNames /\ port # "disabled" BY DEF PortNames
  <2>5. /\ port = "swd" => swd' = ConfigureNewSwd(info)
        /\ port = "jtag" => jtag' = ConfigureNewJtag(info)
        /\ pins' = Reconfigured(pins \ Released(info.port), port)
        /\ loose' = loose \ Released(info.port)
    BY <1>1 DEF Connect
  <2>6. SettingsInForce'
    BY <2>3, <2>4, <2>5 DEF SettingsInForce, ConfigureNewSwd, ConfigureNewJtag
  <2>7. pins \ Released(info.port) \subseteq loose' \cup Released(port)
    BY <2>5 DEF SessionInv
  <2>8. pins' \subseteq loose' \cup Released(port)
    BY <2>4, <2>5, <2>7, OutputsReleased
  <2>. QED BY <2>3, <2>6, <2>8 DEF SessionInv
<1>2. ASSUME ConnectOther PROVE SessionInv'
  <2>1. info' \in Infos /\ info'.port = "disabled" BY <1>0, <1>2 DEF ConnectOther, Infos, PortNames
  <2>2. pins' \subseteq loose' BY <1>2 DEF ConnectOther
  <2>3. SettingsInForce' BY <2>1, <2>2 DEF SettingsInForce
  <2>. QED BY <2>1, <2>2, <2>3 DEF SessionInv
<1>3. ASSUME Disconnect PROVE SessionInv'
  <2>. DEFINE i == [info EXCEPT !.port = "disabled"]
  <2>1. info' = [i EXCEPT !.reconfig = TRUE] BY <1>3, Zenon DEF Disconnect
  <2>2. i \in Infos /\ i.port = "disabled" BY <1>0, PortIgnored DEF PortNames
  <2>. HIDE DEF i
  <2>3. info' \in Infos /\ info'.port = "disabled" BY <2>1, <2>2, ReconfigIgnored
  <2>4. pins' = pins \ Released(info.port) /\ loose' = loose \ Released(info.port)
    BY <1>3, Zenon DEF Disconnect
  <2>5. pins' \subseteq loose' BY <2>4 DEF SessionInv
  <2>6. SettingsInForce' BY <2>3, <2>5 DEF SettingsInForce
  <2>. QED BY <2>3, <2>5, <2>6 DEF SessionInv
<1>4. ASSUME NEW khz \in Clocks, SwjClock(khz) PROVE SessionInv'
  <2>1. Stored(khz) \in Nat BY SMT DEF Stored, DefaultClock
  <2>2. [info EXCEPT !.khz = Stored(khz)] \in Infos /\ [info EXCEPT !.khz = Stored(khz)].port = info.port
    BY <1>0, <2>1 DEF Infos
  <2>. QED BY <1>4, <2>2, ApplyKeeps DEF SwjClock
<1>5. ASSUME NEW idle \in IdleSettings, NEW retry \in RetrySettings, TransferConfigure(idle, retry)
      PROVE SessionInv'
  <2>. DEFINE i == [info EXCEPT !.idle = idle]
              j == [i EXCEPT !.retry = Greatest(retry, 255)]
  <2>1. idle \in Nat /\ Greatest(retry, 255) \in Nat BY SMT DEF Greatest
  <2>2. i \in Infos /\ i.port = info.port BY <1>0, <2>1 DEF Infos
  <2>3. Apply(j) BY <1>5, Zenon DEF TransferConfigure
  <2>. HIDE DEF i
  <2>4. j \in Infos /\ j.port = info.port BY <2>1, <2>2 DEF Infos
  <2>. QED BY <2>3, <2>4, ApplyKeeps
<1>6. ASSUME NEW trn \in TrnSettings, NEW force \in BOOLEAN, SwdConfigure(trn, force) PROVE SessionInv'
  <2>. DEFINE i == [info EXCEPT !.trn = trn]
  <2>1. info' = [i EXCEPT !.force = force] BY <1>6, Zenon DEF SwdConfigure
  <2>2. i \in Infos /\ i.port = info.port /\ i.khz = info.khz /\ JtagConfig(i) = JtagConfig(info)
    BY <1>0 DEF Infos, JtagConfig
  <2>. HIDE DEF i
  <2>3. info' \in Infos /\ info'.port = info.port /\ info'.khz = info.khz
        /\ JtagConfig(info') = JtagConfig(info)
    BY <2>1, <2>2, ForceIgnored
  <2>4. swd' = SwdConfig(info') /\ UNCHANGED <<jtag, pins, loose>> BY <1>6, Zenon DEF SwdConfigure
  <2>5. SettingsInForce' BY <2>3, <2>4 DEF SessionInv, SettingsInForce
  <2>. QED BY <2>3, <2>4, <2>5 DEF SessionInv
<1>7. ASSUME NEW pin \in SwjSelected, SwjPins({pin}) PROVE SessionInv'
  <2>1. /\ SwdConfig(info') = SwdConfig(info) /\ JtagConfig(info') = JtagConfig(info)
        /\ info' \in Infos /\ info'.port = info.port /\ info'.khz = info.khz
    BY <1>0, <1>7, ReconfigIgnored DEF SwjPins
  <2>2. pins' = pins \cup {pin} /\ loose' = loose \cup {pin} /\ UNCHANGED <<swd, jtag>>
    BY <1>7 DEF SwjPins
  <2>3. SettingsInForce' BY <2>1, <2>2 DEF SessionInv, SettingsInForce
  <2>. QED BY <2>1, <2>2, <2>3 DEF SessionInv
<1>8. ASSUME NEW bytes \in BOOLEAN, NEW tail \in BOOLEAN, SwjSequence(bytes, tail) PROVE SessionInv'
  <2>1. /\ SwdConfig(info') = SwdConfig(info) /\ JtagConfig(info') = JtagConfig(info)
        /\ info' \in Infos /\ info'.port = info.port /\ info'.khz = info.khz
    BY <1>0, <1>8, ReconfigIgnored DEF SwjSequence
  <2>2. PICK p : p = IF info.reconfig THEN Reconfigured(pins, info.port) ELSE pins OBVIOUS
  <2>3. p \subseteq loose \cup Released(info.port)
    BY <1>0, <2>2, OutputsReleased DEF SessionInv
  <2>4. /\ SwdRaw(p, FALSE, bytes, tail) \/ (pins' = p /\ loose' = loose)
        /\ UNCHANGED <<swd, jtag>>
    BY <1>8, <2>2 DEF SwjSequence
  <2>5. pins' \subseteq loose' \cup Released(info.port)
    BY <2>3, <2>4, RawKeeps
  <2>. QED BY <2>1, <2>4, <2>5, PinsKeep
<1>9. ASSUME \/ \E in, bytes, tail \in BOOLEAN : SwdSequence(in, bytes, tail)
             \/ JtagSequence \/ Access
      PROVE SessionInv'
  <2>1. /\ \/ \E in, bytes, tail : SwdRaw(pins, in, bytes, tail)
           \/ UNCHANGED <<pins, loose>>
        /\ UNCHANGED <<info, swd, jtag>>
    BY <1>9 DEF SwdSequence, JtagSequence, Access
  <2>2. pins \subseteq loose \cup Released(info.port) BY DEF SessionInv
  <2>3. pins' \subseteq loose' \cup Released(info.port) BY <2>1, <2>2, RawKeeps
  <2>. QED BY <1>0, <2>1, <2>3, PinsKeep
<1>10. ASSUME UNCHANGED <<info, swd, jtag, pins, loose>> PROVE SessionInv'
  BY <1>10 DEF SessionInv, SettingsInForce
<1>11. (\E key \in BOOLEAN : VendorUpdate(key)) \/ VendorReset \/ UNCHANGED sessionVars
         => UNCHANGED <<info, swd, jtag, pins, loose>>
  BY DEF VendorUpdate, VendorReset, sessionVars
<1>. QED BY <1>1, <1>2, <1>3, <1>4, <1>5, <1>6, <1>7, <1>8, <1>9, <1>10, <1>11 DEF SessionNext

----------------------------------------------------------------------------
(* A call of swd.c.                                                         *)
Names == {"request", "trn", "ack", "rdata", "rparity", "wdata", "wparity", "ridle", "widle",
          "clock", "ignore", "out"}
Phases == Seq([phase : Names, n : Nat])

(* Counting down the first phase.                                           *)
LEMMA ThenTicks ==
    ASSUME NEW p \in Names, NEW n \in Nat \ {0}, NEW s \in Phases
    PROVE /\ Then(p, n, s) # <<>>
          /\ Head(Then(p, n, s)) = Phase(p, n)
          /\ Now(Then(p, n, s)) = Phase(p, n)
          /\ Phase(p, n).phase = p /\ Phase(p, n).n = n
          /\ Tick(Then(p, n, s)) = IF n = 1 THEN s ELSE Then(p, n - 1, s)
<1>. DEFINE t == Then(p, n, s)
<1>1. Phase(p, n) \in [phase : Names, n : Nat] /\ Phase(p, n).phase = p /\ Phase(p, n).n = n
  BY DEF Phase
<1>2. t # <<>> /\ Head(t) = Phase(p, n) /\ Tail(t) = s
  BY <1>1 DEF Then, Phases
<1>. QED BY <1>1, <1>2 DEF Tick, Now

LEMMA ThenType ==
    /\ <<>> \in Phases
    /\ \A p \in Names, n \in Nat, s \in Phases : Then(p, n, s) \in Phases
  BY DEF Then, Phase, Phases

LEMMA NamesAre ==
    /\ "request" \in Names /\ "trn" \in Names /\ "ack" \in Names /\ "rdata" \in Names
    /\ "rparity" \in Names /\ "wdata" \in Names /\ "wparity" \in Names /\ "ridle" \in Names
    /\ "widle" \in Names /\ "clock" \in Names /\ "ignore" \in Names /\ "out" \in Names
  BY DEF Names

LEMMA CallTypes ==
    ASSUME NEW c \in Calls
    PROVE /\ c.trn \in 1..14 /\ c.trn \in Nat \ {0} /\ c.trn + 1 \in Nat
          /\ c.idle \in Nat /\ c.limit \in Nat /\ c.force \in BOOLEAN /\ c.pullUp \in BOOLEAN
          /\ c.data \in SUBSET (0..31) /\ c.request \in SUBSET (0..7)
          /\ c.parityError \in BOOLEAN
          /\ IdleClocks(c) \in Phases
<1>1. c.trn \in Trns /\ c.idle \in Idles /\ c.limit \in Limits /\ c.data \in Words
      /\ c.request \in Requests
  BY DEF Calls
<1>2. c.force \in BOOLEAN /\ c.pullUp \in BOOLEAN /\ c.parityError \in BOOLEAN BY DEF Calls
<1>3. Trns \subseteq 1..14 /\ Idles \subseteq 0..192 /\ Limits \subseteq Nat BY SwdAssumption
<1>a. c.trn \in 1..14 BY <1>1, <1>3
<1>b. c.idle \in 0..192 BY <1>1, <1>3
<1>c. c.limit \in Nat BY <1>1, <1>3
<1>4. c.trn \in Nat \ {0} /\ c.trn + 1 \in Nat BY <1>a
<1>5. c.idle \in Nat BY <1>b
<1>6. c.data \in SUBSET (0..31) /\ c.request \in SUBSET (0..7) BY <1>1, SwdAssumption
<1>7. IdleClocks(c) \in Phases BY <1>5, ThenType, NamesAre DEF IdleClocks
<1>. QED BY <1>2, <1>a, <1>c, <1>4, <1>5, <1>6, <1>7

LEMMA AfterReplyType ==
    ASSUME NEW c \in Calls, NEW a \in Acks
    PROVE AfterReply(c, a) \in Phases
<1>0. c.trn \in Nat BY CallTypes
<1>1. c.force \in BOOLEAN BY CallTypes
<1>2. <<>> \in Phases BY ThenType, NamesAre
<1>3. Then("trn", c.trn, <<>>) \in Phases BY <1>0, <1>2, ThenType, NamesAre
<1>4. Then("wparity", 1, <<>>) \in Phases BY <1>2, ThenType, NamesAre
<1>5. Then("ignore", 33, <<>>) \in Phases BY <1>2, ThenType, NamesAre
<1>6. Then("trn", c.trn, Then("ignore", 33, <<>>)) \in Phases BY <1>0, <1>5, ThenType, NamesAre
<1>7. Then("rdata", 33, Then("trn", c.trn, <<>>)) \in Phases BY <1>3, ThenType, NamesAre
<1>8. Then("rparity", 1, Then("trn", c.trn, <<>>)) \in Phases BY <1>3, ThenType, NamesAre
<1>9. Then("wdata", 32, Then("wparity", 1, <<>>)) \in Phases BY <1>4, ThenType, NamesAre
<1>10. Then("rdata", 32, Then("rparity", 1, Then("trn", c.trn, <<>>))) \in Phases BY <1>8, ThenType, NamesAre
<1>11. Then("trn", c.trn, Then("wdata", 32, Then("wparity", 1, <<>>))) \in Phases BY <1>0, <1>9, ThenType, NamesAre
<1>12. CASE a = "OK" BY <1>12, <1>10, <1>11 DEF AfterReply
<1>13. CASE a # "OK" BY <1>13, <1>1, <1>3, <1>6, <1>7 DEF AfterReply
<1>. QED BY <1>12, <1>13

----------------------------------------------------------------------------
(* The stages of a call.  In each, the lists of probe and target say where  *)
(* both are, and m is the number of clocks left of the phase.               *)
Out == Then("out", 1, <<>>)
At(probe, other, a, k) == todo = probe /\ target = other /\ ack = a /\ performed = k

(* The request goes out, the first clock to a target that waits for it.     *)
Asks(m) == At(Then("request", m, Then("trn", call.trn, Then("ack", 3, <<>>))),
              IF m = 8 THEN <<>> ELSE Then("request", m, <<>>), "", 0)

(* The target has not taken the request, and stays silent.                  *)
UnheardTrn(m) == At(Then("trn", m, Then("ack", 3, <<>>)), Out, "", 0)
UnheardAck(m) == At(Then("ack", m, <<>>), Out, "", 0)
UnheardClock(m) == At(Then("clock", m, Then("clock", 1, <<>>)), Out, "silence", 0)
UnheardLast == At(Then("clock", 1, <<>>), Out, "silence", 0)
UnheardEnd == At(<<>>, Out, "silence", 0)
Unheard ==
    /\ answer = "none"
    /\ \/ \E m \in 1..call.trn : UnheardTrn(m)
       \/ \E m \in 1..3 : UnheardAck(m)
       \/ \E m \in 1..32 : UnheardClock(m)
       \/ UnheardLast \/ UnheardEnd

(* It has, and answers.                                                     *)
HearsTrn(m) == At(Then("trn", m, Then("ack", 3, <<>>)),
                  Then("trn", m, Then("ack", 3, AfterReply(call, answer))), "", 0)
HearsAck(m) == At(Then("ack", m, <<>>), Then("ack", m, AfterReply(call, answer)), "", 0)
Hearing ==
    /\ answer \in Acks
    /\ (\E m \in 1..call.trn : HearsTrn(m)) \/ (\E m \in 1..3 : HearsAck(m))

(* A word goes over the line.                                               *)
ReadsData(m) == At(Then("rdata", m, Then("rparity", 1, Then("trn", call.trn, IdleClocks(call)))),
                   Then("rdata", m, Then("rparity", 1, Then("trn", call.trn, <<>>))), "OK", 0)
ReadsParity == At(Then("rparity", 1, Then("trn", call.trn, IdleClocks(call))),
                  Then("rparity", 1, Then("trn", call.trn, <<>>)), "OK", 0)
ReadsTrn(m) == At(Then("trn", m, IdleClocks(call)), Then("trn", m, <<>>), "OK", 1)
Reading ==
    /\ answer = "OK" /\ ~IsWrite(call.request)
    /\ (\E m \in 1..32 : ReadsData(m)) \/ ReadsParity \/ (\E m \in 1..call.trn : ReadsTrn(m))

WritesTrn(m) == At(Then("trn", m, Then("wdata", 32, Then("wparity", 1, IdleClocks(call)))),
                   Then("trn", m, Then("wdata", 32, Then("wparity", 1, <<>>))), "OK", 0)
WritesData(m) == At(Then("wdata", m, Then("wparity", 1, IdleClocks(call))),
                    Then("wdata", m, Then("wparity", 1, <<>>)), "OK", 0)
WritesParity == At(Then("wparity", 1, IdleClocks(call)), Then("wparity", 1, <<>>), "OK", 0)
Writing ==
    /\ answer = "OK" /\ IsWrite(call.request)
    /\ (\E m \in 1..call.trn : WritesTrn(m)) \/ (\E m \in 1..32 : WritesData(m)) \/ WritesParity

(* After it come the idle clocks; the target waits, or has taken one of     *)
(* them for a start bit.                                                    *)
IdleName == IF IsWrite(call.request) THEN "widle" ELSE "ridle"
Rests(other) ==
    \/ At(<<>>, other, "OK", 1)
    \/ call.idle > 0 /\ \E m \in 1..call.idle : At(Then(IdleName, m, <<>>), other, "OK", 1)
Resting == answer = "OK" /\ (Rests(<<>>) \/ (Rests(Out) /\ IdleClocksHigh))

(* The request is refused; a data phase follows if the host forces one.     *)
RefusedTrn(m) == At(Then("trn", m, <<>>), Then("trn", m, <<>>), answer, 0)
RefusedEnd == At(<<>>, <<>>, answer, 0)
Refused ==
    /\ answer \in {"WAIT", "FAULT"}
    /\ (~call.force /\ \E m \in 1..call.trn : RefusedTrn(m)) \/ RefusedEnd

ForcedTrn(m) == At(Then("trn", m, Then("clock", 32, Then("clock", 1, <<>>))),
                   Then("trn", m, Then("ignore", 33, <<>>)), answer, 0)
ForcedWrite(m) == At(Then("clock", m, Then("clock", 1, <<>>)), Then("ignore", m + 1, <<>>), answer, 0)
ForcedWriteLast == At(Then("clock", 1, <<>>), Then("ignore", 1, <<>>), answer, 0)
ForcedRead(m) == At(Then("clock", m, Then("clock", 1 + call.trn, <<>>)),
                    Then("rdata", m + 1, Then("trn", call.trn, <<>>)), answer, 0)
ForcedReadLast == At(Then("clock", 1 + call.trn, <<>>), Then("rdata", 1, Then("trn", call.trn, <<>>)), answer, 0)
ForcedReadTrn(m) == At(Then("clock", m, <<>>), Then("trn", m, <<>>), answer, 0)
Forced ==
    /\ answer \in {"WAIT", "FAULT"} /\ call.force
    /\ \/ \E m \in 1..call.trn : ForcedTrn(m) \/ ForcedReadTrn(m)
       \/ \E m \in 1..32 : ForcedWrite(m) \/ ForcedRead(m)
       \/ ForcedWriteLast \/ ForcedReadLast

Stage ==
    \/ \E m \in 1..8 : Asks(m)
    \/ Unheard \/ Hearing \/ Reading \/ Writing \/ Resting \/ Refused \/ Forced

(* What a call that is over has returned.                                   *)
Value ==
    IF ack # "OK" THEN Temp(call, ack)
    ELSE IF IsWrite(call.request) \/ ParitySent = Parity32(call.data) THEN "OK"
    ELSE "OK|MISMATCH"
SwdInv ==
    /\ call \in Calls
    /\ tries \in Nat /\ tries <= call.limit /\ (call.force => tries = 0)
    /\ Stage
    /\ result # "" => todo = <<>> /\ ~MayRestart /\ result = Value

(* What a clock does to the probe in phase p, and to the target.            *)
ProbeGoes(p, n, s) ==
    /\ todo' = IF n = 1 THEN s ELSE Then(p, n - 1, s)
    /\ ack' = ack
TargetGoes(p, n, s) ==
    /\ target' = IF n = 1 THEN s ELSE Then(p, n - 1, s)
    /\ answer' = answer
    /\ performed' = performed + IF p \in {"wparity", "rparity"} THEN 1 ELSE 0
TargetStays == target' = Out /\ answer' = answer /\ performed' = performed
Others == call' = call /\ tries' = tries /\ result' = result /\ result = ""

LEMMA ClockLeaves == SwdClock => Others
  BY DEF SwdClock, Others

(* A clock of the probe within a phase, or at its end.                      *)
LEMMA ProbeTicks ==
    ASSUME SwdClock, NEW p \in Names, NEW n \in Nat \ {0}, NEW s \in Phases,
           todo = Then(p, n, s), p = "ack" => n # 1
    PROVE ProbeGoes(p, n, s)
<1>1. Head(todo) = Phase(p, n) /\ Phase(p, n).phase = p /\ Phase(p, n).n = n
      /\ Tick(todo) = IF n = 1 THEN s ELSE Then(p, n - 1, s)
  BY ThenTicks
<1>. QED BY <1>1 DEF SwdClock, ProbeGoes

(* The clock of the third acknowledge bit.                                  *)
LEMMA ProbeHears ==
    ASSUME SwdClock, todo = Then("ack", 1, <<>>)
    PROVE todo' = AfterAck(call, AckRead) /\ ack' = AckRead
<1>0. "ack" \in Names /\ 1 \in Nat \ {0} /\ <<>> \in Phases BY ThenType, NamesAre
<1>1. Head(todo) = Phase("ack", 1) /\ Phase("ack", 1).phase = "ack" /\ Phase("ack", 1).n = 1
  BY <1>0, ThenTicks
<1>. QED BY <1>1 DEF SwdClock

(* The same clocks for the target: within an answer, aside, and waiting.    *)
LEMMA TargetTicks ==
    ASSUME SwdClock, NEW p \in Names, NEW n \in Nat \ {0}, NEW s \in Phases,
           target = Then(p, n, s), p # "out", p = "request" => n # 1
    PROVE TargetGoes(p, n, s)
<1>1. Now(target) = Phase(p, n) /\ Phase(p, n).phase = p /\ Phase(p, n).n = n
      /\ Tick(target) = IF n = 1 THEN s ELSE Then(p, n - 1, s)
  BY ThenTicks
<1>2. p # "idle" BY DEF Names
<1>3. PICK q : TargetClock(q) BY DEF SwdClock
<1>. QED BY <1>1, <1>2, <1>3 DEF TargetClock, TargetGoes

LEMMA TargetOut ==
    ASSUME SwdClock, target = Out
    PROVE TargetStays
<1>0. "out" \in Names /\ 1 \in Nat \ {0} /\ <<>> \in Phases BY ThenType, NamesAre
<1>1. Now(target) = Phase("out", 1) /\ Phase("out", 1).phase = "out"
  BY <1>0, ThenTicks DEF Out
<1>2. PICK q : TargetClock(q) BY DEF SwdClock
<1>. QED BY <1>1, <1>2 DEF TargetClock, TargetStays

LEMMA TargetIdle ==
    ASSUME SwdClock, target = <<>>, NEW p \in Names, NEW n \in Nat \ {0}, NEW s \in Phases,
           todo = Then(p, n, s)
    PROVE /\ target' = IF ~LineHigh(call, Phase(p, n)) THEN <<>>
                       ELSE IF p = "request" THEN Then("request", 7, <<>>) ELSE Out
          /\ answer' = answer /\ performed' = performed
<1>1. Now(target).phase = "idle" BY DEF Now, Phase
<1>2. Head(todo) = Phase(p, n) /\ Phase(p, n).phase = p BY ThenTicks
<1>3. TargetClock(Phase(p, n)) BY <1>2 DEF SwdClock
<1>. QED BY <1>1, <1>2, <1>3 DEF TargetClock, Out

LEMMA TargetDecides ==
    ASSUME SwdClock, target = Then("request", 1, <<>>)
    PROVE /\ performed' = performed
          /\ \E a \in Acks \cup {"none"} : answer' = a /\ target' = Reply(call, a)
<1>0. "request" \in Names /\ 1 \in Nat \ {0} /\ <<>> \in Phases BY ThenType, NamesAre
<1>1. Now(target) = Phase("request", 1) /\ Phase("request", 1).phase = "request" /\ Phase("request", 1).n = 1
  BY <1>0, ThenTicks
<1>2. PICK q : TargetClock(q) BY DEF SwdClock
<1>. QED BY <1>1, <1>2 DEF TargetClock

(* What may follow a phase.                                                 *)
LEMMA Tails ==
    ASSUME call \in Calls
    PROVE /\ <<>> \in Phases
          /\ Then("ack", 3, <<>>) \in Phases /\ Then("trn", call.trn, Then("ack", 3, <<>>)) \in Phases
          /\ Then("clock", 1, <<>>) \in Phases /\ Then("clock", 32, Then("clock", 1, <<>>)) \in Phases
          /\ Then("clock", 1 + call.trn, <<>>) \in Phases
          /\ Then("ignore", 33, <<>>) \in Phases
          /\ \A s \in Phases :
               /\ Then("trn", call.trn, s) \in Phases
               /\ Then("rparity", 1, s) \in Phases
               /\ Then("wparity", 1, s) \in Phases
               /\ Then("wdata", 32, s) \in Phases
               /\ Then("ack", 3, s) \in Phases
<1>1. call.trn \in Nat BY CallTypes
<1>2. <<>> \in Phases BY ThenType
<1>3. \A s \in Phases : /\ Then("trn", call.trn, s) \in Phases
                        /\ Then("rparity", 1, s) \in Phases
                        /\ Then("wparity", 1, s) \in Phases
                        /\ Then("wdata", 32, s) \in Phases
                        /\ Then("ack", 3, s) \in Phases
                        /\ Then("clock", 32, s) \in Phases
  BY <1>1, ThenType, NamesAre
<1>4. Then("clock", 1, <<>>) \in Phases /\ Then("ignore", 33, <<>>) \in Phases
  BY <1>2, ThenType, NamesAre
<1>5. 1 + call.trn \in Nat BY <1>1
<1>6. Then("clock", 1 + call.trn, <<>>) \in Phases BY <1>2, <1>5, ThenType, NamesAre
<1>. QED BY <1>2, <1>3, <1>4, <1>6

(* Both go on by one clock.                                                 *)
Goes(p, n, s, q, k, t) == ProbeGoes(p, n, s) /\ TargetGoes(q, k, t)
LEMMA BothTick ==
    ASSUME SwdClock, NEW p \in Names, NEW n \in Nat \ {0}, NEW s \in Phases,
           NEW q \in Names, NEW k \in Nat \ {0}, NEW t \in Phases,
           todo = Then(p, n, s), target = Then(q, k, t), p # "ack", q # "out", q # "request"
    PROVE Goes(p, n, s, q, k, t)
<1>1. ProbeGoes(p, n, s) BY ProbeTicks
<1>2. TargetGoes(q, k, t) BY TargetTicks
<1>. QED BY <1>1, <1>2 DEF Goes

(* A target out of step, for any clock of the probe but the third of the    *)
(* acknowledge.                                                             *)
LEMMA ProbeAlone ==
    ASSUME SwdClock, target = Out, NEW p \in Names, NEW n \in Nat \ {0}, NEW s \in Phases,
           todo = Then(p, n, s), p # "ack"
    PROVE ProbeGoes(p, n, s) /\ TargetStays
<1>1. ProbeGoes(p, n, s) BY ProbeTicks
<1>. QED BY <1>1, TargetOut

LEMMA UnheardTrnGoes ==
    ASSUME call \in Calls, SwdClock, NEW m \in 1..call.trn, UnheardTrn(m)
    PROVE IF m = 1 THEN UnheardAck(3)' ELSE UnheardTrn(m - 1)'
<1>1. todo = Then("trn", m, Then("ack", 3, <<>>)) /\ target = Out BY DEF UnheardTrn, At
<1>2. m \in Nat \ {0} /\ "trn" \in Names BY CallTypes, NamesAre
<1>3. Then("ack", 3, <<>>) \in Phases BY Tails
<1>4. ProbeGoes("trn", m, Then("ack", 3, <<>>)) BY <1>1, <1>2, <1>3, ProbeAlone
<1>5. TargetStays BY <1>1, TargetOut
<1>6. CASE m = 1 BY <1>4, <1>5, <1>6 DEF UnheardTrn, UnheardAck, At, ProbeGoes, TargetStays
<1>7. CASE m # 1 BY <1>4, <1>5, <1>7 DEF UnheardTrn, At, ProbeGoes, TargetStays
<1>. QED BY <1>6, <1>7

LEMMA UnheardClockGoes ==
    ASSUME call \in Calls, SwdClock, NEW m \in 1..32, UnheardClock(m)
    PROVE IF m = 1 THEN UnheardLast' ELSE UnheardClock(m - 1)'
<1>1. todo = Then("clock", m, Then("clock", 1, <<>>)) /\ target = Out BY DEF UnheardClock, At
<1>2. m \in Nat \ {0} /\ "clock" \in Names BY CallTypes, NamesAre
<1>3. Then("clock", 1, <<>>) \in Phases BY Tails
<1>4. ProbeGoes("clock", m, Then("clock", 1, <<>>)) BY <1>1, <1>2, <1>3, ProbeAlone
<1>5. TargetStays BY <1>1, TargetOut
<1>6. CASE m = 1 BY <1>4, <1>5, <1>6 DEF UnheardClock, UnheardLast, At, ProbeGoes, TargetStays
<1>7. CASE m # 1 BY <1>4, <1>5, <1>7 DEF UnheardClock, At, ProbeGoes, TargetStays
<1>. QED BY <1>6, <1>7

LEMMA UnheardLastGoes ==
    ASSUME call \in Calls, SwdClock, UnheardLast
    PROVE UnheardEnd'
<1>1. todo = Then("clock", 1, <<>>) /\ target = Out BY DEF UnheardLast, At
<1>2. 1 \in Nat \ {0} /\ "clock" \in Names /\ <<>> \in Phases BY ThenType, NamesAre
<1>3. ProbeGoes("clock", 1, <<>>) BY <1>1, <1>2, ProbeAlone
<1>4. TargetStays BY <1>1, TargetOut
<1>. QED BY <1>3, <1>4 DEF UnheardLast, UnheardEnd, At, ProbeGoes, TargetStays

LEMMA UnheardAckGoes ==
    ASSUME call \in Calls, SwdClock, NEW m \in 1..3, UnheardAck(m)
    PROVE IF m = 1 THEN UnheardClock(32)' ELSE UnheardAck(m - 1)'
<1>1. todo = Then("ack", m, <<>>) /\ target = Out BY DEF UnheardAck, At
<1>2. m \in Nat \ {0} /\ "ack" \in Names /\ <<>> \in Phases BY ThenType, NamesAre
<1>3. TargetStays BY <1>1, TargetOut
<1>4. CASE m = 1
  <2>1. "out" \in Names /\ 1 \in Nat \ {0} BY NamesAre
  <2>2. Now(Out) = Phase("out", 1) /\ Phase("out", 1).phase = "out" BY <1>2, <2>1, ThenTicks DEF Out
  <2>3. AckRead = "silence" BY <1>1, <2>2 DEF AckRead
  <2>4. AfterAck(call, "silence") = Then("clock", 32, Then("clock", 1, <<>>))
    BY ZenonT(20) DEF AfterAck, AfterRead, AfterWrite
  <2>5. todo' = AfterAck(call, AckRead) /\ ack' = AckRead BY <1>1, <1>4, ProbeHears
  <2>6. todo' = Then("clock", 32, Then("clock", 1, <<>>)) /\ ack' = "silence" BY <2>3, <2>4, <2>5
  <2>. QED BY <1>3, <1>4, <2>6 DEF UnheardAck, UnheardClock, At, TargetStays
<1>5. CASE m # 1
  <2>1. ProbeGoes("ack", m, <<>>) BY <1>1, <1>2, <1>5, ProbeTicks
  <2>. QED BY <1>3, <1>5, <2>1 DEF UnheardAck, At, ProbeGoes, TargetStays
<1>. QED BY <1>4, <1>5

LEMMA HearsTrnGoes ==
    ASSUME call \in Calls, SwdClock, NEW m \in 1..call.trn, HearsTrn(m), answer \in Acks
    PROVE /\ answer' = answer
          /\ IF m = 1 THEN HearsAck(3)' ELSE HearsTrn(m - 1)'
<1>. DEFINE s == Then("ack", 3, <<>>)
            t == Then("ack", 3, AfterReply(call, answer))
<1>1. todo = Then("trn", m, s) /\ target = Then("trn", m, t) BY DEF HearsTrn, At
<1>2. m \in Nat \ {0} BY CallTypes
<1>3. s \in Phases /\ t \in Phases BY Tails, CallTypes, AfterReplyType
<1>4. Goes("trn", m, s, "trn", m, t)
  <2>. HIDE DEF s, t
  <2>. QED BY <1>1, <1>2, <1>3, NamesAre, BothTick
<1>5. call' = call /\ answer' = answer BY <1>4, ClockLeaves DEF Goes, TargetGoes, Others
<1>6. performed = 0 /\ ack = "" BY DEF HearsTrn, At
<1>0. "trn" \notin {"wparity", "rparity"} OBVIOUS
<1>a. performed' = performed + 0 /\ ack' = ack
  <2>. HIDE DEF s, t
  <2>. QED BY <1>0, <1>4 DEF Goes, ProbeGoes, TargetGoes
<1>b. performed = 0 /\ performed' = performed + 0 BY <1>6, <1>a
<1>c. performed' = 0 BY <1>b
<1>d. ack' = "" BY <1>6, <1>a
<1>7. performed' = 0 /\ ack' = "" BY <1>c, <1>d
<1>8. CASE m = 1
  <2>1. todo' = s /\ target' = t BY <1>4, <1>8 DEF Goes, ProbeGoes, TargetGoes
  <2>. QED BY <1>5, <1>7, <1>8, <2>1 DEF HearsAck, At
<1>9. CASE m # 1
  <2>1. todo' = Then("trn", m - 1, s) /\ target' = Then("trn", m - 1, t)
    BY <1>4, <1>9 DEF Goes, ProbeGoes, TargetGoes
  <2>. QED BY <1>5, <1>7, <1>9, <2>1 DEF HearsTrn, At
<1>. QED BY <1>5, <1>8, <1>9

LEMMA ReadsDataGoes ==
    ASSUME call \in Calls, SwdClock, NEW m \in 1..32, ReadsData(m)
    PROVE /\ answer' = answer
          /\ IF m = 1 THEN ReadsParity' ELSE ReadsData(m - 1)'
<1>. DEFINE s == Then("rparity", 1, Then("trn", call.trn, IdleClocks(call)))
            t == Then("rparity", 1, Then("trn", call.trn, <<>>))
<1>1. todo = Then("rdata", m, s) /\ target = Then("rdata", m, t) BY DEF ReadsData, At
<1>2. m \in Nat \ {0} BY CallTypes
<1>3. s \in Phases /\ t \in Phases BY Tails, CallTypes, AfterReplyType
<1>4. Goes("rdata", m, s, "rdata", m, t)
  <2>. HIDE DEF s, t
  <2>. QED BY <1>1, <1>2, <1>3, NamesAre, BothTick
<1>5. call' = call BY ClockLeaves DEF Others
<1>6. CASE m = 1 BY <1>4, <1>5, <1>6 DEF ReadsData, ReadsParity, At, Goes, ProbeGoes, TargetGoes
<1>7. CASE m # 1 BY <1>4, <1>5, <1>7 DEF ReadsData, At, Goes, ProbeGoes, TargetGoes
<1>10. answer' = answer BY <1>4 DEF Goes, TargetGoes
<1>. QED BY <1>6, <1>7, <1>10

LEMMA ReadsParityGoes ==
    ASSUME call \in Calls, SwdClock, ReadsParity
    PROVE answer' = answer /\ ReadsTrn(call.trn)'
<1>. DEFINE s == Then("trn", call.trn, IdleClocks(call))
            t == Then("trn", call.trn, <<>>)
<1>1. todo = Then("rparity", 1, s) /\ target = Then("rparity", 1, t) BY DEF ReadsParity, At
<1>2. 1 \in Nat \ {0} BY CallTypes
<1>3. s \in Phases /\ t \in Phases BY Tails, CallTypes
<1>4. Goes("rparity", 1, s, "rparity", 1, t)
  <2>. HIDE DEF s, t
  <2>. QED BY <1>1, <1>2, <1>3, NamesAre, BothTick
<1>5. call' = call BY ClockLeaves DEF Others
<1>10. answer' = answer BY <1>4 DEF Goes, TargetGoes
<1>11. ReadsTrn(call.trn)' BY <1>2, <1>4, <1>5, <1>10 DEF ReadsParity, ReadsTrn, At, Goes, ProbeGoes, TargetGoes
<1>. QED BY <1>10, <1>11

LEMMA ThenRests ==
    ASSUME call \in Calls, call' = call, todo' = IdleClocks(call), target' = <<>>, ack' = "OK", performed' = 1
    PROVE Rests(<<>>)'
<1>1. call.idle \in Nat BY CallTypes
<1>2. CASE call.idle = 0 BY <1>2 DEF IdleClocks, Rests, At
<1>3. CASE call.idle # 0
  <2>1. call.idle > 0 /\ call.idle \in 1..call.idle BY <1>1, <1>3
  <2>2. todo' = Then(IdleName, call.idle, <<>>) BY <1>3 DEF IdleClocks, IdleName
  <2>3. IdleName' = IdleName BY DEF IdleName
  <2>4. At(Then(IdleName, call.idle, <<>>), <<>>, "OK", 1)' BY <2>2, <2>3 DEF At
  <2>. QED BY <2>1, <2>4 DEF Rests
<1>. QED BY <1>2, <1>3

LEMMA ReadsTrnGoes ==
    ASSUME call \in Calls, SwdClock, NEW m \in 1..call.trn, ReadsTrn(m)
    PROVE /\ answer' = answer
          /\ IF m = 1 THEN Rests(<<>>)' ELSE ReadsTrn(m - 1)'
<1>. DEFINE s == IdleClocks(call)
            t == <<>>
<1>1. todo = Then("trn", m, s) /\ target = Then("trn", m, t) BY DEF ReadsTrn, At
<1>2. m \in Nat \ {0} BY CallTypes
<1>3. s \in Phases /\ t \in Phases BY Tails, CallTypes, AfterReplyType
<1>4. Goes("trn", m, s, "trn", m, t)
  <2>. HIDE DEF s, t
  <2>. QED BY <1>1, <1>2, <1>3, NamesAre, BothTick
<1>5. call' = call BY ClockLeaves DEF Others
<1>6. CASE m = 1
  <2>1. todo' = IdleClocks(call) /\ ack' = "OK" /\ target' = <<>> /\ performed' = 1
    BY <1>4, <1>6 DEF ReadsTrn, At, Goes, ProbeGoes, TargetGoes
  <2>2. answer' = answer BY <1>4 DEF Goes, TargetGoes
  <2>. QED BY <1>5, <1>6, <2>1, <2>2, ThenRests
<1>7. CASE m # 1 BY <1>4, <1>5, <1>7 DEF ReadsTrn, At, Goes, ProbeGoes, TargetGoes
<1>10. answer' = answer BY <1>4 DEF Goes, TargetGoes
<1>. QED BY <1>6, <1>7, <1>10

LEMMA WritesTrnGoes ==
    ASSUME call \in Calls, SwdClock, NEW m \in 1..call.trn, WritesTrn(m)
    PROVE /\ answer' = answer
          /\ IF m = 1 THEN WritesData(32)' ELSE WritesTrn(m - 1)'
<1>. DEFINE s == Then("wdata", 32, Then("wparity", 1, IdleClocks(call)))
            t == Then("wdata", 32, Then("wparity", 1, <<>>))
<1>1. todo = Then("trn", m, s) /\ target = Then("trn", m, t) BY DEF WritesTrn, At
<1>2. m \in Nat \ {0} BY CallTypes
<1>3. s \in Phases /\ t \in Phases BY Tails, CallTypes, AfterReplyType
<1>4. Goes("trn", m, s, "trn", m, t)
  <2>. HIDE DEF s, t
  <2>. QED BY <1>1, <1>2, <1>3, NamesAre, BothTick
<1>5. call' = call BY ClockLeaves DEF Others
<1>6. CASE m = 1 BY <1>4, <1>5, <1>6 DEF WritesTrn, WritesData, At, Goes, ProbeGoes, TargetGoes
<1>7. CASE m # 1 BY <1>4, <1>5, <1>7 DEF WritesTrn, At, Goes, ProbeGoes, TargetGoes
<1>10. answer' = answer BY <1>4 DEF Goes, TargetGoes
<1>. QED BY <1>6, <1>7, <1>10

LEMMA WritesDataGoes ==
    ASSUME call \in Calls, SwdClock, NEW m \in 1..32, WritesData(m)
    PROVE /\ answer' = answer
          /\ IF m = 1 THEN WritesParity' ELSE WritesData(m - 1)'
<1>. DEFINE s == Then("wparity", 1, IdleClocks(call))
            t == Then("wparity", 1, <<>>)
<1>1. todo = Then("wdata", m, s) /\ target = Then("wdata", m, t) BY DEF WritesData, At
<1>2. m \in Nat \ {0} BY CallTypes
<1>3. s \in Phases /\ t \in Phases BY Tails, CallTypes, AfterReplyType
<1>4. Goes("wdata", m, s, "wdata", m, t)
  <2>. HIDE DEF s, t
  <2>. QED BY <1>1, <1>2, <1>3, NamesAre, BothTick
<1>5. call' = call BY ClockLeaves DEF Others
<1>6. CASE m = 1 BY <1>4, <1>5, <1>6 DEF WritesData, WritesParity, At, Goes, ProbeGoes, TargetGoes
<1>7. CASE m # 1 BY <1>4, <1>5, <1>7 DEF WritesData, At, Goes, ProbeGoes, TargetGoes
<1>10. answer' = answer BY <1>4 DEF Goes, TargetGoes
<1>. QED BY <1>6, <1>7, <1>10

LEMMA WritesParityGoes ==
    ASSUME call \in Calls, SwdClock, WritesParity
    PROVE answer' = answer /\ Rests(<<>>)'
<1>. DEFINE s == IdleClocks(call)
            t == <<>>
<1>1. todo = Then("wparity", 1, s) /\ target = Then("wparity", 1, t) BY DEF WritesParity, At
<1>2. 1 \in Nat \ {0} BY CallTypes
<1>3. s \in Phases /\ t \in Phases BY Tails, CallTypes
<1>4. Goes("wparity", 1, s, "wparity", 1, t)
  <2>. HIDE DEF s, t
  <2>. QED BY <1>1, <1>2, <1>3, NamesAre, BothTick
<1>5. call' = call BY ClockLeaves DEF Others
<1>6. todo' = IdleClocks(call) /\ ack' = "OK" /\ target' = <<>> /\ performed' = 1
  BY <1>4 DEF WritesParity, At, Goes, ProbeGoes, TargetGoes
<1>10. answer' = answer BY <1>4 DEF Goes, TargetGoes
<1>. QED BY <1>5, <1>6, <1>10, ThenRests

LEMMA RefusedTrnGoes ==
    ASSUME call \in Calls, SwdClock, NEW m \in 1..call.trn, RefusedTrn(m)
    PROVE /\ answer' = answer
          /\ IF m = 1 THEN RefusedEnd' ELSE RefusedTrn(m - 1)'
<1>. DEFINE s == <<>>
            t == <<>>
<1>1. todo = Then("trn", m, s) /\ target = Then("trn", m, t) BY DEF RefusedTrn, At
<1>2. m \in Nat \ {0} BY CallTypes
<1>3. s \in Phases /\ t \in Phases BY Tails, CallTypes, AfterReplyType
<1>4. Goes("trn", m, s, "trn", m, t)
  <2>. HIDE DEF s, t
  <2>. QED BY <1>1, <1>2, <1>3, NamesAre, BothTick
<1>5. call' = call BY ClockLeaves DEF Others
<1>6. CASE m = 1 BY <1>4, <1>5, <1>6 DEF RefusedTrn, RefusedEnd, At, Goes, ProbeGoes, TargetGoes
<1>7. CASE m # 1 BY <1>4, <1>5, <1>7 DEF RefusedTrn, At, Goes, ProbeGoes, TargetGoes
<1>10. answer' = answer BY <1>4 DEF Goes, TargetGoes
<1>. QED BY <1>6, <1>7, <1>10

LEMMA ForcedTrnGoes ==
    ASSUME call \in Calls, SwdClock, NEW m \in 1..call.trn, ForcedTrn(m)
    PROVE /\ answer' = answer
          /\ IF m = 1 THEN ForcedWrite(32)' ELSE ForcedTrn(m - 1)'
<1>. DEFINE s == Then("clock", 32, Then("clock", 1, <<>>))
            t == Then("ignore", 33, <<>>)
<1>1. todo = Then("trn", m, s) /\ target = Then("trn", m, t) BY DEF ForcedTrn, At
<1>2. m \in Nat \ {0} BY CallTypes
<1>3. s \in Phases /\ t \in Phases BY Tails, CallTypes, AfterReplyType
<1>4. Goes("trn", m, s, "trn", m, t)
  <2>. HIDE DEF s, t
  <2>. QED BY <1>1, <1>2, <1>3, NamesAre, BothTick
<1>5. call' = call BY ClockLeaves DEF Others
<1>6. CASE m = 1 BY <1>4, <1>5, <1>6 DEF ForcedTrn, ForcedWrite, At, Goes, ProbeGoes, TargetGoes
<1>7. CASE m # 1 BY <1>4, <1>5, <1>7 DEF ForcedTrn, At, Goes, ProbeGoes, TargetGoes
<1>10. answer' = answer BY <1>4 DEF Goes, TargetGoes
<1>. QED BY <1>6, <1>7, <1>10

LEMMA ForcedWriteGoes ==
    ASSUME call \in Calls, SwdClock, NEW m \in 1..32, ForcedWrite(m)
    PROVE /\ answer' = answer
          /\ IF m = 1 THEN ForcedWriteLast' ELSE ForcedWrite(m - 1)'
<1>. DEFINE s == Then("clock", 1, <<>>)
            t == <<>>
<1>1. todo = Then("clock", m, s) /\ target = Then("ignore", m + 1, t) BY DEF ForcedWrite, At
<1>2. m \in Nat \ {0} /\ m + 1 \in Nat \ {0} BY CallTypes
<1>3. s \in Phases /\ t \in Phases BY Tails, CallTypes, AfterReplyType
<1>4. Goes("clock", m, s, "ignore", m + 1, t)
  <2>. HIDE DEF s, t
  <2>. QED BY <1>1, <1>2, <1>3, NamesAre, BothTick
<1>5. call' = call BY ClockLeaves DEF Others
<1>6. CASE m = 1 BY <1>4, <1>5, <1>6 DEF ForcedWrite, ForcedWriteLast, At, Goes, ProbeGoes, TargetGoes
<1>7. CASE m # 1 BY <1>4, <1>5, <1>7 DEF ForcedWrite, At, Goes, ProbeGoes, TargetGoes
<1>10. answer' = answer BY <1>4 DEF Goes, TargetGoes
<1>. QED BY <1>6, <1>7, <1>10

LEMMA ForcedWriteLastGoes ==
    ASSUME call \in Calls, SwdClock, ForcedWriteLast
    PROVE answer' = answer /\ RefusedEnd'
<1>. DEFINE s == <<>>
            t == <<>>
<1>1. todo = Then("clock", 1, s) /\ target = Then("ignore", 1, t) BY DEF ForcedWriteLast, At
<1>2. 1 \in Nat \ {0} BY CallTypes
<1>3. s \in Phases /\ t \in Phases BY Tails, CallTypes
<1>4. Goes("clock", 1, s, "ignore", 1, t)
  <2>. HIDE DEF s, t
  <2>. QED BY <1>1, <1>2, <1>3, NamesAre, BothTick
<1>5. call' = call BY ClockLeaves DEF Others
<1>10. answer' = answer BY <1>4 DEF Goes, TargetGoes
<1>11. RefusedEnd' BY <1>2, <1>4, <1>5, <1>10 DEF ForcedWriteLast, RefusedEnd, At, Goes, ProbeGoes, TargetGoes
<1>. QED BY <1>10, <1>11

LEMMA ForcedReadGoes ==
    ASSUME call \in Calls, SwdClock, NEW m \in 1..32, ForcedRead(m)
    PROVE /\ answer' = answer
          /\ IF m = 1 THEN ForcedReadLast' ELSE ForcedRead(m - 1)'
<1>. DEFINE s == Then("clock", 1 + call.trn, <<>>)
            t == Then("trn", call.trn, <<>>)
<1>1. todo = Then("clock", m, s) /\ target = Then("rdata", m + 1, t) BY DEF ForcedRead, At
<1>2. m \in Nat \ {0} /\ m + 1 \in Nat \ {0} BY CallTypes
<1>3. s \in Phases /\ t \in Phases BY Tails, CallTypes, AfterReplyType
<1>4. Goes("clock", m, s, "rdata", m + 1, t)
  <2>. HIDE DEF s, t
  <2>. QED BY <1>1, <1>2, <1>3, NamesAre, BothTick
<1>5. call' = call BY ClockLeaves DEF Others
<1>6. CASE m = 1 BY <1>4, <1>5, <1>6 DEF ForcedRead, ForcedReadLast, At, Goes, ProbeGoes, TargetGoes
<1>7. CASE m # 1 BY <1>4, <1>5, <1>7 DEF ForcedRead, At, Goes, ProbeGoes, TargetGoes
<1>10. answer' = answer BY <1>4 DEF Goes, TargetGoes
<1>. QED BY <1>6, <1>7, <1>10

LEMMA ForcedReadLastGoes ==
    ASSUME call \in Calls, SwdClock, ForcedReadLast
    PROVE answer' = answer /\ ForcedReadTrn(call.trn)'
<1>. DEFINE t == Then("trn", call.trn, <<>>)
<1>1. call.trn \in 1..14 /\ call' = call BY CallTypes, ClockLeaves DEF Others
<1>2. PICK n \in Nat \ {0} : n = 1 + call.trn BY <1>1
<1>3. todo = Then("clock", n, <<>>) /\ target = Then("rdata", 1, t) BY <1>2 DEF ForcedReadLast, At
<1>4. <<>> \in Phases /\ t \in Phases /\ 1 \in Nat \ {0} BY Tails
<1>5. Goes("clock", n, <<>>, "rdata", 1, t)
  <2>. HIDE DEF t
  <2>. QED BY <1>2, <1>3, <1>4, NamesAre, BothTick
<1>6. n # 1 /\ n - 1 = call.trn BY <1>1, <1>2
<1>7. todo' = Then("clock", call.trn, <<>>) BY <1>5, <1>6 DEF Goes, ProbeGoes
<1>8. answer' = answer BY <1>5 DEF Goes, TargetGoes
<1>9. ForcedReadTrn(call.trn)' BY <1>1, <1>5, <1>7, <1>8 DEF ForcedReadLast, ForcedReadTrn, At, Goes, ProbeGoes, TargetGoes
<1>. QED BY <1>8, <1>9

LEMMA ForcedReadTrnGoes ==
    ASSUME call \in Calls, SwdClock, NEW m \in 1..call.trn, ForcedReadTrn(m)
    PROVE /\ answer' = answer
          /\ IF m = 1 THEN RefusedEnd' ELSE ForcedReadTrn(m - 1)'
<1>. DEFINE s == <<>>
            t == <<>>
<1>1. todo = Then("clock", m, s) /\ target = Then("trn", m, t) BY DEF ForcedReadTrn, At
<1>2. m \in Nat \ {0} BY CallTypes
<1>3. s \in Phases /\ t \in Phases BY Tails, CallTypes, AfterReplyType
<1>4. Goes("clock", m, s, "trn", m, t)
  <2>. HIDE DEF s, t
  <2>. QED BY <1>1, <1>2, <1>3, NamesAre, BothTick
<1>5. call' = call BY ClockLeaves DEF Others
<1>6. CASE m = 1 BY <1>4, <1>5, <1>6 DEF ForcedReadTrn, RefusedEnd, At, Goes, ProbeGoes, TargetGoes
<1>7. CASE m # 1 BY <1>4, <1>5, <1>7 DEF ForcedReadTrn, At, Goes, ProbeGoes, TargetGoes
<1>10. answer' = answer BY <1>4 DEF Goes, TargetGoes
<1>. QED BY <1>6, <1>7, <1>10

(* The third acknowledge bit decides what follows.                          *)
LEMMA HearsAckGoes ==
    ASSUME call \in Calls, SwdClock, NEW m \in 1..3, HearsAck(m), answer \in Acks
    PROVE Stage'
<1>. DEFINE t == AfterReply(call, answer)
<1>1. todo = Then("ack", m, <<>>) /\ target = Then("ack", m, t) BY DEF HearsAck, At
<1>2. m \in Nat \ {0} /\ "ack" \in Names BY NamesAre
<1>3. <<>> \in Phases /\ t \in Phases BY ThenType, AfterReplyType
<1>4. TargetGoes("ack", m, t)
  <2>. HIDE DEF t
  <2>. QED BY <1>1, <1>2, <1>3, TargetTicks
<1>5. call' = call /\ answer' = answer BY <1>4, ClockLeaves DEF TargetGoes, Others
<1>a. ack = "" BY DEF HearsAck, At
<1>b. performed = 0 BY DEF HearsAck, At
<1>c. "ack" \notin {"wparity", "rparity"} OBVIOUS
<1>d. performed' = performed + 0
  <2>. HIDE DEF t
  <2>. QED BY <1>4, <1>c DEF TargetGoes
<1>6. performed' = 0 BY <1>b, <1>d
<1>7. CASE m # 1
  <2>1. ProbeGoes("ack", m, <<>>) BY <1>1, <1>2, <1>3, <1>7, ProbeTicks
  <2>2. todo' = Then("ack", m - 1, <<>>) /\ ack' = "" BY <1>7, <1>a, <2>1 DEF ProbeGoes
  <2>3. target' = Then("ack", m - 1, t) BY <1>4, <1>7 DEF TargetGoes
  <2>4. HearsAck(m - 1)' BY <1>5, <1>6, <2>2, <2>3 DEF HearsAck, At
  <2>5. m - 1 \in 1..3 BY <1>7
  <2>6. Hearing' BY <1>5, <2>4, <2>5 DEF Hearing
  <2>. QED BY <2>6 DEF Stage
<1>8. CASE m = 1
  <2>1. todo' = AfterAck(call, AckRead) /\ ack' = AckRead BY <1>1, <1>8, ProbeHears
  <2>2. Now(target) = Phase("ack", 1) /\ Phase("ack", 1).phase = "ack"
    <3>. HIDE DEF t
    <3>. QED BY <1>1, <1>2, <1>3, <1>8, ThenTicks
  <2>3. AckRead = answer BY <2>2 DEF AckRead
  <2>4. todo' = AfterAck(call, answer) /\ ack' = answer BY <2>1, <2>3
  <2>5. target' = t BY <1>4, <1>8 DEF TargetGoes
  <2>6. 32 \in 1..32 /\ call.trn \in 1..call.trn BY CallTypes
  <2>7. CASE answer = "OK" /\ IsWrite(call.request)
    <3>1. AfterAck(call, answer) = Then("trn", call.trn, Then("wdata", 32, Then("wparity", 1, IdleClocks(call))))
      BY <2>7 DEF AfterAck, AfterWrite
    <3>2. t = Then("trn", call.trn, Then("wdata", 32, Then("wparity", 1, <<>>))) BY <2>7 DEF AfterReply
    <3>3. WritesTrn(call.trn)'
      BY <1>5, <1>6, <2>4, <2>5, <2>7, <3>1, <3>2 DEF WritesTrn, At
    <3>4. Writing' BY <1>5, <2>6, <2>7, <3>3 DEF Writing
    <3>. QED BY <3>4 DEF Stage
  <2>8. CASE answer = "OK" /\ ~IsWrite(call.request)
    <3>1. AfterAck(call, answer) = Then("rdata", 32, Then("rparity", 1, Then("trn", call.trn, IdleClocks(call))))
      BY <2>8 DEF AfterAck, AfterRead
    <3>2. t = Then("rdata", 32, Then("rparity", 1, Then("trn", call.trn, <<>>))) BY <2>8 DEF AfterReply
    <3>3. ReadsData(32)'
      BY <1>5, <1>6, <2>4, <2>5, <2>8, <3>1, <3>2 DEF ReadsData, At
    <3>4. Reading' BY <1>5, <2>6, <2>8, <3>3 DEF Reading
    <3>. QED BY <3>4 DEF Stage
  <2>9. CASE answer # "OK" /\ ~call.force
    <3>1. answer \in {"WAIT", "FAULT"} BY <2>9 DEF Acks
    <3>2. AfterAck(call, answer) = Then("trn", call.trn, <<>>)
      BY <2>9, <3>1 DEF AfterAck, AfterWrite, AfterRead
    <3>3. t = Then("trn", call.trn, <<>>) BY <2>9 DEF AfterReply
    <3>4. RefusedTrn(call.trn)' BY <1>5, <1>6, <2>4, <2>5, <3>2, <3>3 DEF RefusedTrn, At
    <3>5. Refused' BY <1>5, <2>6, <2>9, <3>1, <3>4 DEF Refused
    <3>. QED BY <3>5 DEF Stage
  <2>10. CASE answer # "OK" /\ call.force /\ IsWrite(call.request)
    <3>1. answer \in {"WAIT", "FAULT"} BY <2>10 DEF Acks
    <3>2. AfterAck(call, answer) = Then("trn", call.trn, Then("clock", 32, Then("clock", 1, <<>>)))
      BY <2>10, <3>1 DEF AfterAck, AfterWrite
    <3>3. t = Then("trn", call.trn, Then("ignore", 33, <<>>)) BY <2>10 DEF AfterReply
    <3>4. ForcedTrn(call.trn)' BY <1>5, <1>6, <2>4, <2>5, <3>2, <3>3 DEF ForcedTrn, At
    <3>5. Forced' BY <1>5, <2>6, <2>10, <3>1, <3>4 DEF Forced
    <3>. QED BY <3>5 DEF Stage
  <2>11. CASE answer # "OK" /\ call.force /\ ~IsWrite(call.request)
    <3>1. answer \in {"WAIT", "FAULT"} BY <2>11 DEF Acks
    <3>2. AfterAck(call, answer) = Then("clock", 32, Then("clock", 1 + call.trn, <<>>))
      BY <2>11, <3>1 DEF AfterAck, AfterRead
    <3>3. t = Then("rdata", 33, Then("trn", call.trn, <<>>)) BY <2>11 DEF AfterReply
    <3>4. ForcedRead(32)' BY <1>5, <1>6, <2>4, <2>5, <3>2, <3>3 DEF ForcedRead, At
    <3>5. Forced' BY <1>5, <2>6, <2>11, <3>1, <3>4 DEF Forced
    <3>. QED BY <3>5 DEF Stage
  <2>. QED BY <2>7, <2>8, <2>9, <2>10, <2>11
<1>. QED BY <1>7, <1>8

(* In the idle clocks.                                                      *)
LEMMA RestsGoes ==
    ASSUME call \in Calls, SwdClock, answer = "OK", Resting
    PROVE Resting'
<1>1. todo # <<>> /\ call' = call BY ClockLeaves DEF SwdClock, Others
<1>2. call.idle \in Nat BY CallTypes
<1>3. PICK m \in 1..call.idle : todo = Then(IdleName, m, <<>>) BY <1>1 DEF Resting, Rests, At
<1>4. ack = "OK" /\ call.idle > 0 BY <1>1 DEF Resting, Rests, At
<1>5. performed = 1 BY DEF Resting, Rests, At
<1>6. target = <<>> \/ (target = Out /\ IdleClocksHigh) BY DEF Resting, Rests, At
<1>7. m \in Nat \ {0} /\ <<>> \in Phases BY <1>2, ThenType
<1>8. IdleName \in Names /\ IdleName # "ack" /\ IdleName # "request" BY NamesAre DEF IdleName
<1>9. ProbeGoes(IdleName, m, <<>>) BY <1>3, <1>7, <1>8, ProbeTicks
<1>10. IdleName' = IdleName /\ (IdleClocksHigh <=> IdleClocksHigh') BY <1>1 DEF IdleName, IdleClocksHigh
<1>11. answer' = "OK" /\ performed' = 1 /\ (target' = <<>> \/ (target' = Out /\ IdleClocksHigh))
  <2>1. CASE target = Out BY <1>5, <1>6, <2>1, TargetOut DEF TargetStays
  <2>2. CASE target = <<>>
    <3>1. /\ target' = IF ~LineHigh(call, Phase(IdleName, m)) THEN <<>> ELSE Out
          /\ answer' = answer /\ performed' = performed
      BY <1>3, <1>7, <1>8, <2>2, TargetIdle
    <3>2. Phase(IdleName, m).phase = IdleName BY <1>7, <1>8, ThenTicks
    <3>3. LineHigh(call, Phase(IdleName, m)) =>
            IF IsWrite(call.request) THEN Parity32(call.data) = 1 ELSE call.pullUp
      <4>1. CASE IsWrite(call.request) BY <3>2, <4>1 DEF LineHigh, IdleName
      <4>2. CASE ~IsWrite(call.request) BY <3>2, <4>2 DEF LineHigh, IdleName
      <4>. QED BY <4>1, <4>2
    <3>4. target' = Out => IdleClocksHigh
      <4>1. Out # <<>> BY <1>7, NamesAre, ThenTicks DEF Out
      <4>. QED BY <1>4, <3>1, <3>3, <4>1 DEF IdleClocksHigh
    <3>. QED BY <1>5, <3>1, <3>4
  <2>. QED BY <1>6, <2>1, <2>2
<1>12. ack' = "OK" /\ (todo' = <<>> \/ \E l \in 1..call.idle : todo' = Then(IdleName, l, <<>>))
  <2>1. CASE m = 1 BY <1>4, <1>9, <2>1 DEF ProbeGoes
  <2>2. CASE m # 1
    <3>1. m - 1 \in 1..call.idle BY <1>2, <2>2
    <3>2. todo' = Then(IdleName, m - 1, <<>>) /\ ack' = "OK" BY <1>4, <1>9, <2>2 DEF ProbeGoes
    <3>. QED BY <3>1, <3>2
  <2>. QED BY <2>1, <2>2
<1>13. ASSUME NEW t, target' = t PROVE At(<<>>, t, "OK", 1)' \/ \E l \in 1..call.idle : At(Then(IdleName, l, <<>>), t, "OK", 1)'
  <2>1. CASE todo' = <<>> BY <1>11, <1>12, <1>13, <2>1 DEF At
  <2>2. CASE \E l \in 1..call.idle : todo' = Then(IdleName, l, <<>>)
    <3>1. PICK l \in 1..call.idle : todo' = Then(IdleName, l, <<>>) BY <2>2
    <3>2. At(Then(IdleName, l, <<>>), t, "OK", 1)' BY <1>10, <1>11, <1>12, <1>13, <3>1 DEF At
    <3>. QED BY <3>2
  <2>. QED BY <1>12, <2>1, <2>2
<1>14. CASE target' = <<>>
  <2>1. Rests(<<>>)' BY <1>1, <1>4, <1>13, <1>14 DEF Rests
  <2>. QED BY <1>11, <2>1 DEF Resting
<1>15. CASE target' = Out /\ IdleClocksHigh
  <2>1. Rests(Out)' BY <1>1, <1>4, <1>13, <1>15 DEF Rests, Out
  <2>. QED BY <1>10, <1>11, <1>15, <2>1 DEF Resting
<1>. QED BY <1>11, <1>14, <1>15

LEMMA AsksGoes ==
    ASSUME call \in Calls, SwdClock, NEW m \in 1..8, Asks(m)
    PROVE Stage'
<1>. DEFINE s == Then("trn", call.trn, Then("ack", 3, <<>>))
<1>0. ack = "" BY DEF Asks, At
<1>b. performed = 0 BY DEF Asks, At
<1>1. s \in Phases /\ <<>> \in Phases BY Tails
<1>2. todo = Then("request", m, s) /\ target = IF m = 8 THEN <<>> ELSE Then("request", m, <<>>)
  BY DEF Asks, At
<1>3. m \in Nat \ {0} /\ "request" \in Names BY NamesAre
<1>4. call' = call BY ClockLeaves DEF Others
<1>5. ProbeGoes("request", m, s)
  <2>. HIDE DEF s
  <2>. QED BY <1>1, <1>2, <1>3, ProbeTicks
<1>6. ack' = "" /\ (m # 1 => todo' = Then("request", m - 1, s)) BY <1>0, <1>5 DEF ProbeGoes
<1>7. CASE m = 8
  <2>1. LineHigh(call, Phase("request", m)) BY DEF LineHigh, Phase
  <2>2. target' = Then("request", 7, <<>>) /\ performed' = performed
    <3>. HIDE DEF s
    <3>. QED BY <1>1, <1>2, <1>3, <1>7, <2>1, TargetIdle
  <2>3. PICK l \in 1..8 : l = m - 1 BY <1>7
  <2>4. l = 7 /\ l # 8 BY <1>7, <2>3
  <2>5. todo' = Then("request", l, s)
    <3>. HIDE DEF s
    <3>. QED BY <1>5, <1>7, <2>3 DEF ProbeGoes
  <2>6. performed' = 0 BY <1>b, <2>2
  <2>7. target' = Then("request", l, <<>>) BY <2>2, <2>4
  <2>8. Asks(l)' BY <1>4, <1>6, <2>4, <2>5, <2>6, <2>7 DEF Asks, At
  <2>. QED BY <2>8 DEF Stage
<1>8. CASE m \in 2..7
  <2>1. target = Then("request", m, <<>>) /\ m # 1 BY <1>2, <1>8
  <2>2. TargetGoes("request", m, <<>>) BY <1>1, <1>3, <2>1, TargetTicks
  <2>3. target' = Then("request", m - 1, <<>>) BY <1>8, <2>2 DEF TargetGoes
  <2>4. performed' = performed + 0 BY <2>2 DEF TargetGoes
  <2>5. performed' = 0 BY <1>b, <2>4
  <2>6. m - 1 \in 1..8 /\ m - 1 # 8 BY <1>8
  <2>7. Asks(m - 1)' BY <1>4, <1>6, <2>1, <2>3, <2>5, <2>6 DEF Asks, At
  <2>. QED BY <2>6, <2>7 DEF Stage
<1>9. CASE m = 1
  <2>1. call.trn \in 1..call.trn BY CallTypes
  <2>2. target = Then("request", 1, <<>>) BY <1>2, <1>9
  <2>3. PICK a \in Acks \cup {"none"} : answer' = a /\ target' = Reply(call, a)
    BY <2>2, TargetDecides
  <2>4. performed' = 0 BY <1>b, <2>2, TargetDecides
  <2>5. todo' = s BY <1>5, <1>9 DEF ProbeGoes
  <2>6. CASE a = "none"
    <3>1. target' = Out BY <2>3, <2>6 DEF Reply, Out
    <3>2. UnheardTrn(call.trn)' BY <1>4, <1>6, <2>4, <2>5, <3>1 DEF UnheardTrn, At, Out
    <3>3. Unheard' BY <1>4, <2>1, <2>3, <2>6, <3>2 DEF Unheard
    <3>. QED BY <3>3 DEF Stage
  <2>7. CASE a \in Acks
    <3>1. target' = Then("trn", call.trn, Then("ack", 3, AfterReply(call, a)))
      BY <2>3, <2>7 DEF Reply, Acks
    <3>2. HearsTrn(call.trn)' BY <1>4, <1>6, <2>3, <2>4, <2>5, <3>1 DEF HearsTrn, At
    <3>3. Hearing' BY <1>4, <2>1, <2>3, <2>7, <3>2 DEF Hearing
    <3>. QED BY <3>3 DEF Stage
  <2>. QED BY <2>6, <2>7
<1>. QED BY <1>7, <1>8, <1>9

(* A clock leads from stage to stage.                                       *)
LEMMA StageClock ==
    ASSUME call \in Calls, Stage, SwdClock
    PROVE Stage'
<1>1. todo # <<>> /\ call' = call BY ClockLeaves DEF SwdClock, Others
<1>2. call.trn \in 1..14 BY CallTypes
<1>3. \A m \in 1..call.trn : m # 1 => m - 1 \in 1..call.trn BY <1>2
<1>4. \A m \in 1..32 : m # 1 => m - 1 \in 1..32 OBVIOUS
<1>5. 32 \in 1..32 /\ 3 \in 1..3 /\ call.trn \in 1..call.trn BY <1>2
<1>6. CASE \E m \in 1..8 : Asks(m) BY <1>6, AsksGoes
<1>7. CASE Unheard
  <2>1. answer' = "none"
    <3>1. target = Out BY <1>7 DEF Unheard, UnheardTrn, UnheardAck, UnheardClock, UnheardLast, UnheardEnd, At
    <3>. QED BY <1>7, <3>1, TargetOut DEF TargetStays, Unheard
  <2>2. ASSUME NEW m \in 1..call.trn, UnheardTrn(m) PROVE Unheard'
    BY <1>1, <1>3, <1>5, <2>1, <2>2, UnheardTrnGoes DEF Unheard
  <2>3. ASSUME NEW m \in 1..3, UnheardAck(m) PROVE Unheard'
    <3>1. m # 1 => m - 1 \in 1..3 OBVIOUS
    <3>. QED BY <1>5, <2>1, <2>3, <3>1, UnheardAckGoes DEF Unheard
  <2>4. ASSUME NEW m \in 1..32, UnheardClock(m) PROVE Unheard'
    BY <1>4, <2>1, <2>4, UnheardClockGoes DEF Unheard
  <2>5. CASE UnheardLast BY <2>1, <2>5, UnheardLastGoes DEF Unheard, Stage
  <2>6. ~UnheardEnd BY <1>1 DEF UnheardEnd, At
  <2>. QED BY <1>7, <2>2, <2>3, <2>4, <2>5, <2>6 DEF Unheard, Stage
<1>8. CASE Hearing
  <2>1. ASSUME NEW m \in 1..call.trn, HearsTrn(m) PROVE Stage'
    <3>1. answer' = answer /\ IF m = 1 THEN HearsAck(3)' ELSE HearsTrn(m - 1)'
      BY <1>8, <2>1, HearsTrnGoes DEF Hearing
    <3>2. Hearing' BY <1>1, <1>3, <1>5, <1>8, <3>1 DEF Hearing
    <3>. QED BY <3>2 DEF Stage
  <2>. QED BY <1>8, <2>1, HearsAckGoes DEF Hearing
<1>9. CASE Reading
  <2>0. (IsWrite(call.request))' <=> IsWrite(call.request) BY <1>1
  <2>1. ASSUME NEW m \in 1..32, ReadsData(m) PROVE Reading'
    BY <1>4, <1>9, <2>0, <2>1, ReadsDataGoes DEF Reading
  <2>2. CASE ReadsParity BY <1>1, <1>5, <1>9, <2>0, <2>2, ReadsParityGoes DEF Reading, Stage
  <2>3. ASSUME NEW m \in 1..call.trn, ReadsTrn(m) PROVE Reading' \/ Resting'
    <3>1. answer' = "OK" /\ IF m = 1 THEN Rests(<<>>)' ELSE ReadsTrn(m - 1)'
      BY <1>9, <2>3, ReadsTrnGoes DEF Reading
    <3>. QED BY <1>1, <1>3, <1>9, <2>0, <3>1 DEF Reading, Resting
  <2>. QED BY <1>9, <2>1, <2>2, <2>3 DEF Reading, Stage
<1>10. CASE Writing
  <2>0. (IsWrite(call.request))' <=> IsWrite(call.request) BY <1>1
  <2>1. ASSUME NEW m \in 1..call.trn, WritesTrn(m) PROVE Writing'
    BY <1>1, <1>3, <1>5, <1>10, <2>0, <2>1, WritesTrnGoes DEF Writing
  <2>2. ASSUME NEW m \in 1..32, WritesData(m) PROVE Writing'
    BY <1>4, <1>10, <2>0, <2>2, WritesDataGoes DEF Writing
  <2>3. CASE WritesParity
    <3>1. answer' = "OK" /\ Rests(<<>>)' BY <1>10, <2>3, WritesParityGoes DEF Writing
    <3>. QED BY <3>1 DEF Resting, Stage
  <2>. QED BY <1>10, <2>1, <2>2, <2>3 DEF Writing, Stage
<1>11. CASE Resting BY <1>11, RestsGoes DEF Resting, Stage
<1>12. CASE Refused
  <2>1. ~RefusedEnd BY <1>1 DEF RefusedEnd, At
  <2>2. PICK m \in 1..call.trn : RefusedTrn(m) BY <1>12, <2>1 DEF Refused
  <2>3. answer' = answer /\ IF m = 1 THEN RefusedEnd' ELSE RefusedTrn(m - 1)' BY <2>2, RefusedTrnGoes
  <2>4. ~call.force BY <1>12, <2>1 DEF Refused
  <2>5. Refused' BY <1>1, <1>3, <1>12, <2>3, <2>4 DEF Refused
  <2>. QED BY <2>5 DEF Stage
<1>13. CASE Forced
  <2>0. call.force /\ answer \in {"WAIT", "FAULT"} BY <1>13 DEF Forced
  <2>1. ASSUME NEW m \in 1..call.trn, ForcedTrn(m) PROVE Forced'
    BY <1>1, <1>3, <1>5, <2>0, <2>1, ForcedTrnGoes DEF Forced
  <2>2. ASSUME NEW m \in 1..call.trn, ForcedReadTrn(m) PROVE Forced' \/ Refused'
    <3>1. answer' = answer /\ IF m = 1 THEN RefusedEnd' ELSE ForcedReadTrn(m - 1)' BY <2>2, ForcedReadTrnGoes
    <3>. QED BY <1>1, <1>3, <2>0, <3>1 DEF Forced, Refused
  <2>3. ASSUME NEW m \in 1..32, ForcedWrite(m) PROVE Forced'
    BY <1>1, <1>4, <2>0, <2>3, ForcedWriteGoes DEF Forced
  <2>4. ASSUME NEW m \in 1..32, ForcedRead(m) PROVE Forced'
    BY <1>1, <1>4, <2>0, <2>4, ForcedReadGoes DEF Forced
  <2>5. CASE ForcedWriteLast BY <2>0, <2>5, ForcedWriteLastGoes DEF Refused, Stage
  <2>6. CASE ForcedReadLast BY <1>1, <1>5, <2>0, <2>6, ForcedReadLastGoes DEF Forced, Stage
  <2>. QED BY <1>13, <2>1, <2>2, <2>3, <2>4, <2>5, <2>6 DEF Forced, Stage
<1>. QED BY <1>6, <1>7, <1>8, <1>9, <1>10, <1>11, <1>12, <1>13 DEF Stage

(* Where a call can be when the probe has no phase left.                    *)
LEMMA NotEmpty ==
    ASSUME NEW p, NEW n, NEW s \in Phases
    PROVE Then(p, n, s) # <<>>
  BY DEF Then, Phases

LEMMA Ended ==
    ASSUME call \in Calls, Stage, todo = <<>>
    PROVE \/ answer = "none" /\ ack = "silence" /\ target = Out /\ performed = 0
          \/ /\ answer = "OK" /\ ack = "OK" /\ performed = 1
             /\ target = <<>> \/ (target = Out /\ IdleClocksHigh)
          \/ answer \in {"WAIT", "FAULT"} /\ ack = answer /\ target = <<>> /\ performed = 0
<1>1. \A s \in Phases : \A p, n : Then(p, n, s) # <<>> BY NotEmpty
<1>2. /\ <<>> \in Phases /\ IdleClocks(call) \in Phases
      /\ Then("ack", 3, <<>>) \in Phases /\ Then("trn", call.trn, Then("ack", 3, <<>>)) \in Phases
      /\ Then("clock", 1, <<>>) \in Phases /\ Then("clock", 32, Then("clock", 1, <<>>)) \in Phases
      /\ Then("clock", 1 + call.trn, <<>>) \in Phases
  BY Tails, CallTypes
<1>3. \A s \in Phases : /\ Then("trn", call.trn, s) \in Phases /\ Then("rparity", 1, s) \in Phases
                        /\ Then("wparity", 1, s) \in Phases /\ Then("wdata", 32, s) \in Phases
  BY Tails
<1>4. ~ \E m \in 1..8 : Asks(m) BY <1>1, <1>2 DEF Asks, At
<1>5. ~Hearing BY <1>1, <1>2 DEF Hearing, HearsTrn, HearsAck, At
<1>6. ~Reading BY <1>1, <1>2, <1>3 DEF Reading, ReadsData, ReadsParity, ReadsTrn, At
<1>7. ~Writing BY <1>1, <1>2, <1>3 DEF Writing, WritesData, WritesParity, WritesTrn, At
<1>8. ~Forced
  BY <1>1, <1>2, <1>3
  DEF Forced, ForcedTrn, ForcedWrite, ForcedWriteLast, ForcedRead, ForcedReadLast, ForcedReadTrn, At
<1>9. CASE Unheard
  <2>1. UnheardEnd
    BY <1>1, <1>2, <1>9 DEF Unheard, UnheardTrn, UnheardAck, UnheardClock, UnheardLast, At
  <2>. QED BY <1>9, <2>1 DEF Unheard, UnheardEnd, At
<1>10. CASE Resting BY <1>10 DEF Resting, Rests, At
<1>11. CASE Refused BY <1>1, <1>2, <1>11 DEF Refused, RefusedTrn, RefusedEnd, At
<1>. QED BY <1>4, <1>5, <1>6, <1>7, <1>8, <1>9, <1>10, <1>11 DEF Stage

LEMMA StageStays ==
    ASSUME Stage, UNCHANGED <<call, todo, ack, target, answer, performed>>
    PROVE Stage'
<1>1. \A p, q, a, k : At(p, q, a, k)' <=> At(p, q, a, k) BY DEF At
<1>2. call' = call /\ answer' = answer OBVIOUS
<1>3. IdleName' = IdleName /\ (IdleClocksHigh' <=> IdleClocksHigh) BY <1>2 DEF IdleName, IdleClocksHigh
<1>4. \A m : Asks(m) => Asks(m)' BY <1>1, <1>2 DEF Asks
<1>5. Unheard => Unheard'
  BY <1>1, <1>2 DEF Unheard, UnheardTrn, UnheardAck, UnheardClock, UnheardLast, UnheardEnd, Out
<1>6. Hearing => Hearing' BY <1>1, <1>2 DEF Hearing, HearsTrn, HearsAck
<1>7. Reading => Reading' BY <1>1, <1>2 DEF Reading, ReadsData, ReadsParity, ReadsTrn
<1>8. Writing => Writing' BY <1>1, <1>2 DEF Writing, WritesTrn, WritesData, WritesParity
<1>9. Resting => Resting' BY <1>1, <1>2, <1>3 DEF Resting, Rests, Out
<1>10. Refused => Refused' BY <1>1, <1>2 DEF Refused, RefusedTrn, RefusedEnd
<1>11. Forced => Forced'
  BY <1>1, <1>2 DEF Forced, ForcedTrn, ForcedWrite, ForcedWriteLast, ForcedRead, ForcedReadLast, ForcedReadTrn
<1>. QED BY <1>4, <1>5, <1>6, <1>7, <1>8, <1>9, <1>10, <1>11 DEF Stage

LEMMA SwdStarts == ASSUME SwdInit PROVE SwdInv
<1>1. call \in Calls /\ call.limit \in Nat BY CallTypes DEF SwdInit
<1>2. Asks(8) BY DEF SwdInit, Attempt, Asks, At
<1>3. 8 \in 1..8 OBVIOUS
<1>4. Stage BY <1>2, <1>3 DEF Stage
<1>5. tries = 0 BY DEF SwdInit
<1>6. result = "" BY DEF SwdInit
<1>7. tries \in Nat /\ tries <= call.limit BY <1>1, <1>5
<1>. QED BY <1>1, <1>4, <1>5, <1>6, <1>7 DEF SwdInv

LEMMA SwdStep == ASSUME SwdInv, [SwdNext]_swdVars PROVE SwdInv'
<1>1. call \in Calls /\ Stage BY DEF SwdInv
<1>2. CASE SwdClock
  <2>1. Others BY <1>2, ClockLeaves
  <2>2. Stage' BY <1>1, <1>2, StageClock
  <2>3. call' = call /\ tries' = tries /\ result' = "" BY <2>1 DEF Others
  <2>. QED BY <1>1, <2>2, <2>3 DEF SwdInv
<1>3. CASE SwdRestart
  <2>1. ack \in {"WAIT", "FAULT"} /\ ~call.force /\ ack = "WAIT" BY <1>3 DEF SwdRestart, MayRestart, Temp
  <2>2. todo = <<>> /\ call' = call /\ result' = "" /\ result = "" BY <1>3 DEF SwdRestart
  <2>3. target = <<>> /\ performed = 0 BY <1>1, <2>1, <2>2, Ended
  <2>4. Asks(8)' BY <1>3, <2>2, <2>3 DEF SwdRestart, Attempt, Asks, At
  <2>5. 8 \in 1..8 OBVIOUS
  <2>6. Stage' BY <2>4, <2>5 DEF Stage
  <2>7. tries < call.limit /\ tries' = tries + 1 BY <1>3 DEF SwdRestart, MayRestart
  <2>8. tries \in Nat /\ call.limit \in Nat BY <1>1, CallTypes DEF SwdInv
  <2>9. tries' \in Nat /\ tries' <= call.limit BY <2>7, <2>8
  <2>. QED BY <1>1, <2>1, <2>2, <2>6, <2>9 DEF SwdInv
<1>4. CASE SwdReturn
  <2>1. UNCHANGED <<call, todo, tries, ack, target, answer, performed>> BY <1>4 DEF SwdReturn
  <2>2. Stage' BY <1>1, <2>1, StageStays
  <2>3. todo = <<>> /\ ~MayRestart /\ result' = Value BY <1>4 DEF SwdReturn, Value
  <2>4. (MayRestart <=> MayRestart') /\ Value' = Value BY <2>1 DEF MayRestart, Value, ParitySent
  <2>. QED BY <2>1, <2>2, <2>3, <2>4 DEF SwdInv
<1>5. CASE UNCHANGED swdVars
  <2>1. UNCHANGED <<call, todo, tries, ack, target, answer, performed>> /\ result' = result
    BY <1>5 DEF swdVars
  <2>2. Stage' BY <1>1, <2>1, StageStays
  <2>4. (MayRestart <=> MayRestart') /\ Value' = Value BY <2>1 DEF MayRestart, Value, ParitySent
  <2>. QED BY <2>1, <2>2, <2>4 DEF SwdInv
<1>. QED BY <1>2, <1>3, <1>4, <1>5 DEF SwdNext

----------------------------------------------------------------------------
(* What follows from the stages.                                            *)
LEMMA NowIs ==
    ASSUME NEW p \in Names, NEW n \in Nat \ {0}, NEW s \in Phases
    PROVE /\ todo = Then(p, n, s) => Now(todo) = Phase(p, n)
          /\ target = Then(p, n, s) => Now(target) = Phase(p, n)
          /\ Phase(p, n).phase = p /\ p # "idle"
<1>1. p # "idle" BY DEF Names
<1>. QED BY <1>1, ThenTicks

(* Both lists at the same clock of the same phase are in step.              *)
LEMMA FitSame ==
    ASSUME NEW p \in Names, NEW n \in Nat \ {0}, NEW s \in Phases, NEW t \in Phases,
           todo = Then(p, n, s), target = Then(p, n, t)
    PROVE InStep
<1>1. Now(todo) = Phase(p, n) /\ Now(target) = Phase(p, n) /\ Phase(p, n).phase = p BY NowIs
<1>2. ~(ProbeDrives(Phase(p, n)) /\ TargetDrives(Phase(p, n))) BY <1>1 DEF ProbeDrives, TargetDrives
<1>. QED BY <1>1, <1>2 DEF InStep

(* Nobody is out of step with a target that stays aside.                    *)
LEMMA FitOut == ASSUME target = Out PROVE InStep
<1>1. "out" \in Names /\ 1 \in Nat \ {0} /\ <<>> \in Phases BY ThenType, NamesAre
<1>2. Now(target) = Phase("out", 1) /\ Phase("out", 1).phase = "out" BY <1>1, NowIs DEF Out
<1>. QED BY <1>2 DEF InStep, TargetDrives

(* A target that waits for a start bit, or takes no notice.                 *)
LEMMA FitIdle ==
    ASSUME NEW p \in Names, NEW n \in Nat \ {0}, NEW s \in Phases, todo = Then(p, n, s),
           p \notin {"ack", "rdata", "rparity"}, target = <<>>
    PROVE InStep
<1>1. Now(todo) = Phase(p, n) /\ Phase(p, n).phase = p BY NowIs
<1>2. Now(target).phase = "idle" BY DEF Now, Phase
<1>. QED BY <1>1, <1>2 DEF InStep, TargetDrives

LEMMA FitClock ==
    ASSUME NEW n \in Nat \ {0}, NEW s \in Phases, todo = Then("clock", n, s),
           NEW q \in {"rdata", "ignore"}, NEW k \in Nat \ {0}, NEW t \in Phases, target = Then(q, k, t)
    PROVE InStep
<1>1. "clock" \in Names /\ q \in Names BY NamesAre
<1>2. Now(todo) = Phase("clock", n) /\ Phase("clock", n).phase = "clock" BY <1>1, NowIs
<1>3. Now(target) = Phase(q, k) /\ Phase(q, k).phase = q BY <1>1, NowIs
<1>. QED BY <1>2, <1>3 DEF InStep, ProbeDrives

LEMMA FitEnd == ASSUME todo = <<>> PROVE InStep
<1>1. Now(todo).phase = "idle" BY DEF Now, Phase
<1>. QED BY <1>1 DEF InStep

LEMMA StagesInStep == ASSUME SwdInv PROVE InStep
<1>0. call \in Calls /\ Stage BY DEF SwdInv
<1>1. /\ <<>> \in Phases /\ IdleClocks(call) \in Phases
      /\ Then("ack", 3, <<>>) \in Phases /\ Then("trn", call.trn, Then("ack", 3, <<>>)) \in Phases
      /\ Then("clock", 1, <<>>) \in Phases /\ Then("clock", 32, Then("clock", 1, <<>>)) \in Phases
      /\ Then("clock", 1 + call.trn, <<>>) \in Phases /\ Then("ignore", 33, <<>>) \in Phases
  BY <1>0, Tails, CallTypes
<1>2. \A s \in Phases : /\ Then("trn", call.trn, s) \in Phases /\ Then("rparity", 1, s) \in Phases
                        /\ Then("wparity", 1, s) \in Phases /\ Then("wdata", 32, s) \in Phases
                        /\ Then("ack", 3, s) \in Phases
  BY <1>0, Tails
<1>3. \A m \in 1..call.trn : m \in Nat \ {0} BY <1>0, CallTypes
<1>4. CASE \E m \in 1..8 : Asks(m)
  <2>1. PICK m \in 1..8 : Asks(m) BY <1>4
  <2>2. m \in Nat \ {0} OBVIOUS
  <2>3. CASE m = 8
    <3>1. todo = Then("request", m, Then("trn", call.trn, Then("ack", 3, <<>>))) /\ target = <<>>
      BY <2>1, <2>3 DEF Asks, At
    <3>. QED BY <1>1, <2>2, <3>1, NamesAre, FitIdle
  <2>4. CASE m # 8
    <3>1. todo = Then("request", m, Then("trn", call.trn, Then("ack", 3, <<>>)))
          /\ target = Then("request", m, <<>>)
      BY <2>1, <2>4 DEF Asks, At
    <3>. QED BY <1>1, <2>2, <3>1, NamesAre, FitSame
  <2>. QED BY <2>3, <2>4
<1>5. CASE Unheard
  <2>1. target = Out BY <1>5 DEF Unheard, UnheardTrn, UnheardAck, UnheardClock, UnheardLast, UnheardEnd, At
  <2>. QED BY <2>1, FitOut
<1>6. CASE Hearing
  <2>1. AfterReply(call, answer) \in Phases BY <1>0, <1>6, AfterReplyType DEF Hearing
  <2>2. ASSUME NEW m \in 1..call.trn, HearsTrn(m) PROVE InStep
    <3>1. todo = Then("trn", m, Then("ack", 3, <<>>))
          /\ target = Then("trn", m, Then("ack", 3, AfterReply(call, answer)))
      BY <2>2 DEF HearsTrn, At
    <3>2. m \in Nat \ {0} /\ Then("ack", 3, AfterReply(call, answer)) \in Phases BY <1>2, <1>3, <2>1
    <3>. QED BY <1>1, <3>1, <3>2, NamesAre, FitSame
  <2>3. ASSUME NEW m \in 1..3, HearsAck(m) PROVE InStep
    <3>1. todo = Then("ack", m, <<>>) /\ target = Then("ack", m, AfterReply(call, answer))
      BY <2>3 DEF HearsAck, At
    <3>2. m \in Nat \ {0} OBVIOUS
    <3>. QED BY <1>1, <2>1, <3>1, <3>2, NamesAre, FitSame
  <2>. QED BY <1>6, <2>2, <2>3 DEF Hearing
<1>7. CASE Reading
  <2>. DEFINE s == Then("trn", call.trn, IdleClocks(call))
              t == Then("trn", call.trn, <<>>)
  <2>0. /\ s \in Phases /\ t \in Phases
        /\ Then("rparity", 1, s) \in Phases /\ Then("rparity", 1, t) \in Phases
    BY <1>1, <1>2
  <2>1. ASSUME NEW m \in 1..32, ReadsData(m) PROVE InStep
    <3>1. todo = Then("rdata", m, Then("rparity", 1, s)) /\ target = Then("rdata", m, Then("rparity", 1, t))
      BY <2>1 DEF ReadsData, At
    <3>2. m \in Nat \ {0} OBVIOUS
    <3>. HIDE DEF s, t
    <3>. QED BY <2>0, <3>1, <3>2, NamesAre, FitSame
  <2>2. CASE ReadsParity
    <3>1. todo = Then("rparity", 1, s) /\ target = Then("rparity", 1, t) /\ 1 \in Nat \ {0}
      BY <2>2 DEF ReadsParity, At
    <3>. HIDE DEF s, t
    <3>. QED BY <2>0, <3>1, NamesAre, FitSame
  <2>3. ASSUME NEW m \in 1..call.trn, ReadsTrn(m) PROVE InStep
    <3>1. todo = Then("trn", m, IdleClocks(call)) /\ target = Then("trn", m, <<>>) /\ m \in Nat \ {0}
      BY <1>3, <2>3 DEF ReadsTrn, At
    <3>. QED BY <1>1, <3>1, NamesAre, FitSame
  <2>. QED BY <1>7, <2>1, <2>2, <2>3 DEF Reading
<1>8. CASE Writing
  <2>. DEFINE s == Then("wparity", 1, IdleClocks(call))
              t == Then("wparity", 1, <<>>)
  <2>0. /\ s \in Phases /\ t \in Phases
        /\ Then("wdata", 32, s) \in Phases /\ Then("wdata", 32, t) \in Phases
    BY <1>1, <1>2
  <2>1. ASSUME NEW m \in 1..call.trn, WritesTrn(m) PROVE InStep
    <3>1. todo = Then("trn", m, Then("wdata", 32, s)) /\ target = Then("trn", m, Then("wdata", 32, t))
      BY <2>1 DEF WritesTrn, At
    <3>2. m \in Nat \ {0} BY <1>3
    <3>. HIDE DEF s, t
    <3>. QED BY <2>0, <3>1, <3>2, NamesAre, FitSame
  <2>2. ASSUME NEW m \in 1..32, WritesData(m) PROVE InStep
    <3>1. todo = Then("wdata", m, s) /\ target = Then("wdata", m, t) /\ m \in Nat \ {0}
      BY <2>2 DEF WritesData, At
    <3>. HIDE DEF s, t
    <3>. QED BY <2>0, <3>1, NamesAre, FitSame
  <2>3. CASE WritesParity
    <3>1. todo = Then("wparity", 1, IdleClocks(call)) /\ target = Then("wparity", 1, <<>>) /\ 1 \in Nat \ {0}
      BY <2>3 DEF WritesParity, At
    <3>. QED BY <1>1, <3>1, NamesAre, FitSame
  <2>. QED BY <1>8, <2>1, <2>2, <2>3 DEF Writing
<1>9. CASE Resting
  <2>1. CASE target = Out BY <2>1, FitOut
  <2>2. CASE todo = <<>> BY <2>2, FitEnd
  <2>3. CASE target = <<>> /\ \E m \in 1..call.idle : todo = Then(IdleName, m, <<>>)
    <3>1. PICK m \in 1..call.idle : todo = Then(IdleName, m, <<>>) BY <2>3
    <3>2. call.idle \in Nat BY <1>0, CallTypes
    <3>3. m \in Nat \ {0} BY <3>2
    <3>4. IdleName \in Names /\ IdleName \notin {"ack", "rdata", "rparity"} BY NamesAre DEF IdleName
    <3>. QED BY <1>1, <2>3, <3>1, <3>3, <3>4, FitIdle
  <2>. QED BY <1>9, <2>1, <2>2, <2>3 DEF Resting, Rests, At
<1>10. CASE Refused
  <2>1. CASE RefusedEnd BY <2>1, FitEnd DEF RefusedEnd, At
  <2>2. ASSUME NEW m \in 1..call.trn, RefusedTrn(m) PROVE InStep
    <3>1. todo = Then("trn", m, <<>>) /\ target = Then("trn", m, <<>>) /\ m \in Nat \ {0}
      BY <1>3, <2>2 DEF RefusedTrn, At
    <3>. QED BY <1>1, <3>1, NamesAre, FitSame
  <2>. QED BY <1>10, <2>1, <2>2 DEF Refused
<1>11. CASE Forced
  <2>1. ASSUME NEW m \in 1..call.trn, ForcedTrn(m) PROVE InStep
    <3>1. todo = Then("trn", m, Then("clock", 32, Then("clock", 1, <<>>)))
          /\ target = Then("trn", m, Then("ignore", 33, <<>>)) /\ m \in Nat \ {0}
      BY <1>3, <2>1 DEF ForcedTrn, At
    <3>. QED BY <1>1, <3>1, NamesAre, FitSame
  <2>2. ASSUME NEW m \in 1..call.trn, ForcedReadTrn(m) PROVE InStep
    <3>1. todo = Then("clock", m, <<>>) /\ target = Then("trn", m, <<>>) /\ m \in Nat \ {0}
      BY <1>3, <2>2 DEF ForcedReadTrn, At
    <3>2. Now(todo) = Phase("clock", m) /\ Phase("clock", m).phase = "clock" BY <1>1, <3>1, NamesAre, NowIs
    <3>3. Now(target) = Phase("trn", m) /\ Phase("trn", m).phase = "trn" BY <1>1, <3>1, NamesAre, NowIs
    <3>. QED BY <3>2, <3>3 DEF InStep, ProbeDrives
  <2>3. ASSUME NEW m \in 1..32, ForcedWrite(m) PROVE InStep
    <3>1. todo = Then("clock", m, Then("clock", 1, <<>>)) /\ target = Then("ignore", m + 1, <<>>)
      BY <2>3 DEF ForcedWrite, At
    <3>2. m \in Nat \ {0} /\ m + 1 \in Nat \ {0} OBVIOUS
    <3>. QED BY <1>1, <3>1, <3>2, FitClock
  <2>4. ASSUME NEW m \in 1..32, ForcedRead(m) PROVE InStep
    <3>1. todo = Then("clock", m, Then("clock", 1 + call.trn, <<>>))
          /\ target = Then("rdata", m + 1, Then("trn", call.trn, <<>>))
      BY <2>4 DEF ForcedRead, At
    <3>2. m \in Nat \ {0} /\ m + 1 \in Nat \ {0} OBVIOUS
    <3>3. Then("trn", call.trn, <<>>) \in Phases BY <1>1, <1>2
    <3>. QED BY <1>1, <3>1, <3>2, <3>3, FitClock
  <2>5. CASE ForcedWriteLast
    <3>1. todo = Then("clock", 1, <<>>) /\ target = Then("ignore", 1, <<>>) /\ 1 \in Nat \ {0}
      BY <2>5 DEF ForcedWriteLast, At
    <3>. QED BY <1>1, <3>1, FitClock
  <2>6. CASE ForcedReadLast
    <3>1. todo = Then("clock", 1 + call.trn, <<>>) /\ target = Then("rdata", 1, Then("trn", call.trn, <<>>))
      BY <2>6 DEF ForcedReadLast, At
    <3>2. 1 + call.trn \in Nat \ {0} /\ 1 \in Nat \ {0} BY <1>0, CallTypes
    <3>3. Then("trn", call.trn, <<>>) \in Phases BY <1>1, <1>2
    <3>. QED BY <1>1, <3>1, <3>2, <3>3, FitClock
  <2>. QED BY <1>11, <2>1, <2>2, <2>3, <2>4, <2>5, <2>6 DEF Forced
<1>. QED BY <1>0, <1>4, <1>5, <1>6, <1>7, <1>8, <1>9, <1>10, <1>11 DEF Stage

(* What the call is, once it has returned.                                  *)
LEMMA CallReturned ==
    ASSUME SwdInv, result # ""
    PROVE /\ call \in Calls /\ todo = <<>> /\ ~MayRestart /\ result = Value
          /\ \/ answer = "none" /\ ack = "silence" /\ performed = 0
             \/ answer = "OK" /\ ack = "OK" /\ performed = 1
             \/ answer \in {"WAIT", "FAULT"} /\ ack = answer /\ performed = 0
          /\ answer # "none" => target = <<>> \/ (ack = "OK" /\ IdleClocksHigh)
<1>1. call \in Calls /\ Stage /\ todo = <<>> /\ ~MayRestart /\ result = Value BY DEF SwdInv
<1>2. \/ answer = "none" /\ ack = "silence" /\ target = Out /\ performed = 0
      \/ /\ answer = "OK" /\ ack = "OK" /\ performed = 1
         /\ target = <<>> \/ (target = Out /\ IdleClocksHigh)
      \/ answer \in {"WAIT", "FAULT"} /\ ack = answer /\ target = <<>> /\ performed = 0
  BY <1>1, Ended
<1>. QED BY <1>1, <1>2

LEMMA LeftIdle == ASSUME SwdInv PROVE TargetLeftIdle
  BY CallReturned DEF TargetLeftIdle

LEMMA AtBound == \A x, y \in Nat : x <= y /\ ~(x < y) => x = y
  OBVIOUS

LEMMA Retried == ASSUME SwdInv PROVE WaitIsRetried
<1>. SUFFICES ASSUME result # "", answer = "WAIT"
              PROVE IF call.force THEN tries = 0 /\ result = "zero" ELSE tries = call.limit /\ result = "WAIT"
  BY DEF WaitIsRetried
<1>1. call \in Calls /\ ~MayRestart /\ result = Value /\ ack = "WAIT" BY CallReturned
<1>2. CASE call.force
  <2>1. tries = 0 BY <1>2 DEF SwdInv
  <2>2. result = "zero" BY <1>1, <1>2 DEF Value, Temp
  <2>. QED BY <1>2, <2>1, <2>2
<1>3. CASE ~call.force
  <2>1. Temp(call, ack) = "WAIT" BY <1>1, <1>3 DEF Temp
  <2>2. ~(tries < call.limit) BY <1>1, <2>1 DEF MayRestart
  <2>3. tries \in Nat /\ call.limit \in Nat /\ tries <= call.limit BY <1>1, CallTypes DEF SwdInv
  <2>5. tries = call.limit BY <2>2, <2>3, AtBound
  <2>6. result = "WAIT" BY <1>1, <2>1 DEF Value
  <2>. QED BY <1>3, <2>5, <2>6
<1>. QED BY <1>2, <1>3

----------------------------------------------------------------------------
(* The parity swd.c folds is the parity of the number of bits set.          *)
Low(s, m) == s \cap 0..(m - 1)

LEMMA TwiceTaken ==
    ASSUME NEW x \in Nat, NEW y \in Nat, NEW z, z = x - 2 * y
    PROVE z % 2 = x % 2
  OBVIOUS

(* Exclusive or keeps it: bits in both count twice.                         *)
LEMMA XorParity ==
    ASSUME NEW a, NEW b, IsFiniteSet(a), IsFiniteSet(b)
    PROVE IsFiniteSet(Xor(a, b)) /\ Cardinality(Xor(a, b)) % 2 = (Cardinality(a) + Cardinality(b)) % 2
<1>. DEFINE c == a \cap b
            l == b \ a
            r == a \ b
<1>1. IsFiniteSet(c) /\ Cardinality(c) \in Nat BY FS_Intersection, FS_CardinalityType
<1>2. IsFiniteSet(r) /\ Cardinality(r) = Cardinality(a) - Cardinality(c) BY FS_Difference
<1>3. b \cap a = c OBVIOUS
<1>4. IsFiniteSet(l) /\ Cardinality(l) = Cardinality(b) - Cardinality(c) BY <1>3, FS_Difference
<1>5. l \cap r = {} OBVIOUS
<1>6. /\ IsFiniteSet(l \cup r)
      /\ Cardinality(l \cup r) = Cardinality(l) + Cardinality(r) - Cardinality(l \cap r)
  <2>. HIDE DEF l, r
  <2>. QED BY <1>2, <1>4, FS_Union
<1>7. Cardinality(l \cap r) = 0 BY <1>5, FS_EmptySet
<1>8. Xor(a, b) = l \cup r BY DEF Xor
<1>9. Cardinality(a) \in Nat /\ Cardinality(b) \in Nat BY FS_CardinalityType
<1>10. Cardinality(Xor(a, b)) = Cardinality(a) + Cardinality(b) - 2 * Cardinality(c)
  <2>. HIDE DEF l, r, c
  <2>. QED BY <1>1, <1>2, <1>4, <1>6, <1>7, <1>8, <1>9
<1>12. Cardinality(a) + Cardinality(b) \in Nat BY <1>9
<1>13. Cardinality(Xor(a, b)) % 2 = (Cardinality(a) + Cardinality(b)) % 2
  <2>. HIDE DEF c
  <2>1. PICK x \in Nat : x = Cardinality(a) + Cardinality(b) BY <1>12
  <2>2. PICK y \in Nat : y = Cardinality(c) BY <1>1
  <2>3. PICK z : z = Cardinality(Xor(a, b)) OBVIOUS
  <2>4. z = x - 2 * y BY <1>1, <1>9, <1>10, <2>1, <2>2, <2>3
  <2>5. z % 2 = x % 2 BY <2>4, TwiceTaken
  <2>. QED BY <2>1, <2>3, <2>5
<1>. QED BY <1>6, <1>8, <1>13

(* So one fold does, for the lower half of the bits it looks at.            *)
LEMMA FoldParity ==
    ASSUME NEW s \in SUBSET Nat, NEW m \in Nat \ {0}, NEW w, w = 2 * m
    PROVE /\ Fold(s, m) \in SUBSET Nat
          /\ Cardinality(Low(Fold(s, m), m)) % 2 = Cardinality(Low(s, w)) % 2
<1>. DEFINE lower == Low(s, m)
            upper == s \cap m..(w - 1)
            moved == {i - m : i \in upper}
<1>0. w \in Nat OBVIOUS
<1>1. Fold(s, m) \in SUBSET Nat
  <2>1. Shifted(s, m) \in SUBSET Nat
    <3>1. ASSUME NEW i \in Shifted(s, m) PROVE i \in Nat
      <4>1. PICK j \in s : j >= m /\ i = j - m BY <3>1 DEF Shifted
      <4>2. j \in Nat BY <4>1
      <4>. QED BY <4>1, <4>2
    <3>. QED BY <3>1
  <2>. QED BY <2>1 DEF Fold, Xor
<1>2. Low(Fold(s, m), m) = Xor(lower, moved)
  <2>1. ASSUME NEW i \in 0..(m - 1) PROVE i \in Shifted(s, m) <=> i \in moved
    <3>1. i \in Shifted(s, m) <=> i + m \in s
      <4>1. ASSUME i + m \in s PROVE i \in Shifted(s, m)
        <5>1. i + m >= m /\ (i + m) - m = i OBVIOUS
        <5>. QED BY <4>1, <5>1 DEF Shifted
      <4>2. ASSUME i \in Shifted(s, m) PROVE i + m \in s
        <5>1. PICK j \in s : j >= m /\ i = j - m BY <4>2 DEF Shifted
        <5>2. j = i + m BY <5>1
        <5>. QED BY <5>2
      <4>. QED BY <4>1, <4>2
    <3>2. i \in moved <=> i + m \in s
      <4>1. ASSUME i + m \in s PROVE i \in moved
        <5>1. i + m \in m..(w - 1) /\ (i + m) - m = i BY <1>0
        <5>. QED BY <4>1, <5>1
      <4>2. ASSUME i \in moved PROVE i + m \in s
        <5>1. PICK j \in upper : i = j - m BY <4>2
        <5>2. j \in s /\ j = i + m BY <5>1
        <5>. QED BY <5>2
      <4>. QED BY <4>1, <4>2
    <3>. QED BY <3>1, <3>2
  <2>2. moved \subseteq 0..(m - 1) BY <1>0
  <2>3. lower = s \cap 0..(m - 1) BY DEF Low
  <2>. HIDE DEF lower, moved
  <2>. QED BY <2>1, <2>2, <2>3 DEF Low, Fold, Xor
<1>3. IsFiniteSet(lower) /\ IsFiniteSet(upper) /\ IsFiniteSet(Low(s, w))
  <2>1. IsFiniteSet(0..(m - 1)) /\ IsFiniteSet(m..(w - 1)) /\ IsFiniteSet(0..(w - 1)) BY <1>0, FS_Interval
  <2>2. lower \subseteq 0..(m - 1) /\ upper \subseteq m..(w - 1) /\ Low(s, w) \subseteq 0..(w - 1) BY DEF Low
  <2>. HIDE DEF lower, upper
  <2>. QED BY <2>1, <2>2, FS_Subset
<1>4. IsFiniteSet(moved) /\ Cardinality(moved) = Cardinality(upper)
  <2>. DEFINE f == [i \in upper |-> i - m]
  <2>1. f \in Bijection(upper, moved)
    <3>1. f \in [upper -> moved] OBVIOUS
    <3>2. \A i, j \in upper : f[i] = f[j] => i = j BY <1>0
    <3>3. \A k \in moved : \E i \in upper : f[i] = k OBVIOUS
    <3>. HIDE DEF f, upper, moved
    <3>. QED BY <3>1, <3>2, <3>3, Fun_IsBij
  <2>2. ExistsBijection(upper, moved)
    <3>. HIDE DEF f, upper, moved
    <3>. QED BY <2>1 DEF ExistsBijection
  <2>. HIDE DEF upper, moved
  <2>. QED BY <1>3, <2>2, FS_Bijection
<1>5. Cardinality(Low(s, w)) = Cardinality(lower) + Cardinality(upper)
  <2>1. Low(s, w) = lower \cup upper /\ lower \cap upper = {} BY <1>0 DEF Low
  <2>2. Cardinality(lower \cap upper) = 0 BY <2>1, FS_EmptySet
  <2>3. Cardinality(lower) \in Nat /\ Cardinality(upper) \in Nat
    <3>. HIDE DEF lower, upper
    <3>. QED BY <1>3, FS_CardinalityType
  <2>. HIDE DEF lower, upper
  <2>4. Cardinality(lower \cup upper) = Cardinality(lower) + Cardinality(upper) - Cardinality(lower \cap upper)
    BY <1>3, FS_Union
  <2>5. Cardinality(lower \cup upper) = Cardinality(lower) + Cardinality(upper) BY <2>2, <2>3, <2>4
  <2>. QED BY <2>1, <2>5
<1>6. Cardinality(Xor(lower, moved)) % 2 = (Cardinality(lower) + Cardinality(moved)) % 2
  <2>. HIDE DEF lower, moved
  <2>. QED BY <1>3, <1>4, XorParity
<1>. HIDE DEF lower, upper, moved
<1>. QED BY <1>1, <1>2, <1>4, <1>5, <1>6

LEMMA ParityCounts ==
    ASSUME NEW s \in SUBSET (0..31)
    PROVE Parity32(s) = Cardinality(s) % 2
<1>. DEFINE f16 == Fold(s, 16)
            f8 == Fold(f16, 8)
            f4 == Fold(f8, 4)
            f2 == Fold(f4, 2)
            f1 == Fold(f2, 1)
<1>0. 0..(32 - 1) = 0..31 /\ 0..31 \subseteq Nat OBVIOUS
<1>a. Low(s, 32) = s \cap 0..31 BY <1>0 DEF Low
<1>b. s \cap 0..31 = s OBVIOUS
<1>1. s \in SUBSET Nat /\ Low(s, 32) = s BY <1>0, <1>a, <1>b
<1>2. f16 \in SUBSET Nat /\ Cardinality(Low(f16, 16)) % 2 = Cardinality(Low(s, 32)) % 2
  BY <1>1, FoldParity, 32 = 2 * 16
<1>. HIDE DEF f16
<1>3. f8 \in SUBSET Nat /\ Cardinality(Low(f8, 8)) % 2 = Cardinality(Low(f16, 16)) % 2
  BY <1>2, FoldParity, 16 = 2 * 8
<1>. HIDE DEF f8
<1>4. f4 \in SUBSET Nat /\ Cardinality(Low(f4, 4)) % 2 = Cardinality(Low(f8, 8)) % 2
  BY <1>3, FoldParity, 8 = 2 * 4
<1>. HIDE DEF f4
<1>5. f2 \in SUBSET Nat /\ Cardinality(Low(f2, 2)) % 2 = Cardinality(Low(f4, 4)) % 2
  BY <1>4, FoldParity, 4 = 2 * 2
<1>. HIDE DEF f2
<1>6. f1 \in SUBSET Nat /\ Cardinality(Low(f1, 1)) % 2 = Cardinality(Low(f2, 2)) % 2
  BY <1>5, FoldParity, 2 = 2 * 1
<1>. HIDE DEF f1
<1>7. Cardinality(Low(f1, 1)) % 2 = IF 0 \in f1 THEN 1 ELSE 0
  <2>1. CASE 0 \in f1
    <3>1. Low(f1, 1) = {0} BY <2>1 DEF Low
    <3>2. Cardinality({0}) = 1 BY FS_Singleton
    <3>. QED BY <2>1, <3>1, <3>2
  <2>2. CASE 0 \notin f1
    <3>1. Low(f1, 1) = {} BY <2>2 DEF Low
    <3>. QED BY <2>2, <3>1, FS_EmptySet
  <2>. QED BY <2>1, <2>2
<1>8. Parity32(s) = IF 0 \in f1 THEN 1 ELSE 0 BY DEF Parity32, f1, f2, f4, f8, f16
<1>. QED BY <1>1, <1>2, <1>3, <1>4, <1>5, <1>6, <1>7, <1>8

(* The target's parity bit and the probe's differ if there was an error.    *)
LEMMA ParityTells ==
    ASSUME call \in Calls
    PROVE ParitySent = Parity32(call.data) <=> ~call.parityError
<1>1. call.data \in SUBSET (0..31) /\ call.parityError \in BOOLEAN BY CallTypes
<1>0. 0 \in Int /\ 31 \in Int OBVIOUS
<1>2. IsFiniteSet(0..31) BY <1>0, FS_Interval
<1>a. IsFiniteSet(call.data) BY <1>1, <1>2, FS_Subset
<1>3. Cardinality(call.data) \in Nat BY <1>a, FS_CardinalityType
<1>4. Parity32(call.data) = Cardinality(call.data) % 2 BY <1>1, ParityCounts
<1>5. CASE call.parityError
  <2>1. (Cardinality(call.data) + 1) % 2 # Cardinality(call.data) % 2 BY <1>3
  <2>. QED BY <1>4, <1>5, <2>1 DEF ParitySent
<1>6. CASE ~call.parityError
  <2>1. (Cardinality(call.data) + 0) % 2 = Cardinality(call.data) % 2 BY <1>3
  <2>. QED BY <1>4, <1>6, <2>1 DEF ParitySent
<1>. QED BY <1>1, <1>5, <1>6

LEMMA NotBoth == 0 # 1
  OBVIOUS

LEMMA Performed == ASSUME SwdInv PROVE DoneOnce
<1>. SUFFICES ASSUME result # ""
              PROVE /\ performed = IF result \in {"OK", "OK|MISMATCH"} THEN 1 ELSE 0
                    /\ performed = 1 =>
                         (result = "OK|MISMATCH" <=> ~IsWrite(call.request) /\ call.parityError)
                    /\ result \in Acks => result = answer
  BY DEF DoneOnce
<1>1. /\ call \in Calls /\ result = Value
      /\ \/ answer = "none" /\ ack = "silence" /\ performed = 0
         \/ answer = "OK" /\ ack = "OK" /\ performed = 1
         \/ answer \in {"WAIT", "FAULT"} /\ ack = answer /\ performed = 0
  BY CallReturned
<1>2. ParitySent = Parity32(call.data) <=> ~call.parityError BY <1>1, ParityTells
<1>3. CASE answer = "none" /\ ack = "silence" /\ performed = 0
  <2>1. result = "zero" BY <1>1, <1>3 DEF Value, Temp
  <2>. QED BY <1>3, <2>1 DEF Acks
<1>4. CASE answer = "OK" /\ ack = "OK" /\ performed = 1
  <2>1. result = IF IsWrite(call.request) \/ ~call.parityError THEN "OK" ELSE "OK|MISMATCH"
    BY <1>1, <1>2, <1>4 DEF Value
  <2>. QED BY <1>4, <2>1 DEF Acks
<1>5. CASE answer \in {"WAIT", "FAULT"} /\ ack = answer /\ performed = 0
  <2>1. result \in {ack, "zero"} BY <1>1, <1>5 DEF Value, Temp
  <2>2. result \notin {"OK", "OK|MISMATCH"} BY <1>5, <2>1
  <2>0. performed = 0 BY <1>5
  <2>3. performed # 1 BY <2>0, NotBoth, Zenon
  <2>4. performed = IF result \in {"OK", "OK|MISMATCH"} THEN 1 ELSE 0 BY <2>0, <2>2
  <2>5. result \in Acks => result = answer BY <1>5, <2>1 DEF Acks
  <2>. QED BY <2>3, <2>4, <2>5
<1>. QED BY <1>1, <1>3, <1>4, <1>5

----------------------------------------------------------------------------
(* A transfer command: where its handler stands, what it did, and what it   *)
(* still may.                                                               *)
Kinds == {"dp", "ap", "write", "rdbuff"}
Locals == [pc : {"begin", "loop", "flush", "act", "match", "skip", "finish", "block", "words", "done"},
           at : Nat, cnt : Nat, ack : {"zero", "OK", "error", "mismatch"}, post : BOOLEAN,
           check : BOOLEAN, ir : {"none", "dp", "ap"}, tries : Nat, k : Nat, lost : BOOLEAN]
Wires == [log : Seq([k : Nat, kind : Kinds]), posted : Nat, ts : Nat]
TransferType ==
    /\ cmd \in Commands
    /\ h \in Locals
    /\ wire \in Wires
    /\ do_abort \in BOOLEAN /\ heard \in Nat

Failure == h.ack \in {"error", "mismatch"}

(* Where the request pointer is: it only gets lost after a failure.         *)
Pointer ==
    /\ h.k <= Num
    /\ h.lost => Failure
    /\ h.pc = "begin" => h.k = 0 /\ h.at = 1 /\ h.cnt = 0
    /\ h.pc = "loop" => h.at = HeaderCell(h.k + 1) /\ h.cnt = h.k
    /\ h.pc \in {"flush", "act", "match"} =>
         h.k >= 1 /\ ~h.lost /\ h.cnt = (IF Swd THEN h.k ELSE h.k - 1)
    /\ h.pc \in {"flush", "act"} => h.at = HeaderCell(h.k) + 1
    /\ h.pc = "match" => h.at = HeaderCell(h.k + 1) /\ Req.match /\ h.ack = "OK"
    /\ h.pc = "skip" => Failure \/ (h.at = HeaderCell(h.cnt + 1) /\ h.k <= h.cnt /\ h.cnt <= Num)
    /\ h.pc \in {"skip", "finish", "done"} \/ ~Failure
    /\ h.pc \in {"finish", "done"} => Failure \/ h.at = HeaderCell(Num + 1)

(* What the log says of the requests: those begun are done, but for the     *)
(* last one in the middle of it.                                            *)
LogSorted(n) ==
    /\ \A i \in 1..Len(wire.log) : wire.log[i].k <= n
    /\ \A i, j \in 1..Len(wire.log) : i <= j => wire.log[i].k <= wire.log[j].k
OthersAllowed(n) == \A j \in 1..Num : j # n => ReadsOf(j) <= Allowed(j)
Log ==
    /\ LogSorted(h.k) /\ OthersAllowed(h.k)
    /\ h.pc \in {"loop", "skip", "finish", "done"} /\ h.k # 0 => ReadsOf(h.k) <= Allowed(h.k)
    /\ h.pc \in {"flush", "act"} => ReadsOf(h.k) = 0
    /\ h.pc = "match" => ReadsOf(h.k) + h.tries + 1 = Allowed(h.k)
    /\ h.ack = "mismatch" => h.k # 0 /\ (~do_abort => ReadsOf(h.k) = Allowed(h.k))

(* What is begun after the abort was heard.                                 *)
Heard ==
    /\ do_abort /\ h.pc # "begin" => h.k <= heard + 1
    /\ do_abort /\ h.pc = "loop" => h.k <= heard

(* DAP_TransferBlock.                                                       *)
Block ==
    /\ ~h.lost /\ h.pc \in {"begin", "block", "words", "done"}
    /\ h.cnt <= Num
    /\ h.pc = "begin" => h.cnt = 0
    /\ h.pc = "block" => h.at = 2 /\ h.cnt = 0
    /\ h.pc = "words" => h.at = 2 + (IF cmd.reqs[1].rd THEN 0 ELSE h.cnt)
    /\ h.pc = "done" => h.ack = "error" \/ h.at = EndCell

TransferInv ==
    /\ TransferType
    /\ IF cmd.kind = "transfer" THEN h.pc \notin {"block", "words"} /\ Pointer /\ Log /\ Heard ELSE Block

----------------------------------------------------------------------------
(* The layout of a packet.                                                  *)
LEMMA CommandTypes ==
    ASSUME cmd \in Commands
    PROVE /\ Num \in Nat /\ Num >= 1 /\ cmd.retry \in Nat /\ cmd.kind \in {"transfer", "block"}
          /\ \A k \in 1..Num : /\ cmd.reqs[k].rd \in BOOLEAN /\ cmd.reqs[k].ap \in BOOLEAN
                               /\ cmd.reqs[k].match \in BOOLEAN /\ cmd.reqs[k].ts \in BOOLEAN
<1>1. PICK n \in 1..MaxTransfers : cmd \in Transfers(n) \/ cmd \in Blocks(n) BY DEF Commands
<1>2. cmd.reqs \in [1..n -> TransferRequests] BY <1>1 DEF Transfers, Blocks
<1>3. cmd.retry \in MatchRetries /\ cmd.kind \in {"transfer", "block"} BY <1>1 DEF Transfers, Blocks
<1>4. n \in Nat /\ n >= 1 BY TransferAssumption
<1>5. cmd.reqs \in Seq(TransferRequests) /\ Len(cmd.reqs) = n BY <1>2, <1>4
<1>6. \A r \in TransferRequests : /\ r.rd \in BOOLEAN /\ r.ap \in BOOLEAN
                                  /\ r.match \in BOOLEAN /\ r.ts \in BOOLEAN
  BY TransferAssumption
<1>7. cmd.retry \in Nat BY <1>3, TransferAssumption
<1>8. Num \in Nat /\ Num >= 1 BY <1>4, <1>5 DEF Num
<1>9. \A k \in 1..Num : cmd.reqs[k] \in TransferRequests BY <1>2, <1>5 DEF Num
<1>. QED BY <1>3, <1>6, <1>7, <1>8, <1>9

WordsBefore(k) == {j \in 1..k - 1 : HasWord(cmd.reqs[j])}
LEMMA WordsBeforeFinite ==
    ASSUME NEW k \in Nat \ {0}
    PROVE IsFiniteSet(WordsBefore(k)) /\ Cardinality(WordsBefore(k)) \in Nat
          /\ HeaderCell(k) = k + Cardinality(WordsBefore(k))
<1>1. k - 1 \in Int /\ 1 \in Int OBVIOUS
<1>2. IsFiniteSet(1..k - 1) BY <1>1, FS_Interval
<1>3. WordsBefore(k) \subseteq 1..k - 1 BY DEF WordsBefore
<1>4. IsFiniteSet(WordsBefore(k)) BY <1>2, <1>3, FS_Subset
<1>. QED BY <1>4, FS_CardinalityType DEF WordsBefore, HeaderCell

(* From header to header.                                                   *)
LEMMA NextHeader ==
    ASSUME NEW k \in Nat \ {0}
    PROVE HeaderCell(k + 1) = HeaderCell(k) + (IF HasWord(cmd.reqs[k]) THEN 2 ELSE 1)
<1>1. /\ IsFiniteSet(WordsBefore(k)) /\ Cardinality(WordsBefore(k)) \in Nat
      /\ HeaderCell(k) = k + Cardinality(WordsBefore(k))
  BY WordsBeforeFinite
<1>2. k + 1 \in Nat \ {0} OBVIOUS
<1>3. HeaderCell(k + 1) = k + 1 + Cardinality(WordsBefore(k + 1)) BY <1>2, WordsBeforeFinite
<1>4. 1..k + 1 - 1 = (1..k - 1) \cup {k} /\ k \notin 1..k - 1 OBVIOUS
<1>5. CASE HasWord(cmd.reqs[k])
  <2>1. WordsBefore(k + 1) = WordsBefore(k) \cup {k} /\ k \notin WordsBefore(k)
    BY <1>4, <1>5 DEF WordsBefore
  <2>2. Cardinality(WordsBefore(k + 1)) = Cardinality(WordsBefore(k)) + 1 BY <1>1, <2>1, FS_AddElement
  <2>. QED BY <1>1, <1>3, <1>5, <2>2
<1>6. CASE ~HasWord(cmd.reqs[k])
  <2>1. WordsBefore(k + 1) = WordsBefore(k) BY <1>4, <1>6 DEF WordsBefore
  <2>. QED BY <1>1, <1>3, <1>6, <2>1
<1>. QED BY <1>5, <1>6

LEMMA HeadersRise ==
    ASSUME NEW i \in Nat \ {0}, NEW k \in Nat \ {0}, i < k
    PROVE HeaderCell(i) \in Nat /\ HeaderCell(k) \in Nat /\ HeaderCell(i) < HeaderCell(k)
<1>1. /\ Cardinality(WordsBefore(i)) \in Nat /\ HeaderCell(i) = i + Cardinality(WordsBefore(i))
      /\ IsFiniteSet(WordsBefore(k)) /\ Cardinality(WordsBefore(k)) \in Nat
      /\ HeaderCell(k) = k + Cardinality(WordsBefore(k))
  BY WordsBeforeFinite
<1>2. WordsBefore(i) \subseteq WordsBefore(k) BY DEF WordsBefore
<1>3. Cardinality(WordsBefore(i)) <= Cardinality(WordsBefore(k)) BY <1>1, <1>2, FS_Subset
<1>. QED BY <1>1, <1>3

(* The handler that stands at a header finds its request.                   *)
LEMMA HeaderFound ==
    ASSUME Num \in Nat, NEW k \in 1..Num
    PROVE RequestAt(HeaderCell(k)) = k
<1>1. ASSUME NEW i \in 1..Num, HeaderCell(i) = HeaderCell(k) PROVE i = k
  <2>1. CASE i < k
    <3>1. HeaderCell(i) \in Nat /\ HeaderCell(k) \in Nat /\ HeaderCell(i) < HeaderCell(k)
      BY <2>1, HeadersRise
    <3>. QED BY <1>1, <3>1
  <2>2. CASE k < i
    <3>1. HeaderCell(i) \in Nat /\ HeaderCell(k) \in Nat /\ HeaderCell(k) < HeaderCell(i)
      BY <2>2, HeadersRise
    <3>. QED BY <1>1, <3>1
  <2>. QED BY <2>1, <2>2
<1>. QED BY <1>1 DEF RequestAt

LEMMA FirstHeader == HeaderCell(1) = 1
<1>1. WordsBefore(1) = {} BY DEF WordsBefore
<1>2. 1 \in Nat \ {0} OBVIOUS
<1>. QED BY <1>1, <1>2, WordsBeforeFinite, FS_EmptySet

(* All this is the packet's, which stays.                                   *)
LEMMA PacketStays ==
    ASSUME cmd' = cmd
    PROVE /\ Num' = Num /\ (Swd' <=> Swd) /\ EndCell' = EndCell
          /\ \A k : HeaderCell(k)' = HeaderCell(k) /\ Allowed(k)' = Allowed(k)
<1>1. Num' = Num /\ (Swd' <=> Swd) BY DEF Num, Swd
<1>2. ASSUME NEW k PROVE HeaderCell(k)' = HeaderCell(k)
  <2>1. {j \in 1..k - 1 : HasWord(cmd.reqs[j])}' = {j \in 1..k - 1 : HasWord(cmd.reqs[j])} OBVIOUS
  <2>. QED BY <2>1 DEF HeaderCell
<1>3. ASSUME NEW k PROVE Allowed(k)' = Allowed(k) BY <1>1 DEF Allowed
<1>4. EndCell' = EndCell BY <1>1, <1>2 DEF EndCell
<1>. QED BY <1>1, <1>2, <1>3, <1>4

LEMMA AllowedIs ==
    ASSUME cmd \in Commands, NEW k \in 1..Num
    PROVE Allowed(k) \in Nat /\ Allowed(k) >= 1
  BY CommandTypes DEF Allowed

----------------------------------------------------------------------------
(* The log.                                                                 *)
LEMMA AccessesFinite ==
    ASSUME TransferType, NEW j
    PROVE IsFiniteSet(AccessesOf(j)) /\ ReadsOf(j) \in Nat
<1>1. Len(wire.log) \in Nat BY DEF TransferType, Wires
<1>2. 1 \in Int /\ Len(wire.log) \in Int BY <1>1
<1>3. IsFiniteSet(1..Len(wire.log)) BY <1>2, FS_Interval
<1>4. AccessesOf(j) \subseteq 1..Len(wire.log) BY DEF AccessesOf
<1>5. IsFiniteSet(AccessesOf(j)) BY <1>3, <1>4, FS_Subset
<1>. QED BY <1>5, FS_CardinalityType DEF ReadsOf

(* An access is one more of its request.                                    *)
LEMMA AccessLogged ==
    ASSUME TransferType, NEW k \in Nat, NEW kind \in Kinds, NEW ts \in BOOLEAN, wire' = Did(k, kind, ts)
    PROVE /\ wire' \in Wires
          /\ wire'.log = Append(wire.log, [k |-> k, kind |-> kind])
<1>1. wire.log \in Seq([k : Nat, kind : Kinds]) /\ wire.posted \in Nat /\ wire.ts \in Nat BY DEF TransferType, Wires
<1>2. [k |-> k, kind |-> kind] \in [k : Nat, kind : Kinds] OBVIOUS
<1>3. Append(wire.log, [k |-> k, kind |-> kind]) \in Seq([k : Nat, kind : Kinds]) BY <1>1, <1>2
<1>4. Len(wire.log) + 1 \in Nat BY <1>1
<1>. QED BY <1>1, <1>3, <1>4 DEF Did, Wires

LEMMA AccessCounted ==
    ASSUME TransferType, NEW k \in Nat, NEW kind \in Kinds,
           wire'.log = Append(wire.log, [k |-> k, kind |-> kind]), NEW j
    PROVE ReadsOf(j)' = ReadsOf(j) + (IF j = k /\ kind # "rdbuff" THEN 1 ELSE 0)
<1>. DEFINE n == Len(wire.log)
            e == [k |-> k, kind |-> kind]
<1>1. n \in Nat /\ wire.log \in Seq([k : Nat, kind : Kinds]) BY DEF TransferType, Wires
<1>2. /\ Len(wire'.log) = n + 1 /\ wire'.log[n + 1] = e
      /\ \A i \in 1..n : wire'.log[i] = wire.log[i]
  BY <1>1
<1>3. e.k = k /\ e.kind = kind OBVIOUS
<1>. HIDE DEF e
<1>4. AccessesOf(j)' = {i \in 1..Len(wire'.log) : wire'.log[i].k = j /\ wire'.log[i].kind # "rdbuff"}
  BY DEF AccessesOf
<1>5. 1..n + 1 = (1..n) \cup {n + 1} /\ n + 1 \notin 1..n BY <1>1
<1>6. IsFiniteSet(AccessesOf(j)) /\ ReadsOf(j) \in Nat BY AccessesFinite
<1>7. CASE j = k /\ kind # "rdbuff"
  <2>1. AccessesOf(j)' = AccessesOf(j) \cup {n + 1} BY <1>2, <1>3, <1>4, <1>5, <1>7 DEF AccessesOf
  <2>2. n + 1 \notin AccessesOf(j) BY <1>5 DEF AccessesOf
  <2>3. Cardinality(AccessesOf(j) \cup {n + 1}) = Cardinality(AccessesOf(j)) + 1 BY <1>6, <2>2, FS_AddElement
  <2>4. ReadsOf(j)' = ReadsOf(j) + 1 BY <2>1, <2>3 DEF ReadsOf
  <2>. QED BY <1>7, <2>4
<1>8. CASE ~(j = k /\ kind # "rdbuff")
  <2>1. AccessesOf(j)' = AccessesOf(j) BY <1>2, <1>3, <1>4, <1>5, <1>8 DEF AccessesOf
  <2>2. ReadsOf(j)' = ReadsOf(j) BY <2>1 DEF ReadsOf
  <2>. QED BY <1>6, <1>8, <2>2
<1>. QED BY <1>7, <1>8

LEMMA AccessSorted ==
    ASSUME TransferType, NEW k \in Nat, NEW kind \in Kinds,
           wire'.log = Append(wire.log, [k |-> k, kind |-> kind]),
           \A i \in 1..Len(wire.log) : wire.log[i].k <= k,
           \A i, j \in 1..Len(wire.log) : i <= j => wire.log[i].k <= wire.log[j].k
    PROVE /\ \A i \in 1..Len(wire'.log) : wire'.log[i].k <= k
          /\ \A i, j \in 1..Len(wire'.log) : i <= j => wire'.log[i].k <= wire'.log[j].k
<1>. DEFINE n == Len(wire.log)
            e == [k |-> k, kind |-> kind]
<1>1. n \in Nat /\ wire.log \in Seq([k : Nat, kind : Kinds]) BY DEF TransferType, Wires
<1>2. /\ Len(wire'.log) = n + 1 /\ wire'.log[n + 1] = e
      /\ \A i \in 1..n : wire'.log[i] = wire.log[i]
  BY <1>1
<1>3. e.k = k OBVIOUS
<1>. HIDE DEF e
<1>4. \A i \in 1..n + 1 : i \in 1..n \/ i = n + 1 BY <1>1
<1>5. k <= k OBVIOUS
<1>6. \A i \in 1..n + 1 : wire'.log[i].k <= k BY <1>2, <1>3, <1>4, <1>5
<1>7. ASSUME NEW i \in 1..n + 1, NEW j \in 1..n + 1, i <= j PROVE wire'.log[i].k <= wire'.log[j].k
  <2>1. CASE j = n + 1 BY <1>2, <1>3, <1>6, <2>1
  <2>2. CASE j \in 1..n
    <3>1. i \in 1..n BY <1>1, <1>7, <2>2
    <3>. QED BY <1>2, <1>7, <2>2, <3>1
  <2>. QED BY <1>4, <2>1, <2>2
<1>. QED BY <1>2, <1>6, <1>7

LEMMA LogStays ==
    ASSUME wire' = wire
    PROVE \A j : ReadsOf(j)' = ReadsOf(j)
<1>1. ASSUME NEW j PROVE AccessesOf(j)' = AccessesOf(j) BY DEF AccessesOf
<1>. QED BY <1>1 DEF ReadsOf

----------------------------------------------------------------------------
(* The end of an iteration, and a failure.                                  *)
LEMMA EndIs ==
    ASSUME NEW l \in Locals
    PROVE /\ EndIteration(l) \in Locals
          /\ EndIteration(l).pc = IF do_abort THEN "skip" ELSE "loop"
          /\ EndIteration(l).cnt = IF Swd THEN l.cnt ELSE l.cnt + 1
          /\ EndIteration(l).at = l.at /\ EndIteration(l).ack = l.ack
          /\ EndIteration(l).k = l.k /\ EndIteration(l).lost = l.lost
<1>1. l.cnt \in Nat /\ l.cnt + 1 \in Nat BY DEF Locals
<1>. DEFINE c == IF Swd THEN l.cnt ELSE l.cnt + 1
            p == IF do_abort THEN "skip" ELSE "loop"
<1>2. c \in Nat BY <1>1
<1>3. p \in {"begin", "loop", "flush", "act", "match", "skip", "finish", "block", "words", "done"} OBVIOUS
<1>4. EndIteration(l) = [l EXCEPT !.cnt = c, !.pc = p] BY DEF EndIteration, Locals
<1>. HIDE DEF c, p
<1>5. EndIteration(l) \in Locals BY <1>2, <1>3, <1>4 DEF Locals
<1>6. /\ EndIteration(l).pc = p /\ EndIteration(l).cnt = c
      /\ EndIteration(l).at = l.at /\ EndIteration(l).ack = l.ack
      /\ EndIteration(l).k = l.k /\ EndIteration(l).lost = l.lost
  BY <1>4 DEF Locals
<1>. QED BY <1>5, <1>6 DEF c, p

LEMMA FailedIs ==
    ASSUME NEW l \in Locals
    PROVE /\ Failed(l) \in Locals /\ Failed(l).pc = "skip" /\ Failed(l).ack = "error"
          /\ Failed(l).k = l.k
  BY DEF Failed, Break, Locals

(* Requests are begun one after the other.                                  *)
LEMMA AccessFits ==
    ASSUME TransferInv, cmd.kind = "transfer", NEW n, n = h.k, NEW kind \in Kinds, NEW ts \in BOOLEAN,
           wire' = Did(n, kind, ts), cmd' = cmd
    PROVE /\ wire' \in Wires /\ LogSorted(n)' /\ OthersAllowed(n)'
          /\ ReadsOf(n) \in Nat
          /\ ReadsOf(n)' = ReadsOf(n) + (IF kind # "rdbuff" THEN 1 ELSE 0)
<1>1. TransferType /\ LogSorted(n) /\ OthersAllowed(n) BY DEF TransferInv, Log
<1>2. n \in Nat BY <1>1 DEF TransferType, Locals
<1>3. wire' \in Wires /\ wire'.log = Append(wire.log, [k |-> n, kind |-> kind])
  BY <1>1, <1>2, AccessLogged
<1>4. /\ \A i \in 1..Len(wire'.log) : wire'.log[i].k <= n
      /\ \A i, j \in 1..Len(wire'.log) : i <= j => wire'.log[i].k <= wire'.log[j].k
  BY <1>1, <1>2, <1>3, AccessSorted DEF LogSorted
<1>5. LogSorted(n)' BY <1>4 DEF LogSorted
<1>6. \A j : ReadsOf(j)' = ReadsOf(j) + (IF j = n /\ kind # "rdbuff" THEN 1 ELSE 0)
  BY <1>1, <1>2, <1>3, AccessCounted
<1>7. \A j : ReadsOf(j) \in Nat BY <1>1, AccessesFinite
<1>8. \A j : j # n => ReadsOf(j)' = ReadsOf(j) BY <1>6, <1>7
<1>9. OthersAllowed(n)' BY <1>1, <1>8, PacketStays DEF OthersAllowed
<1>10. ReadsOf(n)' = ReadsOf(n) + (IF kind # "rdbuff" THEN 1 ELSE 0) BY <1>6
<1>. QED BY <1>3, <1>5, <1>7, <1>9, <1>10

LEMMA NoAccessFits ==
    ASSUME TransferInv, cmd.kind = "transfer", NEW n, n = h.k, wire' = wire, cmd' = cmd
    PROVE wire' \in Wires /\ LogSorted(n)' /\ OthersAllowed(n)' /\ ReadsOf(n)' = ReadsOf(n)
<1>1. TransferType /\ LogSorted(n) /\ OthersAllowed(n) BY DEF TransferInv, Log
<1>2. \A j : ReadsOf(j)' = ReadsOf(j) BY LogStays
<1>3. LogSorted(n)' BY <1>1 DEF LogSorted
<1>4. OthersAllowed(n)' BY <1>1, <1>2, PacketStays DEF OthersAllowed
<1>. QED BY <1>1, <1>2, <1>3, <1>4 DEF TransferType

(* A request that was executed.                                             *)
InRequest == h.pc \in {"flush", "act", "match"}
LEMMA RequestEnds ==
    ASSUME TransferInv, cmd.kind = "transfer", InRequest, NEW n, n = h.k,
           NEW l \in Locals, l.k = n, l.cnt = h.cnt, l.lost = h.lost, l.ack = "OK", l.at = HeaderCell(n + 1),
           h' = EndIteration(l), UNCHANGED <<cmd, do_abort, heard>>,
           wire' \in Wires, LogSorted(n)', OthersAllowed(n)', ReadsOf(n)' <= Allowed(n)
    PROVE TransferInv'
<1>1. /\ h' \in Locals /\ h'.pc = (IF do_abort THEN "skip" ELSE "loop")
      /\ h'.cnt = (IF Swd THEN l.cnt ELSE l.cnt + 1)
      /\ h'.at = HeaderCell(n + 1) /\ h'.ack = "OK" /\ h'.k = n /\ h'.lost = h.lost
  BY EndIs
<1>2. /\ h.k <= Num /\ h.k >= 1 /\ ~h.lost /\ h.cnt = (IF Swd THEN h.k ELSE h.k - 1)
      /\ TransferType /\ Heard
  BY DEF TransferInv, Pointer, InRequest
<1>3. n \in Nat BY <1>2 DEF TransferType, Locals
<1>4. h'.cnt = n BY <1>1, <1>2, <1>3
<1>5. /\ Num' = Num /\ (Swd' <=> Swd)
      /\ \A k : HeaderCell(k)' = HeaderCell(k) /\ Allowed(k)' = Allowed(k)
  BY PacketStays
<1>6. TransferType' BY <1>1, <1>2 DEF TransferType
<1>7. Pointer'
  <2>1. HeaderCell(n + 1)' = HeaderCell(n + 1) BY <1>5
  <2>2. n <= Num' /\ n <= n BY <1>2, <1>3, <1>5
  <2>3. h'.pc \in {"skip", "loop"} BY <1>1
  <2>. QED BY <1>1, <1>2, <1>4, <2>1, <2>2, <2>3 DEF Pointer, Failure
<1>8. Log' BY <1>1, <1>2, <1>3, <1>5 DEF Log
<1>9. Heard'
  <2>1. do_abort => h.k <= heard + 1 BY <1>2 DEF Heard, InRequest
  <2>. QED BY <1>1, <2>1 DEF Heard
<1>10. h'.pc \notin {"block", "words"} /\ cmd'.kind = "transfer" BY <1>1
<1>. QED BY <1>6, <1>7, <1>8, <1>9, <1>10 DEF TransferInv

(* A request that failed.                                                   *)
LEMMA RequestFails ==
    ASSUME TransferInv, cmd.kind = "transfer", InRequest, NEW n, n = h.k,
           h' \in Locals, h'.pc = "skip", h'.k = n, h'.ack \in {"error", "mismatch"},
           h'.ack = "mismatch" => do_abort \/ ReadsOf(n)' = Allowed(n),
           UNCHANGED <<cmd, do_abort, heard>>,
           wire' \in Wires, LogSorted(n)', OthersAllowed(n)', ReadsOf(n)' <= Allowed(n)
    PROVE TransferInv'
<1>2. h.k <= Num /\ h.k >= 1 /\ TransferType /\ Heard
  BY DEF TransferInv, Pointer, InRequest
<1>3. n \in Nat BY <1>2 DEF TransferType, Locals
<1>5. /\ Num' = Num /\ \A k : HeaderCell(k)' = HeaderCell(k) /\ Allowed(k)' = Allowed(k)
  BY PacketStays
<1>6. TransferType' BY <1>2 DEF TransferType
<1>7. Pointer' BY <1>2, <1>5 DEF Pointer, Failure
<1>8. Log' BY <1>2, <1>3, <1>5 DEF Log
<1>9. Heard'
  <2>1. do_abort => h.k <= heard + 1 BY <1>2 DEF Heard, InRequest
  <2>. QED BY <2>1 DEF Heard
<1>10. h'.pc \notin {"block", "words"} /\ cmd'.kind = "transfer" OBVIOUS
<1>. QED BY <1>6, <1>7, <1>8, <1>9, <1>10 DEF TransferInv

----------------------------------------------------------------------------
(* The steps.                                                               *)
LEMMA AbortSteps ==
    ASSUME TransferInv, DoAbort PROVE TransferInv'
<1>1. /\ UNCHANGED <<cmd, h, resp, wire>> /\ do_abort' = TRUE /\ heard' = h.k /\ h.pc # "begin"
  BY DEF DoAbort
<1>2. TransferType BY DEF TransferInv
<1>3. h.k \in Nat BY <1>2 DEF TransferType, Locals
<1>4. TransferType' BY <1>1, <1>2, <1>3 DEF TransferType
<1>5. /\ Num' = Num /\ (Swd' <=> Swd) /\ EndCell' = EndCell
      /\ \A k : HeaderCell(k)' = HeaderCell(k) /\ Allowed(k)' = Allowed(k)
  BY <1>1, PacketStays
<1>6. CASE cmd.kind = "transfer"
  <2>1. Pointer /\ Log /\ h.pc \notin {"block", "words"} BY <1>6 DEF TransferInv
  <2>2. HeaderCell(h.k + 1)' = HeaderCell(h.k + 1) /\ HeaderCell(h.k)' = HeaderCell(h.k)
        /\ HeaderCell(h.cnt + 1)' = HeaderCell(h.cnt + 1) /\ HeaderCell(Num + 1)' = HeaderCell(Num + 1)
        /\ Req' = Req
    BY <1>1, <1>5 DEF Req
  <2>3. Pointer' BY <1>1, <1>5, <2>1, <2>2 DEF Pointer, Failure
  <2>4. \A j : ReadsOf(j)' = ReadsOf(j) BY <1>1, LogStays
  <2>5. LogSorted(h.k)' /\ OthersAllowed(h.k)' BY <1>1, <1>5, <2>1, <2>4 DEF Log, LogSorted, OthersAllowed
  <2>6. Log' BY <1>1, <1>5, <2>1, <2>4, <2>5 DEF Log
  <2>7. Heard'
    <3>1. h.k <= h.k + 1 /\ h.k <= h.k BY <1>3
    <3>. QED BY <1>1, <3>1 DEF Heard
  <2>. QED BY <1>1, <1>4, <1>6, <2>1, <2>3, <2>6, <2>7 DEF TransferInv
<1>7. CASE cmd.kind # "transfer"
  <2>1. Block BY <1>7 DEF TransferInv
  <2>2. Block' BY <1>1, <1>5, <2>1 DEF Block
  <2>. QED BY <1>1, <1>4, <1>7, <2>2 DEF TransferInv
<1>. QED BY <1>6, <1>7

LEMMA BeginSteps ==
    ASSUME TransferInv, Begin PROVE TransferInv'
<1>1. /\ UNCHANGED <<cmd, resp, wire, heard>> /\ h.pc = "begin"
      /\ do_abort' = (IF cmd.kind = "transfer" THEN FALSE ELSE do_abort)
      /\ h' = IF cmd.kind = "transfer" THEN [h EXCEPT !.pc = "loop"]
              ELSE [h EXCEPT !.pc = "block", !.at = 2, !.k = 1,
                             !.ir = IF cmd.reqs[1].ap THEN "ap" ELSE "dp"]
  BY DEF Begin
<1>2. TransferType BY DEF TransferInv
<1>3. do_abort' \in BOOLEAN BY <1>1, <1>2 DEF TransferType
<1>5. /\ Num' = Num /\ (Swd' <=> Swd) /\ EndCell' = EndCell
      /\ \A k : HeaderCell(k)' = HeaderCell(k) /\ Allowed(k)' = Allowed(k)
  BY <1>1, PacketStays
<1>6. CASE cmd.kind = "transfer"
  <2>1. Pointer /\ Log BY <1>6 DEF TransferInv
  <2>2. h' = [h EXCEPT !.pc = "loop"] /\ ~do_abort' BY <1>1, <1>6
  <2>3. h' \in Locals /\ h'.pc = "loop" /\ h'.k = h.k /\ h'.at = h.at /\ h'.cnt = h.cnt
        /\ h'.ack = h.ack /\ h'.lost = h.lost
    BY <1>2, <2>2 DEF TransferType, Locals
  <2>4. h.k = 0 /\ h.at = 1 /\ h.cnt = 0 /\ ~Failure /\ h.k <= Num BY <1>1, <2>1 DEF Pointer
  <2>5. h'.k + 1 = 1 BY <2>3, <2>4
  <2>6. h'.at = HeaderCell(1)' BY <1>5, <2>3, <2>4, FirstHeader
  <2>8. (h.at = HeaderCell(h.k + 1))' BY <2>5, <2>6
  <2>9. Pointer' BY <1>5, <2>1, <2>3, <2>4, <2>8 DEF Pointer, Failure
  <2>10. \A j : ReadsOf(j)' = ReadsOf(j) BY <1>1, LogStays
  <2>11. LogSorted(h.k)' /\ OthersAllowed(h.k)' BY <1>1, <1>5, <2>1, <2>3, <2>10 DEF Log, LogSorted, OthersAllowed
  <2>12. h'.ack # "mismatch" BY <2>3, <2>4 DEF Failure
  <2>13. Log' BY <1>5, <2>3, <2>4, <2>10, <2>11, <2>12 DEF Log
  <2>14. Heard' BY <2>2 DEF Heard
  <2>15. TransferType' BY <1>1, <1>2, <1>3, <2>3 DEF TransferType
  <2>. QED BY <1>1, <1>6, <2>3, <2>9, <2>13, <2>14, <2>15 DEF TransferInv
<1>7. CASE cmd.kind # "transfer"
  <2>1. Block BY <1>7 DEF TransferInv
  <2>. DEFINE i == IF cmd.reqs[1].ap THEN "ap" ELSE "dp"
  <2>2. i \in {"none", "dp", "ap"} /\ h' = [h EXCEPT !.pc = "block", !.at = 2, !.k = 1, !.ir = i]
    BY <1>1, <1>7
  <2>. HIDE DEF i
  <2>3. 1 \in Nat /\ 2 \in Nat OBVIOUS
  <2>4. h' \in Locals BY <1>2, <2>2, <2>3 DEF TransferType, Locals
  <2>5. h'.pc = "block" /\ h'.at = 2 /\ h'.cnt = h.cnt /\ h'.lost = h.lost
    BY <1>2, <2>2 DEF TransferType, Locals
  <2>6. Block' BY <1>1, <1>5, <2>1, <2>5 DEF Block
  <2>7. TransferType' BY <1>1, <1>2, <1>3, <2>4 DEF TransferType
  <2>. QED BY <1>1, <1>7, <2>6, <2>7 DEF TransferInv
<1>. QED BY <1>6, <1>7

LEMMA TakeHeaderSteps ==
    ASSUME TransferInv, TakeHeader PROVE TransferInv'
<1>1. h.pc = "loop" /\ UNCHANGED <<cmd, resp, wire, do_abort, heard>> BY DEF TakeHeader
<1>2. cmd.kind = "transfer" BY <1>1 DEF TransferInv, Block
<1>3. TransferType /\ Pointer /\ Log /\ Heard BY <1>2 DEF TransferInv
<1>4. /\ h \in Locals /\ h.k \in Nat /\ h.k <= Num /\ h.at = HeaderCell(h.k + 1) /\ h.cnt = h.k
      /\ ~Failure /\ ~h.lost /\ h.at \in Nat
  BY <1>1, <1>3 DEF TransferType, Pointer, Locals
<1>5. /\ Num' = Num /\ (Swd' <=> Swd) /\ EndCell' = EndCell
      /\ \A k : HeaderCell(k)' = HeaderCell(k) /\ Allowed(k)' = Allowed(k)
  BY <1>1, PacketStays
<1>6. Num \in Nat BY <1>3, CommandTypes DEF TransferType
<1>7. \A j : ReadsOf(j)' = ReadsOf(j) BY <1>1, LogStays
<1>8. CASE h.cnt = Num
  <2>1. h' = [h EXCEPT !.pc = "finish"] BY <1>8 DEF TakeHeader
  <2>2. h' \in Locals /\ h'.pc = "finish" /\ h'.k = h.k /\ h'.at = h.at /\ h'.cnt = h.cnt
        /\ h'.ack = h.ack /\ h'.lost = h.lost
    BY <1>4, <2>1 DEF Locals
  <2>3. h'.at = HeaderCell(Num + 1) BY <1>4, <1>8, <2>2
  <2>4. h'.at = HeaderCell(Num + 1)' BY <1>5, <2>3
  <2>5. Pointer' BY <1>4, <1>5, <2>2, <2>4 DEF Pointer, Failure
  <2>6. LogSorted(h.k)' /\ OthersAllowed(h.k)' BY <1>1, <1>3, <1>5, <1>7, <2>2 DEF Log, LogSorted, OthersAllowed
  <2>7. Log' BY <1>1, <1>3, <1>4, <1>5, <1>7, <2>2, <2>6 DEF Log, Failure
  <2>8. Heard' BY <1>1, <1>3, <2>2 DEF Heard
  <2>9. TransferType' BY <1>1, <1>3, <2>2 DEF TransferType
  <2>. QED BY <1>1, <1>2, <2>2, <2>5, <2>7, <2>8, <2>9 DEF TransferInv
<1>9. CASE h.cnt # Num
  <2>. DEFINE c == IF Swd THEN h.cnt + 1 ELSE h.cnt
              p == IF h.post THEN "flush" ELSE "act"
  <2>1. PICK m \in 1..Num : m = h.k + 1 BY <1>4, <1>6, <1>9
  <2>2. RequestAt(h.at) = m BY <1>4, <1>6, <2>1, HeaderFound
  <2>3. m # 0 /\ m \in Nat /\ h.at + 1 \in Nat BY <1>4, <2>1
  <2>4. h' = [h EXCEPT !.at = h.at + 1, !.k = m, !.cnt = c, !.pc = p]
    <3>1. h' = [h EXCEPT !.at = @ + 1, !.k = RequestAt(h.at),
                         !.cnt = IF Swd THEN @ + 1 ELSE @,
                         !.pc = IF h.post THEN "flush" ELSE "act"]
      BY <1>9, <2>2, <2>3 DEF TakeHeader
    <3>. QED BY <2>2, <3>1, <1>4 DEF Locals
  <2>5. c \in Nat /\ c = (IF Swd THEN m ELSE m - 1) BY <1>4, <2>1
  <2>6. p \in {"flush", "act"} OBVIOUS
  <2>7. m >= 1 /\ m <= Num BY <2>1, <1>6
  <2>8. \A j \in 1..Num : j # m => ReadsOf(j) <= Allowed(j)
    <3>1. OthersAllowed(h.k) /\ (h.k # 0 => ReadsOf(h.k) <= Allowed(h.k)) BY <1>1, <1>3 DEF Log
    <3>2. \A j \in 1..Num : j # 0 BY <1>6
    <3>. QED BY <2>1, <3>1, <3>2 DEF OthersAllowed
  <2>9. /\ \A i \in 1..Len(wire.log) : wire.log[i].k <= h.k
        /\ \A i, j \in 1..Len(wire.log) : i <= j => wire.log[i].k <= wire.log[j].k
    BY <1>3 DEF Log, LogSorted
  <2>10. \A i \in 1..Len(wire.log) : wire.log[i].k \in Nat /\ wire.log[i].k <= m /\ wire.log[i].k # m
    <3>0. wire.log \in Seq([k : Nat, kind : Kinds]) BY <1>3 DEF TransferType, Wires
    <3>1. \A i \in 1..Len(wire.log) : wire.log[i] \in [k : Nat, kind : Kinds] BY <3>0, ElementOfSeq
    <3>2. \A i \in 1..Len(wire.log) : wire.log[i].k \in Nat BY <3>1
    <3>3. \A a \in Nat : a <= h.k => a <= m /\ a # m BY <1>4, <2>1
    <3>. QED BY <2>9, <3>2, <3>3
  <2>11. AccessesOf(m) = {} BY <2>10 DEF AccessesOf
  <2>12. ReadsOf(m) = 0 BY <2>11, FS_EmptySet DEF ReadsOf
  <2>13. do_abort => m <= heard + 1
    <3>1. do_abort => h.k <= heard BY <1>1, <1>3 DEF Heard
    <3>2. heard \in Nat BY <1>3 DEF TransferType
    <3>. QED BY <1>4, <2>1, <3>1, <3>2
  <2>. DEFINE a == h.at + 1
  <2>14. a \in Nat /\ a = HeaderCell(m) + 1 BY <1>4, <2>1, <2>3
  <2>15. h' = [h EXCEPT !.at = a, !.k = m, !.cnt = c, !.pc = p] BY <2>4
  <2>. HIDE DEF c, p, a
  <2>16. h' \in Locals BY <1>4, <2>3, <2>5, <2>6, <2>14, <2>15 DEF Locals
  <2>17. h'.pc = p /\ h'.k = m /\ h'.cnt = c /\ h'.at = a /\ h'.ack = h.ack /\ h'.lost = h.lost
    BY <1>4, <2>15 DEF Locals
  <2>18. h'.at = HeaderCell(m)' + 1 BY <1>5, <2>14, <2>17
  <2>19. ~Failure' /\ h'.ack # "mismatch" BY <1>4, <2>17 DEF Failure
  <2>20. Pointer' BY <1>4, <1>5, <2>5, <2>6, <2>7, <2>17, <2>18, <2>19 DEF Pointer
  <2>21. LogSorted(m)'
    <3>1. \A i \in 1..Len(wire.log) : wire.log[i].k <= m BY <2>10
    <3>. QED BY <1>1, <2>9, <2>17, <3>1 DEF LogSorted
  <2>22. OthersAllowed(m)' BY <1>5, <1>7, <2>8, <2>17 DEF OthersAllowed
  <2>23. ReadsOf(m)' = 0 BY <1>7, <2>12
  <2>24. Log' BY <2>6, <2>17, <2>19, <2>21, <2>22, <2>23 DEF Log
  <2>25. Heard' BY <1>1, <2>6, <2>13, <2>17 DEF Heard
  <2>26. TransferType' BY <1>1, <1>3, <2>16 DEF TransferType
  <2>. QED BY <1>1, <1>2, <2>6, <2>17, <2>20, <2>24, <2>25, <2>26 DEF TransferInv
<1>. QED BY <1>8, <1>9
(* A request that goes on.                                                  *)
LEMMA RequestGoesOn ==
    ASSUME TransferInv, cmd.kind = "transfer", InRequest, NEW n, n = h.k,
           h' \in Locals, h'.k = n, h'.cnt = h.cnt, h'.lost = h.lost, h'.ack = "OK",
           \/ h'.pc = "act" /\ h'.at = HeaderCell(n) + 1 /\ ReadsOf(n)' = 0
           \/ /\ h'.pc = "match" /\ h'.at = HeaderCell(n + 1) /\ Req.match
              /\ ReadsOf(n)' + h'.tries + 1 = Allowed(n),
           UNCHANGED <<cmd, do_abort, heard>>,
           wire' \in Wires, LogSorted(n)', OthersAllowed(n)'
    PROVE TransferInv'
<1>2. /\ h.k <= Num /\ h.k >= 1 /\ ~h.lost /\ h.cnt = (IF Swd THEN h.k ELSE h.k - 1)
      /\ TransferType /\ Heard
  BY DEF TransferInv, Pointer, InRequest
<1>3. n \in Nat BY <1>2 DEF TransferType, Locals
<1>5. /\ Num' = Num /\ (Swd' <=> Swd)
      /\ \A k : HeaderCell(k)' = HeaderCell(k) /\ Allowed(k)' = Allowed(k)
  BY PacketStays
<1>6. TransferType' BY <1>2 DEF TransferType
<1>7. HeaderCell(n)' = HeaderCell(n) /\ HeaderCell(n + 1)' = HeaderCell(n + 1) /\ Allowed(n)' = Allowed(n)
  BY <1>5
<1>8. h'.pc = "match" => Req'.match
  <2>1. Req' = Req BY DEF Req
  <2>2. h'.pc = "match" => Req.match OBVIOUS
  <2>. QED BY <2>1, <2>2
<1>9. h'.cnt = (IF Swd' THEN h'.k ELSE h'.k - 1) BY <1>2, <1>5
<1>10. Pointer' BY <1>2, <1>5, <1>7, <1>8, <1>9 DEF Pointer, Failure
<1>11. Log' BY <1>2, <1>3, <1>7 DEF Log
<1>12. Heard'
  <2>1. do_abort => h.k <= heard + 1 BY <1>2 DEF Heard, InRequest
  <2>2. h'.pc # "loop" OBVIOUS
  <2>. QED BY <2>1, <2>2 DEF Heard
<1>13. h'.pc \notin {"block", "words"} /\ cmd'.kind = "transfer" OBVIOUS
<1>. QED BY <1>6, <1>10, <1>11, <1>12, <1>13 DEF TransferInv

(* What a request in progress relies on.                                    *)
LEMMA RequestIs ==
    ASSUME TransferInv, InRequest
    PROVE /\ cmd.kind = "transfer" /\ h \in Locals /\ h.k \in 1..Num
          /\ Req.rd \in BOOLEAN /\ Req.ap \in BOOLEAN /\ Req.match \in BOOLEAN /\ Req.ts \in BOOLEAN
          /\ Kind(Req) \in {"dp", "ap"} /\ cmd.retry \in Nat
          /\ Allowed(h.k) \in Nat /\ Allowed(h.k) >= 1
          /\ h.pc \in {"flush", "act"} => h.at = HeaderCell(h.k) + 1 /\ ReadsOf(h.k) = 0
          /\ h.pc = "match" => /\ h.at = HeaderCell(h.k + 1) /\ Req.match /\ h.ack = "OK"
                               /\ ReadsOf(h.k) + h.tries + 1 = Allowed(h.k)
          /\ ReadsOf(h.k) \in Nat
          /\ HeaderCell(h.k) \in Nat
          /\ HeaderCell(h.k + 1) = HeaderCell(h.k) + (IF HasWord(Req) THEN 2 ELSE 1)
<1>1. TransferType BY DEF TransferInv
<1>2. cmd.kind = "transfer" BY DEF TransferInv, InRequest, Block
<1>3. Pointer /\ Log BY <1>2 DEF TransferInv
<1>4. h \in Locals /\ h.k \in Nat /\ cmd \in Commands BY <1>1 DEF TransferType, Locals
<1>5. Num \in Nat /\ cmd.retry \in Nat
      /\ \A k \in 1..Num : /\ cmd.reqs[k].rd \in BOOLEAN /\ cmd.reqs[k].ap \in BOOLEAN
                           /\ cmd.reqs[k].match \in BOOLEAN /\ cmd.reqs[k].ts \in BOOLEAN
  BY <1>4, CommandTypes
<1>6. h.k \in 1..Num BY <1>3, <1>4, <1>5 DEF Pointer, InRequest
<1>7. Req.rd \in BOOLEAN /\ Req.ap \in BOOLEAN /\ Req.match \in BOOLEAN /\ Req.ts \in BOOLEAN
  BY <1>5, <1>6 DEF Req
<1>8. Allowed(h.k) \in Nat /\ Allowed(h.k) >= 1 BY <1>4, <1>6, AllowedIs
<1>9. ReadsOf(h.k) \in Nat BY <1>1, AccessesFinite
<1>10. h.k \in Nat \ {0} BY <1>4, <1>6
<1>11. HeaderCell(h.k + 1) = HeaderCell(h.k) + (IF HasWord(Req) THEN 2 ELSE 1) BY <1>10, NextHeader DEF Req
<1>12. HeaderCell(h.k) \in Nat BY <1>10, WordsBeforeFinite
<1>13. /\ h.pc \in {"flush", "act"} => h.at = HeaderCell(h.k) + 1 /\ ReadsOf(h.k) = 0
       /\ h.pc = "match" => /\ h.at = HeaderCell(h.k + 1) /\ Req.match /\ h.ack = "OK"
                            /\ ReadsOf(h.k) + h.tries + 1 = Allowed(h.k)
  BY <1>3 DEF Pointer, Log
<1>14. Kind(Req) \in {"dp", "ap"} BY DEF Kind
<1>. QED BY <1>2, <1>4, <1>5, <1>6, <1>7, <1>8, <1>9, <1>11, <1>12, <1>13, <1>14

LEMMA FlushChainedSteps ==
    ASSUME TransferInv, FlushChained PROVE TransferInv'
<1>1. h.pc = "flush" /\ Chained /\ UNCHANGED <<cmd, do_abort, heard>> BY DEF FlushChained
<1>2. InRequest BY <1>1 DEF InRequest
<1>3. PICK n : n = h.k OBVIOUS
<1>4. /\ cmd.kind = "transfer" /\ h \in Locals /\ n \in 1..Num
      /\ Req.rd /\ ~Req.match /\ Req.ts \in BOOLEAN
      /\ Kind(Req) \in {"dp", "ap"} /\ Allowed(n) \in Nat /\ Allowed(n) >= 1
      /\ h.at = HeaderCell(n) + 1 /\ ReadsOf(n) = 0
      /\ HeaderCell(n + 1) = HeaderCell(n) + 1
  BY <1>1, <1>2, <1>3, RequestIs DEF Chained, HasWord
<1>5. Kind(Req) \in Kinds /\ Kind(Req) # "rdbuff" BY <1>4 DEF Kinds
<1>6. CASE wire' = Did(h.k, Kind(Req), Req.ts)
           /\ h' = EndIteration([h EXCEPT !.ack = "OK", !.check = FALSE])
  <2>1. wire' \in Wires /\ LogSorted(n)' /\ OthersAllowed(n)' /\ ReadsOf(n)' = ReadsOf(n) + 1
    BY <1>1, <1>3, <1>4, <1>5, <1>6, AccessFits
  <2>2. ReadsOf(n)' <= Allowed(n) BY <1>4, <2>1
  <2>3. PICK l : l = [h EXCEPT !.ack = "OK", !.check = FALSE] OBVIOUS
  <2>4. l \in Locals /\ l.k = h.k /\ l.cnt = h.cnt /\ l.lost = h.lost /\ l.ack = "OK" /\ l.at = h.at
    BY <1>4, <2>3 DEF Locals
  <2>5. h' = EndIteration(l) /\ l.at = HeaderCell(n + 1) /\ l.k = n BY <1>3, <1>4, <1>6, <2>3, <2>4
  <2>. QED BY <1>1, <1>2, <1>3, <1>4, <2>1, <2>2, <2>4, <2>5, RequestEnds
<1>7. CASE h' = Failed(h) /\ UNCHANGED wire
  <2>1. wire' \in Wires /\ LogSorted(n)' /\ OthersAllowed(n)' /\ ReadsOf(n)' = ReadsOf(n)
    BY <1>1, <1>3, <1>4, <1>7, NoAccessFits
  <2>2. ReadsOf(n)' <= Allowed(n) BY <1>4, <2>1
  <2>3. h' \in Locals /\ h'.pc = "skip" /\ h'.ack = "error" /\ h'.k = n BY <1>3, <1>4, <1>7, FailedIs
  <2>. QED BY <1>1, <1>2, <1>3, <1>4, <2>1, <2>2, <2>3, RequestFails
<1>. QED BY <1>6, <1>7 DEF FlushChained

LEMMA FlushFromBufferSteps ==
    ASSUME TransferInv, FlushFromBuffer PROVE TransferInv'
<1>1. h.pc = "flush" /\ UNCHANGED <<cmd, do_abort, heard>> BY DEF FlushFromBuffer
<1>2. InRequest BY <1>1 DEF InRequest
<1>3. PICK n : n = h.k OBVIOUS
<1>4. /\ cmd.kind = "transfer" /\ h \in Locals /\ n \in 1..Num
      /\ Allowed(n) \in Nat /\ Allowed(n) >= 1
      /\ h.at = HeaderCell(n) + 1 /\ ReadsOf(n) = 0
  BY <1>1, <1>2, <1>3, RequestIs
<1>5. "rdbuff" \in Kinds /\ FALSE \in BOOLEAN BY DEF Kinds
<1>. DEFINE l == [h EXCEPT !.ir = "dp"]
<1>6. l \in Locals /\ l.k = h.k /\ l.cnt = h.cnt /\ l.lost = h.lost /\ l.at = h.at BY <1>4 DEF Locals
<1>7. CASE wire' = Did(h.k, "rdbuff", FALSE) /\ h' = [l EXCEPT !.ack = "OK", !.post = FALSE, !.pc = "act"]
  <2>1. wire' \in Wires /\ LogSorted(n)' /\ OthersAllowed(n)' /\ ReadsOf(n)' = ReadsOf(n) + 0
    BY <1>1, <1>3, <1>4, <1>5, <1>7, AccessFits
  <2>2. ReadsOf(n)' = 0 BY <1>4, <2>1
  <2>3. h' = [l EXCEPT !.ack = "OK", !.post = FALSE, !.pc = "act"] BY <1>7
  <2>. HIDE DEF l
  <2>4. h' \in Locals /\ h'.pc = "act" /\ h'.ack = "OK" /\ h'.k = l.k /\ h'.cnt = l.cnt
        /\ h'.lost = l.lost /\ h'.at = l.at
    BY <1>6, <2>3 DEF Locals
  <2>5. h'.at = HeaderCell(n) + 1 /\ h'.k = n /\ h'.cnt = h.cnt /\ h'.lost = h.lost
    BY <1>3, <1>4, <1>6, <2>4
  <2>. QED BY <1>1, <1>2, <1>3, <1>4, <2>1, <2>2, <2>4, <2>5, RequestGoesOn
<1>8. CASE h' = Failed(l) /\ UNCHANGED wire
  <2>1. wire' \in Wires /\ LogSorted(n)' /\ OthersAllowed(n)' /\ ReadsOf(n)' = ReadsOf(n)
    BY <1>1, <1>3, <1>4, <1>8, NoAccessFits
  <2>2. ReadsOf(n)' <= Allowed(n) BY <1>4, <2>1
  <2>3. h' = Failed(l) BY <1>8
  <2>. HIDE DEF l
  <2>4. h' \in Locals /\ h'.pc = "skip" /\ h'.ack = "error" /\ h'.k = n BY <1>3, <1>6, <2>3, FailedIs
  <2>. QED BY <1>1, <1>2, <1>3, <1>4, <2>1, <2>2, <2>4, RequestFails
<1>. QED BY <1>7, <1>8 DEF FlushFromBuffer

LEMMA ReadPlainSteps ==
    ASSUME TransferInv, ReadPlain PROVE TransferInv'
<1>1. h.pc = "act" /\ Req.rd /\ ~Req.match /\ UNCHANGED <<cmd, do_abort, heard>> BY DEF ReadPlain
<1>2. InRequest BY <1>1 DEF InRequest
<1>3. PICK n : n = h.k OBVIOUS
<1>4. /\ cmd.kind = "transfer" /\ h \in Locals /\ n \in 1..Num
      /\ Req.ts \in BOOLEAN /\ Req.ap \in BOOLEAN
      /\ Kind(Req) \in {"dp", "ap"} /\ Allowed(n) \in Nat /\ Allowed(n) >= 1
      /\ h.at = HeaderCell(n) + 1 /\ ReadsOf(n) = 0
      /\ HeaderCell(n + 1) = HeaderCell(n) + 1
  BY <1>1, <1>2, <1>3, RequestIs DEF HasWord
<1>5. Kind(Req) \in Kinds /\ Kind(Req) # "rdbuff" BY <1>4 DEF Kinds
<1>. DEFINE l == [h EXCEPT !.ir = Kind(Req)]
            posted == ~Swd \/ Req.ap
<1>6. l \in Locals /\ l.k = h.k /\ l.cnt = h.cnt /\ l.lost = h.lost /\ l.at = h.at
  <2>1. Kind(Req) \in {"none", "dp", "ap"} BY <1>4
  <2>. QED BY <1>4, <2>1 DEF Locals
<1>7. CASE wire' = Did(h.k, Kind(Req), Req.ts)
           /\ h' = EndIteration([l EXCEPT !.ack = "OK", !.post = posted, !.check = FALSE])
  <2>1. wire' \in Wires /\ LogSorted(n)' /\ OthersAllowed(n)' /\ ReadsOf(n)' = ReadsOf(n) + 1
    BY <1>1, <1>3, <1>4, <1>5, <1>7, AccessFits
  <2>2. ReadsOf(n)' <= Allowed(n) BY <1>4, <2>1
  <2>3. PICK m : m = [l EXCEPT !.ack = "OK", !.post = posted, !.check = FALSE] OBVIOUS
  <2>4. h' = EndIteration(m) BY <1>7, <2>3
  <2>5. posted \in BOOLEAN BY <1>4 DEF Swd
  <2>. HIDE DEF l, posted
  <2>6. m \in Locals /\ m.k = l.k /\ m.cnt = l.cnt /\ m.lost = l.lost /\ m.ack = "OK" /\ m.at = l.at
    BY <1>6, <2>3, <2>5 DEF Locals
  <2>7. m.at = HeaderCell(n + 1) /\ m.k = n /\ m.cnt = h.cnt /\ m.lost = h.lost BY <1>3, <1>4, <1>6, <2>6
  <2>. QED BY <1>1, <1>2, <1>3, <1>4, <2>1, <2>2, <2>4, <2>6, <2>7, RequestEnds
<1>8. CASE h' = Failed(l) /\ UNCHANGED wire
  <2>1. wire' \in Wires /\ LogSorted(n)' /\ OthersAllowed(n)' /\ ReadsOf(n)' = ReadsOf(n)
    BY <1>1, <1>3, <1>4, <1>8, NoAccessFits
  <2>2. ReadsOf(n)' <= Allowed(n) BY <1>4, <2>1
  <2>3. h' = Failed(l) BY <1>8
  <2>. HIDE DEF l
  <2>4. h' \in Locals /\ h'.pc = "skip" /\ h'.ack = "error" /\ h'.k = n BY <1>3, <1>6, <2>3, FailedIs
  <2>. QED BY <1>1, <1>2, <1>3, <1>4, <2>1, <2>2, <2>4, RequestFails
<1>. QED BY <1>7, <1>8 DEF ReadPlain

LEMMA ReadMatchSteps ==
    ASSUME TransferInv, ReadMatch PROVE TransferInv'
<1>1. h.pc = "act" /\ Req.rd /\ Req.match /\ UNCHANGED <<cmd, do_abort, heard>> BY DEF ReadMatch
<1>2. InRequest BY <1>1 DEF InRequest
<1>3. PICK n : n = h.k OBVIOUS
<1>4. /\ cmd.kind = "transfer" /\ h \in Locals /\ n \in 1..Num
      /\ Req.ts \in BOOLEAN /\ cmd.retry \in Nat
      /\ Kind(Req) \in {"dp", "ap"} /\ Allowed(n) \in Nat /\ Allowed(n) >= 1
      /\ h.at = HeaderCell(n) + 1 /\ ReadsOf(n) = 0 /\ HeaderCell(n) \in Nat
      /\ HeaderCell(n + 1) = HeaderCell(n) + 2
  BY <1>1, <1>2, <1>3, RequestIs DEF HasWord
<1>5. Kind(Req) \in Kinds /\ Kind(Req) # "rdbuff" BY <1>4 DEF Kinds
<1>6. Allowed(n) = cmd.retry + (IF Swd /\ ~Req.ap THEN 1 ELSE 2) BY <1>1, <1>3 DEF Allowed, Req
<1>7. h.at + 1 = HeaderCell(n + 1) /\ h.at + 1 \in Nat BY <1>4
<1>. DEFINE l == [h EXCEPT !.at = @ + 1, !.ir = Kind(Req), !.tries = cmd.retry]
<1>8. l \in Locals /\ l.k = h.k /\ l.cnt = h.cnt /\ l.lost = h.lost /\ l.at = h.at + 1 /\ l.tries = cmd.retry
  <2>1. Kind(Req) \in {"none", "dp", "ap"} BY <1>4
  <2>. QED BY <1>4, <1>7, <2>1 DEF Locals
<1>9. CASE wire' = (IF Swd /\ ~Req.ap THEN wire ELSE Did(h.k, Kind(Req), Req.ts))
           /\ h' = [l EXCEPT !.pc = "match", !.ack = "OK"]
  <2>1. /\ wire' \in Wires /\ LogSorted(n)' /\ OthersAllowed(n)'
        /\ ReadsOf(n)' = IF Swd /\ ~Req.ap THEN 0 ELSE 1
    <3>1. CASE Swd /\ ~Req.ap
      <4>1. wire' = wire BY <1>9, <3>1
      <4>2. wire' \in Wires /\ LogSorted(n)' /\ OthersAllowed(n)' /\ ReadsOf(n)' = ReadsOf(n)
        BY <1>1, <1>3, <1>4, <4>1, NoAccessFits
      <4>. QED BY <1>4, <3>1, <4>2
    <3>2. CASE ~(Swd /\ ~Req.ap)
      <4>1. wire' = Did(n, Kind(Req), Req.ts) BY <1>3, <1>9, <3>2
      <4>2. wire' \in Wires /\ LogSorted(n)' /\ OthersAllowed(n)' /\ ReadsOf(n)' = ReadsOf(n) + 1
        BY <1>1, <1>3, <1>4, <1>5, <4>1, AccessFits
      <4>. QED BY <1>4, <3>2, <4>2
    <3>. QED BY <3>1, <3>2
  <2>2. h' = [l EXCEPT !.pc = "match", !.ack = "OK"] BY <1>9
  <2>. HIDE DEF l
  <2>3. h' \in Locals /\ h'.pc = "match" /\ h'.ack = "OK" /\ h'.k = l.k /\ h'.cnt = l.cnt
        /\ h'.lost = l.lost /\ h'.at = l.at /\ h'.tries = l.tries
    BY <1>8, <2>2 DEF Locals
  <2>4. h'.at = HeaderCell(n + 1) /\ h'.k = n /\ h'.cnt = h.cnt /\ h'.lost = h.lost /\ h'.tries = cmd.retry
    BY <1>3, <1>7, <1>8, <2>3
  <2>5. ReadsOf(n)' + h'.tries + 1 = Allowed(n) BY <1>4, <1>6, <2>1, <2>4
  <2>. QED BY <1>1, <1>2, <1>3, <1>4, <2>1, <2>3, <2>4, <2>5, RequestGoesOn
<1>10. CASE h' = Failed(l) /\ UNCHANGED wire
  <2>1. wire' \in Wires /\ LogSorted(n)' /\ OthersAllowed(n)' /\ ReadsOf(n)' = ReadsOf(n)
    BY <1>1, <1>3, <1>4, <1>10, NoAccessFits
  <2>2. ReadsOf(n)' <= Allowed(n) BY <1>4, <2>1
  <2>3. h' = Failed(l) BY <1>10
  <2>. HIDE DEF l
  <2>4. h' \in Locals /\ h'.pc = "skip" /\ h'.ack = "error" /\ h'.k = n BY <1>3, <1>8, <2>3, FailedIs
  <2>. QED BY <1>1, <1>2, <1>3, <1>4, <2>1, <2>2, <2>4, RequestFails
<1>. QED BY <1>9, <1>10 DEF ReadMatch

LEMMA PollSteps ==
    ASSUME TransferInv, Poll PROVE TransferInv'
<1>1. h.pc = "match" /\ UNCHANGED <<cmd, do_abort, heard>> BY DEF Poll
<1>2. InRequest BY <1>1 DEF InRequest
<1>3. PICK n : n = h.k OBVIOUS
<1>4. /\ cmd.kind = "transfer" /\ h \in Locals /\ n \in 1..Num
      /\ Req.ts \in BOOLEAN /\ Req.match /\ h.ack = "OK"
      /\ Kind(Req) \in {"dp", "ap"} /\ Allowed(n) \in Nat
      /\ h.at = HeaderCell(n + 1) /\ ReadsOf(n) \in Nat
      /\ ReadsOf(n) + h.tries + 1 = Allowed(n)
  BY <1>1, <1>2, <1>3, RequestIs
<1>5. Kind(Req) \in Kinds /\ Kind(Req) # "rdbuff" BY <1>4 DEF Kinds
<1>6. h.tries \in Nat BY <1>4 DEF Locals
<1>7. CASE wire' = Did(h.k, Kind(Req), Req.ts)
           /\ \/ h' = EndIteration([h EXCEPT !.check = FALSE])
              \/ MayPollAgain /\ h' = [h EXCEPT !.tries = @ - 1]
              \/ ~MayPollAgain /\ h' = Break([h EXCEPT !.ack = "mismatch"])
  <2>1. wire' \in Wires /\ LogSorted(n)' /\ OthersAllowed(n)' /\ ReadsOf(n)' = ReadsOf(n) + 1
    BY <1>1, <1>3, <1>4, <1>5, <1>7, AccessFits
  <2>2. ReadsOf(n)' <= Allowed(n) BY <1>4, <1>6, <2>1
  <2>3. CASE h' = EndIteration([h EXCEPT !.check = FALSE])
    <3>1. PICK l : l = [h EXCEPT !.check = FALSE] OBVIOUS
    <3>2. l \in Locals /\ l.k = h.k /\ l.cnt = h.cnt /\ l.lost = h.lost /\ l.ack = h.ack /\ l.at = h.at
      BY <1>4, <3>1 DEF Locals
    <3>3. h' = EndIteration(l) /\ l.at = HeaderCell(n + 1) /\ l.k = n /\ l.ack = "OK"
      BY <1>3, <1>4, <2>3, <3>1, <3>2
    <3>. QED BY <1>1, <1>2, <1>3, <1>4, <2>1, <2>2, <3>2, <3>3, RequestEnds
  <2>4. CASE MayPollAgain /\ h' = [h EXCEPT !.tries = @ - 1]
    <3>1. h.tries - 1 \in Nat BY <1>6, <2>4 DEF MayPollAgain
    <3>2. h' \in Locals /\ h'.pc = h.pc /\ h'.k = h.k /\ h'.cnt = h.cnt /\ h'.lost = h.lost
          /\ h'.ack = h.ack /\ h'.at = h.at /\ h'.tries = h.tries - 1
      BY <1>4, <2>4, <3>1 DEF Locals
    <3>3. ReadsOf(n)' + h'.tries + 1 = Allowed(n) BY <1>4, <1>6, <2>1, <3>2
    <3>4. h'.pc = "match" /\ h'.ack = "OK" /\ h'.k = n /\ h'.at = HeaderCell(n + 1) BY <1>1, <1>3, <1>4, <3>2
    <3>. QED BY <1>1, <1>2, <1>3, <1>4, <2>1, <3>2, <3>3, <3>4, RequestGoesOn
  <2>5. CASE ~MayPollAgain /\ h' = Break([h EXCEPT !.ack = "mismatch"])
    <3>1. h' \in Locals /\ h'.pc = "skip" /\ h'.ack = "mismatch" /\ h'.k = h.k
      BY <1>4, <2>5 DEF Break, Locals
    <3>2. do_abort \/ ReadsOf(n)' = Allowed(n)
      <4>1. do_abort \/ h.tries = 0 BY <1>6, <2>5 DEF MayPollAgain
      <4>2. h.tries = 0 => ReadsOf(n)' = Allowed(n) BY <1>4, <2>1
      <4>. QED BY <4>1, <4>2
    <3>. QED BY <1>1, <1>2, <1>3, <1>4, <2>1, <2>2, <3>1, <3>2, RequestFails
  <2>. QED BY <1>7, <2>3, <2>4, <2>5
<1>8. CASE h' = Failed(h) /\ UNCHANGED wire
  <2>1. wire' \in Wires /\ LogSorted(n)' /\ OthersAllowed(n)' /\ ReadsOf(n)' = ReadsOf(n)
    BY <1>1, <1>3, <1>4, <1>8, NoAccessFits
  <2>2. ReadsOf(n)' <= Allowed(n) BY <1>4, <1>6, <2>1
  <2>3. h' \in Locals /\ h'.pc = "skip" /\ h'.ack = "error" /\ h'.k = n BY <1>3, <1>4, <1>8, FailedIs
  <2>. QED BY <1>1, <1>2, <1>3, <1>4, <2>1, <2>2, <2>3, RequestFails
<1>. QED BY <1>7, <1>8 DEF Poll

LEMMA SetMaskSteps ==
    ASSUME TransferInv, SetMask PROVE TransferInv'
<1>1. h.pc = "act" /\ ~Req.rd /\ Req.match /\ UNCHANGED <<cmd, wire, do_abort, heard>>
      /\ h' = EndIteration([h EXCEPT !.at = @ + 1, !.ack = "OK"])
  BY DEF SetMask
<1>2. InRequest BY <1>1 DEF InRequest
<1>3. PICK n : n = h.k OBVIOUS
<1>4. /\ cmd.kind = "transfer" /\ h \in Locals /\ n \in 1..Num
      /\ Allowed(n) \in Nat /\ Allowed(n) >= 1
      /\ h.at = HeaderCell(n) + 1 /\ ReadsOf(n) = 0 /\ HeaderCell(n) \in Nat
      /\ HeaderCell(n + 1) = HeaderCell(n) + 2
  BY <1>1, <1>2, <1>3, RequestIs DEF HasWord
<1>5. wire' \in Wires /\ LogSorted(n)' /\ OthersAllowed(n)' /\ ReadsOf(n)' = ReadsOf(n)
  BY <1>1, <1>3, <1>4, NoAccessFits
<1>6. ReadsOf(n)' <= Allowed(n) BY <1>4, <1>5
<1>7. h.at + 1 = HeaderCell(n + 1) /\ h.at + 1 \in Nat BY <1>4
<1>8. PICK l : l = [h EXCEPT !.at = @ + 1, !.ack = "OK"] OBVIOUS
<1>9. l \in Locals /\ l.k = h.k /\ l.cnt = h.cnt /\ l.lost = h.lost /\ l.ack = "OK" /\ l.at = h.at + 1
  BY <1>4, <1>7, <1>8 DEF Locals
<1>10. h' = EndIteration(l) /\ l.at = HeaderCell(n + 1) /\ l.k = n BY <1>1, <1>3, <1>7, <1>8, <1>9
<1>. QED BY <1>1, <1>2, <1>3, <1>4, <1>5, <1>6, <1>9, <1>10, RequestEnds

LEMMA WritePlainSteps ==
    ASSUME TransferInv, WritePlain PROVE TransferInv'
<1>1. h.pc = "act" /\ ~Req.rd /\ ~Req.match /\ UNCHANGED <<cmd, do_abort, heard>> BY DEF WritePlain
<1>2. InRequest BY <1>1 DEF InRequest
<1>3. PICK n : n = h.k OBVIOUS
<1>4. /\ cmd.kind = "transfer" /\ h \in Locals /\ n \in 1..Num
      /\ Req.ts \in BOOLEAN /\ Kind(Req) \in {"dp", "ap"}
      /\ Allowed(n) \in Nat /\ Allowed(n) >= 1
      /\ h.at = HeaderCell(n) + 1 /\ ReadsOf(n) = 0 /\ HeaderCell(n) \in Nat
      /\ HeaderCell(n + 1) = HeaderCell(n) + 2
  BY <1>1, <1>2, <1>3, RequestIs DEF HasWord
<1>5. "write" \in Kinds BY DEF Kinds
<1>6. h.at + 1 = HeaderCell(n + 1) /\ h.at + 1 \in Nat BY <1>4
<1>. DEFINE l == [h EXCEPT !.at = @ + 1, !.ir = Kind(Req)]
<1>7. l \in Locals /\ l.k = h.k /\ l.cnt = h.cnt /\ l.lost = h.lost /\ l.at = h.at + 1
  <2>1. Kind(Req) \in {"none", "dp", "ap"} BY <1>4
  <2>. QED BY <1>4, <1>6, <2>1 DEF Locals
<1>8. CASE wire' = Did(h.k, "write", Req.ts) /\ h' = EndIteration([l EXCEPT !.ack = "OK", !.check = TRUE])
  <2>1. wire' \in Wires /\ LogSorted(n)' /\ OthersAllowed(n)' /\ ReadsOf(n)' = ReadsOf(n) + 1
    BY <1>1, <1>3, <1>4, <1>5, <1>8, AccessFits
  <2>2. ReadsOf(n)' <= Allowed(n) BY <1>4, <2>1
  <2>3. PICK m : m = [l EXCEPT !.ack = "OK", !.check = TRUE] OBVIOUS
  <2>4. h' = EndIteration(m) BY <1>8, <2>3
  <2>. HIDE DEF l
  <2>5. m \in Locals /\ m.k = l.k /\ m.cnt = l.cnt /\ m.lost = l.lost /\ m.ack = "OK" /\ m.at = l.at
    BY <1>7, <2>3 DEF Locals
  <2>6. m.at = HeaderCell(n + 1) /\ m.k = n /\ m.cnt = h.cnt /\ m.lost = h.lost BY <1>3, <1>6, <1>7, <2>5
  <2>. QED BY <1>1, <1>2, <1>3, <1>4, <2>1, <2>2, <2>4, <2>5, <2>6, RequestEnds
<1>9. CASE h' = Failed(l) /\ UNCHANGED wire
  <2>1. wire' \in Wires /\ LogSorted(n)' /\ OthersAllowed(n)' /\ ReadsOf(n)' = ReadsOf(n)
    BY <1>1, <1>3, <1>4, <1>9, NoAccessFits
  <2>2. ReadsOf(n)' <= Allowed(n) BY <1>4, <2>1
  <2>3. h' = Failed(l) BY <1>9
  <2>. HIDE DEF l
  <2>4. h' \in Locals /\ h'.pc = "skip" /\ h'.ack = "error" /\ h'.k = n BY <1>3, <1>7, <2>3, FailedIs
  <2>. QED BY <1>1, <1>2, <1>3, <1>4, <2>1, <2>2, <2>4, RequestFails
<1>. QED BY <1>8, <1>9 DEF WritePlain

(* After the last request, and past those that are not executed.             *)
LEMMA PastRequests ==
    ASSUME TransferInv, cmd.kind = "transfer", h.pc \in {"skip", "finish"}, NEW n, n = h.k,
           h' \in Locals, h'.k = n, UNCHANGED <<cmd, do_abort, heard>>,
           h'.pc \in {"skip", "finish", "done"},
           h'.lost => Failure', h'.ack = "mismatch" => h.ack = "mismatch",
           h'.pc = "skip" => Failure' \/ (h'.at = HeaderCell(h'.cnt + 1) /\ h'.k <= h'.cnt /\ h'.cnt <= Num),
           h'.pc \in {"finish", "done"} => Failure' \/ h'.at = HeaderCell(Num + 1),
           wire' \in Wires, LogSorted(n)', OthersAllowed(n)', ReadsOf(n)' = ReadsOf(n)
    PROVE TransferInv'
<1>2. TransferType /\ Heard /\ Pointer /\ Log BY DEF TransferInv
<1>5. /\ Num' = Num /\ \A k : HeaderCell(k)' = HeaderCell(k) /\ Allowed(k)' = Allowed(k)
  BY PacketStays
<1>6. TransferType' BY <1>2 DEF TransferType
<1>7. h'.k <= Num' BY <1>2, <1>5 DEF Pointer
<1>8. h'.pc = "skip" => Failure' \/ ((h.at = HeaderCell(h.cnt + 1))' /\ h'.k <= h'.cnt /\ h'.cnt <= Num') BY <1>5
<1>9. h'.pc \in {"finish", "done"} => Failure' \/ (h.at = HeaderCell(Num + 1))' BY <1>5
<1>10. Pointer' BY <1>7, <1>8, <1>9 DEF Pointer
<1>11. n # 0 => ReadsOf(n)' <= Allowed(n)'
  <2>1. h.k # 0 => ReadsOf(h.k) <= Allowed(h.k) BY <1>2 DEF Log
  <2>. QED BY <1>5, <2>1
<1>12. h'.ack = "mismatch" => h'.k # 0 /\ (~do_abort' => ReadsOf(n)' = Allowed(n)')
  <2>1. h.ack = "mismatch" => h.k # 0 /\ (~do_abort => ReadsOf(h.k) = Allowed(h.k)) BY <1>2 DEF Log
  <2>. QED BY <1>5, <2>1
<1>13. Log' BY <1>11, <1>12 DEF Log
<1>14. Heard'
  <2>1. do_abort => h.k <= heard + 1 BY <1>2 DEF Heard
  <2>2. h'.pc # "loop" OBVIOUS
  <2>. QED BY <2>1, <2>2 DEF Heard
<1>15. h'.pc \notin {"block", "words"} /\ cmd'.kind = "transfer" OBVIOUS
<1>. QED BY <1>6, <1>10, <1>13, <1>14, <1>15 DEF TransferInv

LEMMA SkipSteps ==
    ASSUME TransferInv, Skip PROVE TransferInv'
<1>1. h.pc = "skip" /\ UNCHANGED <<cmd, resp, wire, do_abort, heard>> BY DEF Skip
<1>2. cmd.kind = "transfer" BY <1>1 DEF TransferInv, Block
<1>3. TransferType /\ Pointer BY <1>2 DEF TransferInv
<1>4. /\ h \in Locals /\ h.k \in Nat /\ h.k <= Num /\ h.cnt \in Nat /\ h.at \in Nat
      /\ Failure \/ (h.at = HeaderCell(h.cnt + 1) /\ h.k <= h.cnt /\ h.cnt <= Num)
      /\ h.lost => Failure
  BY <1>1, <1>3 DEF TransferType, Pointer, Locals
<1>5. Num \in Nat BY <1>3, CommandTypes DEF TransferType
<1>6. PICK n : n = h.k OBVIOUS
<1>7. wire' \in Wires /\ LogSorted(n)' /\ OthersAllowed(n)' /\ ReadsOf(n)' = ReadsOf(n)
  BY <1>1, <1>2, <1>6, NoAccessFits
<1>8. CASE h.cnt = Num
  <2>1. h' = [h EXCEPT !.pc = "finish"] BY <1>8 DEF Skip
  <2>2. h' \in Locals /\ h'.pc = "finish" /\ h'.k = h.k /\ h'.at = h.at /\ h'.ack = h.ack /\ h'.lost = h.lost
    BY <1>4, <2>1 DEF Locals
  <2>3. Failure' <=> Failure BY <2>2 DEF Failure
  <2>4. Failure' \/ h'.at = HeaderCell(Num + 1) BY <1>4, <1>8, <2>2, <2>3
  <2>. QED BY <1>1, <1>2, <1>4, <1>6, <1>7, <2>2, <2>3, <2>4, PastRequests
<1>9. CASE h.cnt # Num /\ RequestAt(h.at) = 0
  <2>1. h' = [h EXCEPT !.lost = TRUE, !.pc = "done"] BY <1>9 DEF Skip
  <2>2. h' \in Locals /\ h'.pc = "done" /\ h'.k = h.k /\ h'.ack = h.ack BY <1>4, <2>1 DEF Locals
  <2>3. Failure' <=> Failure BY <2>2 DEF Failure
  <2>4. Failure
    <3>1. SUFFICES ASSUME ~Failure, h.cnt + 1 \in 1..Num, h.at = HeaderCell(h.cnt + 1) PROVE FALSE
      <4>1. ~Failure => h.at = HeaderCell(h.cnt + 1) /\ h.k <= h.cnt BY <1>4
      <4>2. ~Failure => h.cnt <= Num BY <1>4
      <4>. QED BY <1>4, <1>5, <1>9, <4>1, <4>2
    <3>2. RequestAt(h.at) = h.cnt + 1 BY <1>5, <3>1, HeaderFound
    <3>. QED BY <1>4, <1>9, <3>2
  <2>. QED BY <1>1, <1>2, <1>4, <1>6, <1>7, <2>2, <2>3, <2>4, PastRequests
<1>10. CASE h.cnt # Num /\ RequestAt(h.at) # 0
  <2>1. h' = [h EXCEPT !.at = @ + SkipCells(cmd.reqs[RequestAt(h.at)]), !.cnt = @ + 1] BY <1>10 DEF Skip
  <2>2. PICK s : s = SkipCells(cmd.reqs[RequestAt(h.at)]) OBVIOUS
  <2>3. s \in Nat BY <2>2 DEF SkipCells
  <2>4. h' = [h EXCEPT !.at = h.at + s, !.cnt = h.cnt + 1] BY <1>4, <2>1, <2>2 DEF Locals
  <2>5. h.at + s \in Nat /\ h.cnt + 1 \in Nat BY <1>4, <2>3
  <2>6. h' \in Locals /\ h'.pc = "skip" /\ h'.k = h.k /\ h'.ack = h.ack /\ h'.lost = h.lost
        /\ h'.at = h.at + s /\ h'.cnt = h.cnt + 1
    BY <1>1, <1>4, <2>4, <2>5 DEF Locals
  <2>7. Failure' <=> Failure BY <2>6 DEF Failure
  <2>8. ASSUME ~Failure PROVE h'.at = HeaderCell(h'.cnt + 1) /\ h'.k <= h'.cnt /\ h'.cnt <= Num
    <3>1. h.at = HeaderCell(h.cnt + 1) /\ h.k <= h.cnt BY <1>4, <2>8
    <3>2. h.cnt <= Num BY <1>4, <2>8
    <3>3. PICK m \in 1..Num : m = h.cnt + 1 BY <1>4, <1>5, <1>10, <3>2
    <3>4. RequestAt(h.at) = m BY <1>5, <3>1, <3>3, HeaderFound
    <3>5. s = (IF HasWord(cmd.reqs[m]) THEN 2 ELSE 1) BY <2>2, <3>4 DEF SkipCells
    <3>6. m \in Nat \ {0} BY <1>5
    <3>7. HeaderCell(m + 1) = HeaderCell(m) + s BY <3>5, <3>6, NextHeader
    <3>8. h'.at = HeaderCell(m + 1) /\ h'.cnt = m BY <2>6, <3>1, <3>3, <3>7
    <3>. QED BY <1>4, <2>6, <3>1, <3>3, <3>8
  <2>9. h'.lost => Failure' BY <1>4, <2>6, <2>7
  <2>. QED BY <1>1, <1>2, <1>6, <1>7, <2>6, <2>7, <2>8, <2>9, PastRequests
<1>. QED BY <1>8, <1>9, <1>10

LEMMA FinishSteps ==
    ASSUME TransferInv, Finish PROVE TransferInv'
<1>1. h.pc = "finish" /\ UNCHANGED <<cmd, do_abort, heard>> BY DEF Finish
<1>2. cmd.kind = "transfer" BY <1>1 DEF TransferInv, Block
<1>3. TransferType /\ Pointer BY <1>2 DEF TransferInv
<1>4. h \in Locals /\ (Failure \/ h.at = HeaderCell(Num + 1)) /\ (h.lost => Failure)
  BY <1>1, <1>3 DEF TransferType, Pointer
<1>6. PICK n : n = h.k OBVIOUS
<1>. DEFINE l == [h EXCEPT !.pc = "done", !.ir = "dp"]
<1>7. l \in Locals /\ l.pc = "done" /\ l.k = h.k /\ l.at = h.at /\ l.ack = h.ack /\ l.lost = h.lost
  BY <1>4 DEF Locals
<1>8. /\ h' \in Locals /\ h'.pc = "done" /\ h'.k = h.k /\ h'.at = h.at /\ h'.lost = h.lost
      /\ h'.ack = h.ack \/ h'.ack = "error"
      /\ \/ wire' = Did(h.k, "rdbuff", FALSE)
         \/ UNCHANGED wire
  <2>1. CASE wire' = Did(h.k, "rdbuff", FALSE) /\ h' = l BY <1>7, <2>1
  <2>2. CASE h' = [l EXCEPT !.ack = "error"] /\ UNCHANGED wire
    <3>1. h' = [l EXCEPT !.ack = "error"] BY <2>2
    <3>. HIDE DEF l
    <3>. QED BY <1>7, <2>2, <3>1 DEF Locals
  <2>3. CASE h' = [h EXCEPT !.pc = "done"] /\ UNCHANGED wire BY <1>4, <2>3 DEF Locals
  <2>. QED BY <2>1, <2>2, <2>3 DEF Finish
<1>9. wire' \in Wires /\ LogSorted(n)' /\ OthersAllowed(n)' /\ ReadsOf(n)' = ReadsOf(n)
  <2>1. CASE wire' = Did(h.k, "rdbuff", FALSE)
    <3>1. "rdbuff" \in Kinds /\ FALSE \in BOOLEAN BY DEF Kinds
    <3>2. /\ wire' \in Wires /\ LogSorted(n)' /\ OthersAllowed(n)' /\ ReadsOf(n) \in Nat
          /\ ReadsOf(n)' = ReadsOf(n) + 0
      BY <1>1, <1>2, <1>6, <2>1, <3>1, AccessFits
    <3>. QED BY <3>2
  <2>2. CASE UNCHANGED wire BY <1>1, <1>2, <1>6, <2>2, NoAccessFits
  <2>. QED BY <1>8, <2>1, <2>2
<1>10. Failure => Failure' BY <1>8 DEF Failure
<1>11. h'.ack = "mismatch" => h.ack = "mismatch" BY <1>8
<1>12. h'.lost => Failure' BY <1>4, <1>8, <1>10
<1>13. Failure' \/ h'.at = HeaderCell(Num + 1) BY <1>4, <1>8, <1>10
<1>. QED BY <1>1, <1>2, <1>6, <1>8, <1>9, <1>11, <1>12, <1>13, PastRequests

(* DAP_TransferBlock.                                                       *)
LEMMA BlockStays ==
    ASSUME TransferInv, cmd.kind = "block", UNCHANGED <<cmd, do_abort, heard>>,
           h' \in Locals, wire' \in Wires, ~h'.lost, h'.cnt <= Num,
           \/ h'.pc = "words" /\ h'.at = 2 + (IF cmd.reqs[1].rd THEN 0 ELSE h'.cnt)
           \/ h'.pc = "done" /\ (h'.ack = "error" \/ h'.at = EndCell)
    PROVE TransferInv'
<1>1. TransferType BY DEF TransferInv
<1>2. TransferType' BY <1>1 DEF TransferType
<1>3. Num' = Num /\ EndCell' = EndCell BY PacketStays
<1>4. Block' BY <1>3 DEF Block
<1>5. cmd'.kind = "block" OBVIOUS
<1>. QED BY <1>2, <1>4, <1>5 DEF TransferInv

LEMMA BlockIs ==
    ASSUME TransferInv, h.pc \in {"block", "words"}
    PROVE /\ cmd.kind = "block" /\ h \in Locals /\ wire \in Wires /\ ~h.lost /\ Num \in Nat /\ Num >= 1
          /\ h.cnt \in Nat /\ h.cnt <= Num /\ h.at \in Nat
          /\ Kind(cmd.reqs[1]) \in Kinds /\ FALSE \in BOOLEAN /\ "write" \in Kinds /\ "rdbuff" \in Kinds
          /\ cmd.reqs[1].rd \in BOOLEAN
          /\ EndCell = 2 + (IF cmd.reqs[1].rd THEN 0 ELSE Num)
          /\ h.pc = "block" => h.at = 2 /\ h.cnt = 0
          /\ h.pc = "words" => h.at = 2 + (IF cmd.reqs[1].rd THEN 0 ELSE h.cnt)
<1>1. TransferType BY DEF TransferInv
<1>2. cmd.kind # "transfer" BY DEF TransferInv
<1>3. Num \in Nat /\ Num >= 1 /\ cmd.kind \in {"transfer", "block"}
      /\ \A k \in 1..Num : cmd.reqs[k].rd \in BOOLEAN /\ cmd.reqs[k].ap \in BOOLEAN
  BY <1>1, CommandTypes DEF TransferType
<1>4. cmd.kind = "block" BY <1>2, <1>3
<1>5. Block BY <1>2 DEF TransferInv
<1>6. h \in Locals /\ wire \in Wires BY <1>1 DEF TransferType
<1>7. h.cnt \in Nat /\ h.at \in Nat BY <1>6 DEF Locals
<1>8. 1 \in 1..Num BY <1>3
<1>9. cmd.reqs[1].rd \in BOOLEAN BY <1>3, <1>8
<1>10. Kind(cmd.reqs[1]) \in Kinds BY DEF Kind, Kinds
<1>11. "write" \in Kinds /\ "rdbuff" \in Kinds BY DEF Kinds
<1>12. EndCell = 2 + (IF cmd.reqs[1].rd THEN 0 ELSE Num) BY <1>2 DEF EndCell
<1>13. /\ ~h.lost /\ h.cnt <= Num
       /\ h.pc = "block" => h.at = 2 /\ h.cnt = 0
       /\ h.pc = "words" => h.at = 2 + (IF cmd.reqs[1].rd THEN 0 ELSE h.cnt)
  BY <1>5 DEF Block
<1>. QED BY <1>3, <1>4, <1>6, <1>7, <1>9, <1>10, <1>11, <1>12, <1>13

LEMMA WireAfter ==
    ASSUME TransferInv, NEW k \in Nat, NEW kind \in Kinds, NEW ts \in BOOLEAN, wire' = Did(k, kind, ts)
    PROVE wire' \in Wires
<1>1. TransferType BY DEF TransferInv
<1>. QED BY <1>1, AccessLogged

LEMMA BlockStartSteps ==
    ASSUME TransferInv, BlockStart PROVE TransferInv'
<1>1. h.pc = "block" /\ UNCHANGED <<cmd, resp, do_abort, heard>> BY DEF BlockStart
<1>2. /\ cmd.kind = "block" /\ h \in Locals /\ wire \in Wires /\ ~h.lost /\ Num \in Nat
      /\ Kind(cmd.reqs[1]) \in Kinds /\ FALSE \in BOOLEAN
      /\ h.at = 2 /\ h.cnt = 0 /\ h.cnt <= Num
  BY <1>1, BlockIs
<1>3. wire' \in Wires
  <2>1. CASE wire' = Did(1, Kind(cmd.reqs[1]), FALSE)
    <3>1. 1 \in Nat OBVIOUS
    <3>. QED BY <1>2, <2>1, <3>1, WireAfter
  <2>2. CASE UNCHANGED wire BY <1>2, <2>2
  <2>. QED BY <2>1, <2>2 DEF BlockStart
<1>4. CASE h' = [h EXCEPT !.pc = "words"]
  <2>1. h' \in Locals /\ h'.pc = "words" /\ h'.at = h.at /\ h'.cnt = h.cnt /\ h'.lost = h.lost
    BY <1>2, <1>4 DEF Locals
  <2>2. h'.at = 2 + (IF cmd.reqs[1].rd THEN 0 ELSE h'.cnt) BY <1>2, <2>1
  <2>. QED BY <1>1, <1>2, <1>3, <2>1, <2>2, BlockStays
<1>5. CASE h' = [h EXCEPT !.pc = "done", !.ack = "error"]
  <2>1. h' \in Locals /\ h'.pc = "done" /\ h'.ack = "error" /\ h'.cnt = h.cnt /\ h'.lost = h.lost
    BY <1>2, <1>5 DEF Locals
  <2>. QED BY <1>1, <1>2, <1>3, <2>1, BlockStays
<1>. QED BY <1>4, <1>5 DEF BlockStart

LEMMA BlockReadSteps ==
    ASSUME TransferInv, BlockRead PROVE TransferInv'
<1>1. h.pc = "words" /\ cmd.reqs[1].rd /\ h.cnt < Num /\ UNCHANGED <<cmd, do_abort, heard>> BY DEF BlockRead
<1>2. /\ cmd.kind = "block" /\ h \in Locals /\ wire \in Wires /\ ~h.lost /\ Num \in Nat
      /\ Kind(cmd.reqs[1]) \in Kinds /\ FALSE \in BOOLEAN /\ "rdbuff" \in Kinds
      /\ h.at = 2 /\ h.cnt \in Nat /\ h.cnt <= Num /\ EndCell = 2
  BY <1>1, BlockIs
<1>. DEFINE kind == IF LastWord /\ BlockPosted THEN "rdbuff" ELSE Kind(cmd.reqs[1])
            n == IF BlockPosted THEN h.cnt + 2 ELSE h.cnt + 1
            i == IF LastWord THEN "dp" ELSE h.ir
            p == IF LastWord THEN "done" ELSE "words"
<1>3. CASE wire' = Did(n, kind, FALSE)
           /\ h' = [h EXCEPT !.cnt = @ + 1, !.ack = "OK", !.ir = IF LastWord THEN "dp" ELSE @,
                             !.pc = IF LastWord THEN "done" ELSE "words"]
  <2>1. n \in Nat /\ kind \in Kinds BY <1>2
  <2>2. wire' \in Wires BY <1>2, <1>3, <2>1, WireAfter
  <2>3. h' = [h EXCEPT !.cnt = h.cnt + 1, !.ack = "OK", !.ir = i, !.pc = p] BY <1>2, <1>3 DEF Locals
  <2>4. i \in {"none", "dp", "ap"} BY <1>2 DEF Locals
  <2>5. p \in {"words", "done"} OBVIOUS
  <2>6. h.cnt + 1 \in Nat /\ h.cnt + 1 <= Num BY <1>1, <1>2
  <2>. HIDE DEF i, p, n, kind
  <2>7. h' \in Locals /\ h'.pc = p /\ h'.at = h.at /\ h'.cnt = h.cnt + 1 /\ h'.lost = h.lost
    BY <1>2, <2>3, <2>4, <2>5, <2>6 DEF Locals
  <2>8. h'.at = EndCell /\ h'.at = 2 + 0 BY <1>2, <2>7
  <2>. QED BY <1>1, <1>2, <2>2, <2>5, <2>6, <2>7, <2>8, BlockStays
<1>4. CASE h' = [h EXCEPT !.pc = "done", !.ack = "error"] /\ UNCHANGED wire
  <2>1. h' \in Locals /\ h'.pc = "done" /\ h'.ack = "error" /\ h'.cnt = h.cnt /\ h'.lost = h.lost
    BY <1>2, <1>4 DEF Locals
  <2>. QED BY <1>1, <1>2, <1>4, <2>1, BlockStays
<1>. QED BY <1>3, <1>4 DEF BlockRead

LEMMA BlockWriteSteps ==
    ASSUME TransferInv, BlockWrite PROVE TransferInv'
<1>1. h.pc = "words" /\ ~cmd.reqs[1].rd /\ h.cnt < Num /\ UNCHANGED <<cmd, resp, do_abort, heard>>
  BY DEF BlockWrite
<1>2. /\ cmd.kind = "block" /\ h \in Locals /\ wire \in Wires /\ ~h.lost /\ Num \in Nat
      /\ FALSE \in BOOLEAN /\ "write" \in Kinds
      /\ h.at = 2 + h.cnt /\ h.cnt \in Nat /\ h.cnt <= Num /\ h.at \in Nat
  BY <1>1, BlockIs
<1>3. h.cnt + 1 \in Nat /\ h.cnt + 1 <= Num /\ h.at + 1 \in Nat /\ h.at + 1 = 2 + (h.cnt + 1) BY <1>1, <1>2
<1>4. CASE wire' = Did(h.cnt + 1, "write", FALSE) /\ h' = [[h EXCEPT !.at = @ + 1] EXCEPT !.cnt = @ + 1, !.ack = "OK"]
  <2>1. wire' \in Wires BY <1>2, <1>3, <1>4, WireAfter
  <2>2. h' = [h EXCEPT !.at = h.at + 1, !.cnt = h.cnt + 1, !.ack = "OK"] BY <1>2, <1>4 DEF Locals
  <2>3. h' \in Locals /\ h'.pc = h.pc /\ h'.at = h.at + 1 /\ h'.cnt = h.cnt + 1 /\ h'.lost = h.lost
    BY <1>2, <1>3, <2>2 DEF Locals
  <2>4. h'.at = 2 + (IF cmd.reqs[1].rd THEN 0 ELSE h'.cnt) BY <1>1, <1>3, <2>3
  <2>. QED BY <1>1, <1>2, <1>3, <2>1, <2>3, <2>4, BlockStays
<1>5. CASE h' = [[h EXCEPT !.at = @ + 1] EXCEPT !.pc = "done", !.ack = "error"] /\ UNCHANGED wire
  <2>1. h' = [h EXCEPT !.at = h.at + 1, !.pc = "done", !.ack = "error"] BY <1>2, <1>5 DEF Locals
  <2>2. h' \in Locals /\ h'.pc = "done" /\ h'.ack = "error" /\ h'.cnt = h.cnt /\ h'.lost = h.lost
    BY <1>2, <1>3, <2>1 DEF Locals
  <2>. QED BY <1>1, <1>2, <1>5, <2>2, BlockStays
<1>. QED BY <1>4, <1>5 DEF BlockWrite

LEMMA BlockVerifySteps ==
    ASSUME TransferInv, BlockVerify PROVE TransferInv'
<1>1. h.pc = "words" /\ ~cmd.reqs[1].rd /\ h.cnt = Num /\ UNCHANGED <<cmd, resp, do_abort, heard>>
  BY DEF BlockVerify
<1>2. /\ cmd.kind = "block" /\ h \in Locals /\ wire \in Wires /\ ~h.lost /\ Num \in Nat
      /\ FALSE \in BOOLEAN /\ "rdbuff" \in Kinds
      /\ h.at = 2 + h.cnt /\ h.cnt <= Num /\ EndCell = 2 + Num
  BY <1>1, BlockIs
<1>3. CASE wire' = Did(Num, "rdbuff", FALSE) /\ h' = [h EXCEPT !.pc = "done", !.ir = "dp"]
  <2>1. wire' \in Wires BY <1>2, <1>3, WireAfter
  <2>2. h' \in Locals /\ h'.pc = "done" /\ h'.at = h.at /\ h'.cnt = h.cnt /\ h'.lost = h.lost
    BY <1>2, <1>3 DEF Locals
  <2>3. h'.at = EndCell BY <1>1, <1>2, <2>2
  <2>. QED BY <1>1, <1>2, <2>1, <2>2, <2>3, BlockStays
<1>4. CASE h' = [h EXCEPT !.pc = "done", !.ack = "error", !.ir = "dp"] /\ UNCHANGED wire
  <2>1. h' \in Locals /\ h'.pc = "done" /\ h'.ack = "error" /\ h'.cnt = h.cnt /\ h'.lost = h.lost
    BY <1>2, <1>4 DEF Locals
  <2>. QED BY <1>1, <1>2, <1>4, <2>1, BlockStays
<1>. QED BY <1>3, <1>4 DEF BlockVerify

----------------------------------------------------------------------------
LEMMA TransferInitHolds ==
    ASSUME TransferInit PROVE TransferInv
<1>1. /\ cmd \in Commands /\ wire = [log |-> <<>>, posted |-> 0, ts |-> 0]
      /\ h = [pc |-> "begin", at |-> 1, cnt |-> 0, ack |-> "zero", post |-> FALSE,
              check |-> FALSE, ir |-> "none", tries |-> 0, k |-> 0, lost |-> FALSE]
      /\ do_abort \in BOOLEAN /\ heard = 0
  BY DEF TransferInit
<1>2. h \in Locals /\ h.pc = "begin" /\ h.at = 1 /\ h.cnt = 0 /\ h.ack = "zero" /\ h.k = 0 /\ ~h.lost
  <2>1. 0 \in Nat /\ 1 \in Nat OBVIOUS
  <2>. QED BY <1>1, <2>1 DEF Locals
<1>3. wire \in Wires /\ wire.log = <<>> /\ Len(wire.log) = 0
  <2>1. <<>> \in Seq([k : Nat, kind : Kinds]) /\ Len(<<>>) = 0 OBVIOUS
  <2>. QED BY <1>1, <2>1 DEF Wires
<1>4. TransferType BY <1>1, <1>2, <1>3 DEF TransferType
<1>5. Num \in Nat /\ Num >= 1 BY <1>1, CommandTypes
<1>6. \A i \in 1..Len(wire.log) : FALSE BY <1>3
<1>7. \A j \in 1..Num : ReadsOf(j) <= Allowed(j)
  <2>1. TAKE j \in 1..Num
  <2>2. AccessesOf(j) = {} BY <1>6 DEF AccessesOf
  <2>3. ReadsOf(j) = 0 BY <2>2, FS_EmptySet DEF ReadsOf
  <2>. QED BY <1>1, <2>3, AllowedIs
<1>8. LogSorted(h.k) /\ OthersAllowed(h.k) BY <1>6, <1>7 DEF LogSorted, OthersAllowed
<1>9. Log BY <1>2, <1>8 DEF Log
<1>10. ~Failure BY <1>2 DEF Failure
<1>11. Pointer BY <1>2, <1>5, <1>10 DEF Pointer
<1>12. Heard BY <1>2 DEF Heard
<1>13. Block BY <1>2, <1>5 DEF Block
<1>. QED BY <1>2, <1>4, <1>9, <1>11, <1>12, <1>13 DEF TransferInv

LEMMA TransferSteps ==
    ASSUME TransferInv, [TransferNext]_transferVars PROVE TransferInv'
<1>1. CASE UNCHANGED transferVars
  <2>1. UNCHANGED <<cmd, h, wire, do_abort, heard>> BY <1>1 DEF transferVars
  <2>2. \A j : ReadsOf(j)' = ReadsOf(j) BY <2>1, LogStays
  <2>3. /\ Num' = Num /\ (Swd' <=> Swd) /\ EndCell' = EndCell
        /\ \A k : HeaderCell(k)' = HeaderCell(k) /\ Allowed(k)' = Allowed(k)
    BY <2>1, PacketStays
  <2>4. TransferType' BY <2>1 DEF TransferInv, TransferType
  <2>5. CASE cmd.kind = "transfer"
    <3>1. Pointer /\ Log /\ Heard /\ h.pc \notin {"block", "words"} BY <2>5 DEF TransferInv
    <3>2. HeaderCell(h.k + 1)' = HeaderCell(h.k + 1) /\ HeaderCell(h.k)' = HeaderCell(h.k)
          /\ HeaderCell(h.cnt + 1)' = HeaderCell(h.cnt + 1) /\ HeaderCell(Num + 1)' = HeaderCell(Num + 1)
          /\ Req' = Req
      BY <2>1, <2>3 DEF Req
    <3>3. Pointer' BY <2>1, <2>3, <3>1, <3>2 DEF Pointer, Failure
    <3>4. LogSorted(h.k)' /\ OthersAllowed(h.k)' BY <2>1, <2>2, <2>3, <3>1 DEF Log, LogSorted, OthersAllowed
    <3>5. Log' BY <2>1, <2>2, <2>3, <3>1, <3>4 DEF Log
    <3>6. Heard' BY <2>1, <3>1 DEF Heard
    <3>. QED BY <2>1, <2>4, <2>5, <3>1, <3>3, <3>5, <3>6 DEF TransferInv
  <2>6. CASE cmd.kind # "transfer"
    <3>1. Block BY <2>6 DEF TransferInv
    <3>2. Block' BY <2>1, <2>3, <3>1 DEF Block
    <3>. QED BY <2>1, <2>4, <2>6, <3>2 DEF TransferInv
  <2>. QED BY <2>5, <2>6
<1>2. CASE TransferNext
  BY <1>2, AbortSteps, BeginSteps, TakeHeaderSteps, FlushChainedSteps, FlushFromBufferSteps, ReadPlainSteps,
     ReadMatchSteps, PollSteps, SetMaskSteps, WritePlainSteps, SkipSteps, FinishSteps,
     BlockStartSteps, BlockReadSteps, BlockWriteSteps, BlockVerifySteps DEF TransferNext
<1>. QED BY <1>1, <1>2

LEMMA TransferPromises ==
    ASSUME TransferInv PROVE ExecutedOnce /\ AbortIsClean
<1>1. TransferType BY DEF TransferInv
<1>2. CASE cmd.kind = "transfer"
  <2>1. Pointer /\ Log /\ Heard BY <1>2 DEF TransferInv
  <2>2. ReadsOf(h.k) <= Allowed(h.k) \/ h.k \notin 1..Num
    <3>1. Num \in Nat /\ h.k \in Nat /\ cmd \in Commands BY <1>1, CommandTypes DEF TransferType, Locals
    <3>2. CASE h.k \in 1..Num
      <4>1. Allowed(h.k) \in Nat /\ Allowed(h.k) >= 1 BY <3>1, <3>2, AllowedIs
      <4>2. ReadsOf(h.k) \in Nat BY <1>1, AccessesFinite
      <4>3. h.tries \in Nat BY <1>1 DEF TransferType, Locals
      <4>4. h.k # 0 BY <3>2
      <4>5. CASE h.pc \in {"loop", "skip", "finish", "done"} BY <2>1, <4>4, <4>5 DEF Log
      <4>6. CASE h.pc \in {"flush", "act"} BY <2>1, <4>1, <4>6 DEF Log
      <4>7. CASE h.pc = "match"
        <5>1. ReadsOf(h.k) + h.tries + 1 = Allowed(h.k) BY <2>1, <4>7 DEF Log
        <5>. QED BY <4>1, <4>2, <4>3, <5>1
      <4>8. h.pc \notin {"begin", "block", "words"} BY <1>2, <2>1, <4>4 DEF TransferInv, Pointer
      <4>. QED BY <1>1, <4>5, <4>6, <4>7, <4>8 DEF TransferType, Locals
    <3>. QED BY <3>2
  <2>3. \A k \in 1..Num : ReadsOf(k) <= Allowed(k) BY <2>1, <2>2 DEF Log, OthersAllowed
  <2>4. ExecutedOnce BY <2>1, <2>3 DEF ExecutedOnce, Log, LogSorted
  <2>5. h.lost \/ (h.pc = "done" /\ h.at # EndCell) => h.ack \in {"error", "mismatch"}
    BY <1>2, <2>1 DEF Pointer, Failure, EndCell
  <2>. QED BY <2>1, <2>4, <2>5 DEF AbortIsClean, Heard
<1>3. CASE cmd.kind # "transfer"
  <2>1. Block BY <1>3 DEF TransferInv
  <2>. QED BY <1>3, <2>1 DEF ExecutedOnce, AbortIsClean, Block
<1>. QED BY <1>2, <1>3

LEMMA TransferQuietPromises ==
    ASSUME TransferQuiet PROVE ExecutedOnce /\ AbortIsClean
<1>1. /\ cmd.kind = "transfer" /\ cmd.reqs = <<>> /\ Len(cmd.reqs) = 0 /\ Len(wire.log) = 0
      /\ h.pc = "done" /\ h.at = 1 /\ h.ack = "zero" /\ ~h.lost /\ do_abort = FALSE
  BY DEF TransferQuiet
<1>2. Num = 0 BY <1>1 DEF Num
<1>3. 1..Num = {} /\ 1..Len(wire.log) = {} BY <1>1, <1>2
<1>4. ExecutedOnce BY <1>1, <1>3 DEF ExecutedOnce
<1>5. EndCell = 1
  <2>1. EndCell = HeaderCell(Num + 1) /\ Num + 1 = 1 BY <1>1, <1>2 DEF EndCell
  <2>. QED BY <2>1, FirstHeader
<1>. QED BY <1>1, <1>4, <1>5 DEF AbortIsClean

----------------------------------------------------------------------------
(* All parts, of which one runs.                                            *)
SwdHolds == IF part = "swd" THEN SwdInv ELSE SwdQuiet
SessionHolds == IF part = "session" THEN SessionInv ELSE SessionQuiet
TransferHolds == IF part = "transfer" THEN TransferInv ELSE TransferQuiet
AllHolds == SwdHolds /\ SessionHolds /\ TransferHolds

LEMMA QuietSwd == ASSUME SwdQuiet PROVE InStep /\ TargetLeftIdle /\ DoneOnce /\ WaitIsRetried
<1>1. result = "zero" /\ performed = 0 /\ answer = "none" BY DEF SwdQuiet
<1>. QED BY <1>1, NotBoth DEF InStep, TargetLeftIdle, DoneOnce, WaitIsRetried, Acks

LEMMA HoldsInit == ASSUME Init PROVE AllHolds
<1>1. SwdHolds BY SwdStarts DEF Init, SwdHolds
<1>2. SessionHolds BY InitSession DEF Init, SessionHolds
<1>3. TransferHolds BY TransferInitHolds DEF Init, TransferHolds
<1>. QED BY <1>1, <1>2, <1>3 DEF AllHolds

LEMMA HoldsNext == ASSUME AllHolds, [Next]_vars PROVE AllHolds'
<1>1. part' = part /\ [SwdNext]_swdVars /\ [SessionNext]_sessionVars /\ [TransferNext]_transferVars
  BY DEF Next, vars
<1>2. part # "swd" => UNCHANGED swdVars BY DEF Next, vars
<1>3. part # "session" => UNCHANGED sessionVars BY DEF Next, vars
<1>4. part # "transfer" => UNCHANGED transferVars BY DEF Next, vars
<1>5. SwdHolds'
  <2>0. SwdHolds BY DEF AllHolds
  <2>1. CASE part = "swd" BY <1>1, <2>0, <2>1, SwdStep DEF SwdHolds
  <2>2. CASE part # "swd" BY <1>1, <1>2, <2>0, <2>2 DEF SwdHolds, SwdQuiet, swdVars
  <2>. QED BY <2>1, <2>2
<1>6. SessionHolds'
  <2>0. SessionHolds BY DEF AllHolds
  <2>1. CASE part = "session" BY <1>1, <2>0, <2>1, NextSession DEF SessionHolds
  <2>2. CASE part # "session" BY <1>1, <1>3, <2>0, <2>2 DEF SessionHolds, SessionQuiet, sessionVars
  <2>. QED BY <2>1, <2>2
<1>7. TransferHolds'
  <2>0. TransferHolds BY DEF AllHolds
  <2>1. CASE part = "transfer" BY <1>1, <2>0, <2>1, TransferSteps DEF TransferHolds
  <2>2. CASE part # "transfer" BY <1>1, <1>4, <2>0, <2>2 DEF TransferHolds, TransferQuiet, transferVars
  <2>. QED BY <2>1, <2>2
<1>. QED BY <1>5, <1>6, <1>7 DEF AllHolds

LEMMA Holds == Spec => []AllHolds
<1>1. Init => AllHolds BY HoldsInit
<1>2. AllHolds /\ [Next]_vars => AllHolds' BY HoldsNext
<1>. QED BY <1>1, <1>2, PTL DEF Spec

(* Over any sequence of commands the connected port runs with the settings  *)
(* last given, and a port that is not connected drives no pin but those the *)
(* host took over.                                                          *)
THEOREM SettingsStayInForce == Spec => []SettingsInForce
<1>1. AllHolds => SettingsInForce
  BY DEF AllHolds, SessionHolds, SessionInv, SessionQuiet, SettingsInForce
<1>. QED BY <1>1, Holds, PTL

(* Probe and target never drive the line together, and every bit one        *)
(* samples is the bit the other gives.                                      *)
THEOREM AlwaysInStep == Spec => []InStep
<1>1. AllHolds => InStep BY StagesInStep, QuietSwd DEF AllHolds, SwdHolds
<1>. QED BY <1>1, Holds, PTL

(* A target that answered waits for a start bit when the call is over,      *)
(* unless the idle clocks were high.                                        *)
THEOREM LeavesTargetIdle == Spec => []TargetLeftIdle
<1>1. AllHolds => TargetLeftIdle BY LeftIdle, QuietSwd DEF AllHolds, SwdHolds
<1>. QED BY <1>1, Holds, PTL

(* A call says OK exactly when the target did the transfer, once, and marks *)
(* a word as bad exactly when its parity was: for every word of 32 bits.    *)
THEOREM TransferDoneOnce == Spec => []DoneOnce
<1>1. AllHolds => DoneOnce BY Performed, QuietSwd DEF AllHolds, SwdHolds
<1>. QED BY <1>1, Holds, PTL

(* WAIT is returned after one attempt more than the limit, whatever it is.  *)
THEOREM WaitRetriedToLimit == Spec => []WaitIsRetried
<1>1. AllHolds => WaitIsRetried BY Retried, QuietSwd DEF AllHolds, SwdHolds
<1>. QED BY <1>1, Holds, PTL

(* The requests of a DAP_Transfer are executed in the order of the packet,  *)
(* at most once, and a wait for a value reads as often as the host allows:  *)
(* for every packet, every match_retry, every answer of the target, and an  *)
(* abort at any point.                                                      *)
THEOREM RequestsExecutedOnce == Spec => []ExecutedOnce
<1>1. AllHolds => ExecutedOnce BY TransferPromises, TransferQuietPromises DEF AllHolds, TransferHolds
<1>. QED BY <1>1, Holds, PTL

(* After an abort at most one more request is begun; and the handler always *)
(* finds the next command of the packet, but after an error or a mismatch.  *)
THEOREM AbortsCleanly == Spec => []AbortIsClean
<1>1. AllHolds => AbortIsClean BY TransferPromises, TransferQuietPromises DEF AllHolds, TransferHolds
<1>. QED BY <1>1, Holds, PTL
=============================================================================

----------------------------- MODULE UsbControl -----------------------------
(* Control transfers: the control endpoint of usb_dc_usbhs.c and the state  *)
(* machine of usbd_core.c over it, with a host that asks one request after  *)
(* the other.  A token and the interrupt it raises are one step: the        *)
(* controller answers NAK to all others until the handler is done           *)
(* (USBHS_INT_BUSY_EN).  The acknowledge of any packet may get lost, the    *)
(* host may give up a transfer, and it may reset the bus.                   *)
(*                                                                          *)
(* Lengths count bytes.  What a packet holds is the positions its bytes     *)
(* have in the data of the transfer.                                        *)
EXTENDS Integers, Sequences, FiniteSets, SequencesExt

CONSTANTS
    Mps,        \* USB_CTRL_EP_MPS
    BufferLen,  \* CONFIG_USBDEV_REQUEST_BUFFER_LEN
    Width,      \* values of the unsigned lengths
    Asked,      \* wLength of the requests with data
    Offered     \* lengths of the descriptors

ASSUME ControlAssumption ==
    /\ Mps \in Nat \ {0} /\ BufferLen \in Nat /\ Width \in Nat /\ Width > BufferLen
    /\ Asked \subseteq 1..Width - 1 /\ Offered \subseteq 1..BufferLen

VARIABLES
    d,      \* the device: g_ch32_usbhs_udc and its registers, g_usbd_core
    h,      \* the host
    acted,  \* requests the handlers carried out since the host began the last
    clean   \* since the last reset the host has not seen what the device cannot stand
controlVars == <<d, h, acted, clean>>

(* Requests, of every path through usbd_setup_request_handler that differs  *)
(* for the control endpoint.  "descriptor" stands for all that send data,   *)
(* "coding" for those that take data, "interface" for those that need a     *)
(* configuration, "unknown" for those no handler knows.                     *)
Plain(kind, dir, len) == [kind |-> kind, dir |-> dir, len |-> len, offer |-> 0, id |-> 0]
NoSetup == Plain("unknown", "out", 0)
Requests ==
    {[Plain("descriptor", "in", n) EXCEPT !.offer = m] : n \in Asked, m \in Offered}
        \cup {Plain("coding", "out", n) : n \in Asked}
        \cup {Plain("unknown", "in", n) : n \in Asked} \cup {Plain("unknown", "out", n) : n \in {0} \cup Asked}
        \cup {Plain("address", "out", 0), Plain("configuration", "out", 0), Plain("interface", "out", 0)}

HasDataOut(r) == r.len > 0 /\ r.dir = "out"
Shorter(a, b) == IF a < b THEN a ELSE b
Minus(a, b) == (a + Width - b) % Width
Positions(from, n) == [i \in 1..n |-> from + i - 1]

Unknown == [i \in 0..Width - 1 |-> -1]
PowerOn ==
    [setup |-> NoSetup, core |-> NoSetup,
     in |-> [len |-> 0, actual |-> 0], out |-> [len |-> 0, actual |-> 0],
     tx |-> "nak", txLen |-> 0, txToggle |-> FALSE, toggle |-> TRUE,
     dma |-> "setup", at |-> 0, pos |-> 0, residue |-> 0, len |-> 0, zlp |-> FALSE, data |-> Unknown,
     address |-> 0, pending |-> 0, configured |-> FALSE]

(* The interrupt of a bus reset.  g_usbd_core keeps most of its values, but *)
(* the next SETUP packet sets them before they are read, so they are        *)
(* forgotten here.                                                          *)
ResetKeepsToggle(e) == [PowerOn EXCEPT !.toggle = e.toggle]
ResetDevice(e) == PowerOn

Resting == [stage |-> "idle", result |-> "none", req |-> NoSetup, toggle |-> TRUE,
            count |-> 0, got |-> <<>>, behind |-> FALSE, address |-> 0]

ControlInit == d = PowerOn /\ h = Resting /\ acted = <<>> /\ clean = TRUE
ControlQuiet == ControlInit

----------------------------------------------------------------------------
(* usbd_ep_start_write, usbd_ep_start_read and usbd_ep_set_stall on the     *)
(* control endpoint.  It always receives: after the reset nothing sets its  *)
(* receiver to anything but ACK.                                            *)
StartWrite(e, n) ==
    [e EXCEPT !.in = [len |-> n, actual |-> 0], !.tx = "ack", !.txToggle = e.toggle,
              !.txLen = Shorter(n, Mps),
              !.dma = IF n = 0 THEN @ ELSE "data", !.at = IF n = 0 THEN @ ELSE e.pos]
StartReadAtStart(e, n) ==
    [e EXCEPT !.out = [len |-> n, actual |-> 0],
              !.dma = IF n = 0 THEN @ ELSE "data", !.at = IF n = 0 THEN @ ELSE 0]
StartRead(e, n) ==
    [e EXCEPT !.out = [len |-> n, actual |-> 0],
              !.dma = IF n = 0 THEN @ ELSE "data", !.at = IF n = 0 THEN @ ELSE e.pos]
SetStall(e) == [e EXCEPT !.tx = "stall"]
ReadSetup(e) == [e EXCEPT !.dma = "setup"]

(* usbd_setup_request_handler: whether a handler knows the request, and     *)
(* what it does.                                                            *)
Accepts(e, r) ==
    \/ r.kind \in {"descriptor", "coding", "address", "configuration"}
    \/ r.kind = "interface" /\ e.configured
HandleRequest(e, r) ==
    [e EXCEPT !.len = IF r.kind = "descriptor" THEN r.offer ELSE IF r.kind = "coding" THEN @ ELSE 0,
              !.data = IF r.kind = "descriptor" THEN [i \in DOMAIN @ |-> i] ELSE @,
              !.pending = IF r.kind = "address" THEN 1 ELSE @,
              !.configured = @ \/ r.kind = "configuration"]
Record(e, r) == [id |-> r.id, data |-> IF HasDataOut(r) THEN [i \in 1..r.len |-> e.data[i - 1]] ELSE <<>>]

(* usbd_event_ep0_setup_complete_handler.  A result is the device and what  *)
(* was carried out.                                                         *)
SetupComplete(e) ==
    LET r == e.setup
        c == [e EXCEPT !.core = r, !.pos = 0, !.residue = r.len, !.len = r.len, !.zlp = FALSE,
                         !.data = Unknown]
        a == HandleRequest(c, r)
        n == Shorter(a.len, r.len)
        more == r.len > a.len /\ a.len % Mps = 0
    IN CASE HasDataOut(r) /\ r.len > BufferLen -> <<SetStall([e EXCEPT !.core = r]), <<>> >>
         [] HasDataOut(r) /\ r.len <= BufferLen -> <<StartRead(c, r.len), <<>> >>
         [] ~HasDataOut(r) /\ ~Accepts(c, r) -> <<SetStall(c), <<>> >>
         [] ~HasDataOut(r) /\ Accepts(c, r) ->
              <<StartWrite([a EXCEPT !.residue = n, !.zlp = more], n), <<Record(a, r)>> >>

(* usbd_event_ep0_in_complete_handler.                                      *)
InComplete(e, n) ==
    LET c == [e EXCEPT !.pos = (@ + n) % Width, !.residue = Minus(@, n)] IN
    CASE c.residue # 0 -> StartWrite(c, c.residue)
      [] c.residue = 0 /\ c.zlp -> StartWrite([c EXCEPT !.zlp = FALSE], 0)
      [] c.residue = 0 /\ ~c.zlp /\ c.core.len > 0 /\ c.core.dir = "in" -> StartRead(c, 0)
      [] OTHER -> c

(* usbd_event_ep0_out_complete_handler.                                     *)
OutComplete(e, n) ==
    LET c == [e EXCEPT !.pos = (@ + n) % Width, !.residue = Minus(@, n)]
        b == [c EXCEPT !.pos = 0]
    IN CASE n = 0 -> <<e, <<>> >>
         [] n > 0 /\ c.residue # 0 -> <<StartRead(c, c.residue), <<>> >>
         [] n > 0 /\ c.residue = 0 /\ ~Accepts(b, b.core) -> <<SetStall(b), <<>> >>
         [] n > 0 /\ c.residue = 0 /\ Accepts(b, b.core) ->
              <<StartWrite(HandleRequest(b, b.core), 0), <<Record(b, b.core)>> >>

(* USBHS_IRQHandler for a packet the host has acknowledged.                 *)
InToggle(e) == IF e.in.len >= Mps THEN ~e.toggle ELSE TRUE
InTokenDone(e) ==
    LET sent == Shorter(e.in.len, Mps)
        counted == [e EXCEPT !.in = [len |-> @.len - sent, actual |-> @.actual + sent], !.toggle = InToggle(e)]
        done == InComplete(counted, counted.in.actual)
        moved == IF done.pending > 0 THEN [done EXCEPT !.address = done.pending, !.pending = 0] ELSE done
    IN IF HasDataOut(moved.setup) \/ moved.setup.len = 0 THEN [ReadSetup(moved) EXCEPT !.toggle = TRUE] ELSE moved

(* The same for n bytes received; whether their toggle was the expected one *)
(* is not looked at.                                                        *)
OutTokenDone(e, n) ==
    LET counted == [e EXCEPT !.out = [len |-> Minus(@.len, n), actual |-> (@.actual + n) % Width]]
        done == OutComplete(counted, counted.out.actual)
    IN IF n = 0 THEN <<[ReadSetup(done[1]) EXCEPT !.toggle = TRUE], done[2]>> ELSE done

----------------------------------------------------------------------------
(* The host.  Two requests carried out tell as much as more of them.        *)
Acted(more) == acted' = IF Len(acted) < 2 THEN acted \o more ELSE acted
Hears == h.address = d.address

(* A SETUP packet goes where the receiver's DMA points to; the device       *)
(* handles what is in udc.setup.  Once it is no longer clean, the host      *)
(* resets the bus before its next request.                                  *)
HostSetup(r) ==
    LET s == [r EXCEPT !.id = 1 - h.req.id]
        result == SetupComplete(IF d.dma = "setup" THEN [d EXCEPT !.setup = s] ELSE d)
    IN /\ h.stage = "idle" /\ Hears /\ clean
       /\ d' = result[1] /\ acted' = result[2]
       /\ h' = [h EXCEPT !.stage = IF r.dir = "in" THEN "in" ELSE IF r.len > 0 THEN "out" ELSE "statusIn",
                         !.req = s, !.result = "none", !.toggle = TRUE, !.count = 0, !.got = <<>>,
                         !.behind = FALSE]
       /\ clean' = (clean /\ ~(HasDataOut(r) /\ r.len > BufferLen))

(* The end of the transfer.                                                 *)
Done(host) ==
    [host EXCEPT !.stage = "idle", !.result = "done",
                 !.address = IF host.req.kind = "address" THEN 1 ELSE @]

(* An IN token: of the data stage, or of the status.  A packet with the     *)
(* toggle of the one before is a repetition, which the host acknowledges    *)
(* and forgets.                                                             *)
SentData == IF d.dma = "data" THEN [i \in 1..d.txLen |-> d.data[(d.at + i - 1) % Width]] ELSE [i \in 1..d.txLen |-> -1]
Arrived ==
    LET n == [h EXCEPT !.toggle = ~@, !.count = @ + d.txLen, !.got = @ \o SentData] IN
    CASE d.txToggle # h.toggle -> h
      [] d.txToggle = h.toggle /\ h.stage = "statusIn" -> Done(h)
      [] d.txToggle = h.toggle /\ h.stage = "in" ->
           IF d.txLen < Mps \/ n.count >= h.req.len THEN [n EXCEPT !.stage = "statusOut"] ELSE n
HostIn(lost) ==
    /\ h.stage \in {"in", "statusIn"} /\ Hears /\ d.tx = "ack"
    /\ h' = [Arrived EXCEPT !.behind = lost]
    /\ d' = IF lost THEN d ELSE InTokenDone(d)
    /\ clean' = (clean /\ ~(lost /\ h.stage = "statusIn" /\ (h.req.len > 0 \/ h.req.kind = "address")))
    /\ UNCHANGED acted
HostStalled ==
    /\ h.stage \in {"in", "statusIn"} /\ Hears /\ d.tx = "stall"
    /\ h' = [h EXCEPT !.stage = "idle", !.result = "stalled"]
    /\ clean' = (clean /\ ~HasDataOut(h.req))
    /\ UNCHANGED <<d, acted>>

(* An OUT packet of the data stage.                                         *)
HostOut(lost) ==
    LET n == Shorter(Mps, h.req.len - h.count)
        stored == IF d.dma = "data"
                  THEN [d EXCEPT !.data = [i \in DOMAIN @ |-> IF Minus(i, d.at) < n
                                                             THEN h.count + Minus(i, d.at) ELSE @[i]]]
                  ELSE [d EXCEPT !.setup = NoSetup]
        result == OutTokenDone(stored, n)
    IN /\ h.stage = "out" /\ Hears
       /\ d' = result[1] /\ Acted(result[2])
       /\ h' = CASE lost -> h
                 [] ~lost /\ h.count + n = h.req.len -> [h EXCEPT !.count = @ + n, !.stage = "statusIn"]
                 [] ~lost /\ h.count + n # h.req.len -> [h EXCEPT !.count = @ + n]
       /\ clean' = (clean /\ ~lost)

(* The empty OUT packet that ends a transfer to the host.                   *)
HostStatusOut(lost) ==
    LET result == OutTokenDone(d, 0) IN
    /\ h.stage = "statusOut" /\ Hears
    /\ d' = result[1] /\ Acted(result[2])
    /\ h' = IF lost THEN h ELSE Done(h)
    /\ clean' = (clean /\ ~(h.behind /\ d.out.actual > 0))

HostGivesUp ==
    /\ h.stage # "idle" /\ h' = [h EXCEPT !.stage = "idle", !.result = "none"]
    /\ clean' = FALSE /\ UNCHANGED <<d, acted>>

HostReset ==
    /\ d' = ResetDevice(d) /\ h' = Resting /\ acted' = <<>> /\ clean' = TRUE

ControlNext ==
    \/ \E r \in Requests : HostSetup(r)
    \/ \E lost \in BOOLEAN : HostIn(lost) \/ HostOut(lost) \/ HostStatusOut(lost)
    \/ HostStalled \/ HostGivesUp \/ HostReset

----------------------------------------------------------------------------
(* A transfer that ended well did what the host asked: the request was      *)
(* carried out once, with all the data the host sent, or the host has all   *)
(* that it asked for and the device had; and a transfer is refused only if  *)
(* no handler knows the request.  This holds with acknowledges lost, from   *)
(* the reset of the bus on, whatever happened before it, but not after the  *)
(* host has seen one of six things the code does not provide for (clean):   *)
(* a transfer given up; a transfer with data from the host that was         *)
(* refused, too long or had a packet repeated; the status of such a         *)
(* transfer, or of SET_ADDRESS, not acknowledged; and the status of a       *)
(* transfer to the host sent while the acknowledge before it was lost and   *)
(* out_ep[0].actual_xfer_len is left from an earlier transfer, which        *)
(* carries the request out again.                                           *)
ControlExact ==
    clean /\ h.stage = "idle" =>
      /\ h.result = "done" =>
           /\ acted = <<[id |-> h.req.id,
                         data |-> IF HasDataOut(h.req) THEN Positions(0, h.req.len) ELSE <<>>]>>
           /\ h.req.dir = "in" => h.got = Positions(0, Shorter(h.req.len, h.req.offer))
      /\ h.result = "stalled" => acted = <<>> /\ h.req.kind \in {"unknown", "interface"}

(* In each stage the device is ready for the next token of the host: it     *)
(* sends the packet the host waits for, or the one whose acknowledge it     *)
(* missed, or refuses; and between two transfers the next SETUP packet will *)
(* be read from where it is stored.  So no transfer hangs.                  *)
ControlProceeds ==
    clean =>
      /\ Hears
      /\ h.stage \in {"in", "statusIn"} =>
           d.tx = "stall" \/ (d.tx = "ack" /\ (h.behind \/ d.txToggle = h.toggle))
      /\ h.stage = "idle" => d.dma = "setup"
=============================================================================

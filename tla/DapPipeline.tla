---------------------------- MODULE DapPipeline ----------------------------
(***************************************************************************)
(* The CMSIS-DAP packet pipeline of application/usb_main.c: two USB        *)
(* endpoint callbacks that run in the USBHS interrupt, three threads, two  *)
(* memory pools, two mailboxes, one semaphore and one completion.          *)
(*                                                                         *)
(*   host --OUT--> dap_out_callback -sem-> usb_dap_req_thread -mailbox->   *)
(*        dap_process_thread -mailbox-> usb_dap_res_thread --IN--> host    *)
(*                                                                         *)
(* One action is what a thread does between two points at which another    *)
(* thread or an interrupt can be observed: a kernel call (they run with    *)
(* interrupts off) or an access to shared data.  A blocking call is its    *)
(* guard: every kernel object here has one waiter, for which the direct    *)
(* hand-over of rt_sem_release/rt_mb_send/rt_mp_free and a later re-test   *)
(* of the condition are the same.                                          *)
(***************************************************************************)
EXTENDS Naturals, Sequences, FiniteSets

CONSTANTS
  PacketCount,   (* DAP_PACKET_COUNT: blocks per pool, slots per mailbox   *)
  ReqBlocks,     (* the blocks of usb_req_mempool                          *)
  ResBlocks,     (* the blocks of usb_res_mempool                          *)
  Null,          (* RT_NULL                                                *)
  MaxTransfers,  (* bound: transfers of one DAP_Transfer request           *)
  MaxRequests,   (* bound: requests the host sends, aborts not counted     *)
  MaxAborts,     (* bound: DAP_TransferAbort packets the host sends        *)
  MaxConfigs     (* bound: SET_CONFIGURATION requests the host sends       *)

ASSUME PoolAssumption ==
  /\ PacketCount \in Nat \ {0}
  /\ IsFiniteSet(ReqBlocks) /\ Cardinality(ReqBlocks) = PacketCount
  /\ IsFiniteSet(ResBlocks) /\ Cardinality(ResBlocks) = PacketCount
  /\ Null \notin ReqBlocks \cup ResBlocks

ASSUME BoundAssumption ==
  /\ MaxTransfers \in Nat \ {0}
  /\ MaxRequests \in Nat /\ MaxAborts \in Nat /\ MaxConfigs \in Nat

VARIABLES
  (* kernel objects *)
  reqFree,      (* free blocks of usb_req_mempool                          *)
  reqMb,        (* usb_req_mailbox, oldest first                           *)
  reqSem,       (* usb_req_sem                                             *)
  resFree,      (* free blocks of usb_res_mempool                          *)
  resMb,        (* usb_res_mailbox, oldest first                           *)
  sendDone,     (* usb_dap_resinfo.send_completion.flag = RT_COMPLETED     *)
  (* shared memory *)
  cur,          (* usb_dap_reqinfo.cur_req_buffer                          *)
  doAbort,      (* dap_info.do_abort                                       *)
  reqData,      (* what each request block holds                           *)
  resData,      (* what each response block holds                          *)
  (* the threads: program counters and locals *)
  reqPc, reqNew,                      (* usb_dap_req_thread                *)
  procPc, procReq, procRes, procLeft, (* dap_process_thread                *)
  resPc, resBlk,                      (* usb_dap_res_thread                *)
  (* the USB controller *)
  epOpen,       (* both bulk endpoints have ep_enable set                  *)
  outDma,       (* RX DMA address of DAP_OUT_EP                            *)
  outArmed,     (* DAP_OUT_EP answers ACK                                  *)
  inArmed,      (* what DAP_IN_EP sends on the next IN token               *)
  (* the host *)
  sent,         (* requests the device has acknowledged, aborts excepted   *)
  aborts,       (* DAP_TransferAbort packets the device has acknowledged   *)
  abortMark,    (* value of sent when the last abort was acknowledged      *)
  configs,      (* SET_CONFIGURATION requests so far                       *)
  answered      (* the responses the host has read, in order               *)

reqVars  == <<reqPc, reqNew, cur, reqSem>>
procVars == <<procPc, procReq, procRes, procLeft>>
resVars  == <<resPc, resBlk, sendDone>>
usbVars  == <<epOpen, outDma, outArmed, inArmed>>
hostVars == <<sent, aborts, abortMark, configs, answered>>
vars == <<reqFree, reqMb, resFree, resMb, doAbort, reqData, resData,
          reqVars, procVars, resVars, usbVars, hostVars>>

-----------------------------------------------------------------------------
(* Packets.  A request is known by its number and its command; number 0   *)
(* is the content of memory the host never wrote.  A response carries the  *)
(* number of its request and whether the transfer loop was cut short.      *)

Kinds == {"transfer", "other", "abort"}
Request == [id : Nat, kind : Kinds]
Garbage == [id |-> 0, kind |-> "other"]

Response == [id : Nat, cut : BOOLEAN]
Unwritten == [id |-> 0, cut |-> FALSE]

(* Reading through a null pointer reads the vector table at address 0.     *)
ReadReq(b) == IF b = Null THEN Garbage ELSE reqData[b]

(* What the IN endpoint holds when it holds no block. *)
Idle == "idle"
Zlp  == "zlp"
ASSUME NamesAssumption == Idle \notin ResBlocks /\ Zlp \notin ResBlocks

Init ==
  /\ reqFree = ReqBlocks /\ reqMb = << >> /\ reqSem = 0
  /\ resFree = ResBlocks /\ resMb = << >> /\ sendDone = FALSE
  /\ cur = Null /\ doAbort = FALSE
  /\ reqData = [b \in ReqBlocks |-> Garbage]
  /\ resData = [b \in ResBlocks |-> Unwritten]
  /\ reqPc = "take" /\ reqNew = Null
  /\ procPc = "recv" /\ procReq = Null /\ procRes = Null /\ procLeft = 0
  /\ resPc = "recv" /\ resBlk = Null
  /\ epOpen = FALSE /\ outDma = Null /\ outArmed = FALSE /\ inArmed = Idle
  /\ sent = 0 /\ aborts = 0 /\ abortMark = 0 /\ configs = 0
  /\ answered = << >>

-----------------------------------------------------------------------------
(* usb_dap_req_thread                                                      *)

(* rt_sem_take(usb_req_sem, RT_WAITING_FOREVER) *)
ReqTake ==
  /\ reqPc = "take" /\ reqSem > 0
  /\ reqSem' = reqSem - 1
  /\ reqPc' = "dispatch"
  /\ UNCHANGED <<reqFree, reqMb, resFree, resMb, doAbort, reqData, resData,
                 reqNew, cur, procVars, resVars, usbVars, hostVars>>

(* variant: after an abort the endpoint is not armed again *)
ReqDispatchForgetsToArm ==
  /\ reqPc = "dispatch"
  /\ IF ReadReq(cur).kind = "abort"
       THEN doAbort' = TRUE /\ reqPc' = "take"
       ELSE doAbort' = doAbort /\ reqPc' = "send"
  /\ UNCHANGED <<reqFree, reqMb, resFree, resMb, reqData, resData, reqNew,
                 cur, reqSem, procVars, resVars, usbVars, hostVars>>

(* variant: an abort also takes a new block and drops the one it has *)
ReqDispatchDropsBlock ==
  /\ reqPc = "dispatch"
  /\ IF ReadReq(cur).kind = "abort"
       THEN doAbort' = TRUE /\ reqPc' = "alloc"
       ELSE doAbort' = doAbort /\ reqPc' = "send"
  /\ UNCHANGED <<reqFree, reqMb, resFree, resMb, reqData, resData, reqNew,
                 cur, reqSem, procVars, resVars, usbVars, hostVars>>

(* the command byte decides: an abort is done here, the rest is forwarded *)
ReqDispatch ==
  /\ reqPc = "dispatch"
  /\ IF ReadReq(cur).kind = "abort"
       THEN doAbort' = TRUE /\ reqPc' = "arm"
       ELSE doAbort' = doAbort /\ reqPc' = "send"
  /\ UNCHANGED <<reqFree, reqMb, resFree, resMb, reqData, resData, reqNew,
                 cur, reqSem, procVars, resVars, usbVars, hostVars>>

(* variant: the forwarded block is armed again *)
ReqSendKeepsBlock ==
  /\ reqPc = "send" /\ Len(reqMb) < PacketCount
  /\ reqMb' = Append(reqMb, cur)
  /\ reqPc' = "arm"
  /\ UNCHANGED <<reqFree, resFree, resMb, doAbort, reqData, resData, reqNew,
                 cur, reqSem, procVars, resVars, usbVars, hostVars>>

(* rt_mb_send_wait(usb_req_mailbox, cur_req_buffer, RT_WAITING_FOREVER) *)
ReqSend ==
  /\ reqPc = "send" /\ Len(reqMb) < PacketCount
  /\ reqMb' = Append(reqMb, cur)
  /\ reqPc' = "alloc"
  /\ UNCHANGED <<reqFree, resFree, resMb, doAbort, reqData, resData, reqNew,
                 cur, reqSem, procVars, resVars, usbVars, hostVars>>

(* rt_mp_alloc(usb_req_mempool, RT_WAITING_FOREVER): the block is in a     *)
(* register until the next step stores it                                  *)
ReqAlloc ==
  /\ reqPc = "alloc"
  /\ \E b \in reqFree : reqNew' = b /\ reqFree' = reqFree \ {b}
  /\ reqPc' = "store"
  /\ UNCHANGED <<reqMb, resFree, resMb, doAbort, reqData, resData, cur,
                 reqSem, procVars, resVars, usbVars, hostVars>>

ReqStore ==
  /\ reqPc = "store"
  /\ cur' = reqNew /\ reqNew' = Null
  /\ reqPc' = "arm"
  /\ UNCHANGED <<reqFree, reqMb, resFree, resMb, doAbort, reqData, resData,
                 reqSem, procVars, resVars, usbVars, hostVars>>

(* usbd_ep_start_read(DAP_OUT_EP, cur): refused for a closed endpoint *)
StartRead(b) ==
  IF epOpen /\ b # Null THEN outDma' = b /\ outArmed' = TRUE
                        ELSE UNCHANGED <<outDma, outArmed>>

ReqArm ==
  /\ reqPc = "arm"
  /\ StartRead(cur)
  /\ reqPc' = "take"
  /\ UNCHANGED <<reqFree, reqMb, resFree, resMb, doAbort, reqData, resData,
                 reqNew, cur, reqSem, procVars, resVars, epOpen, inArmed,
                 hostVars>>

-----------------------------------------------------------------------------
(* dap_process_thread                                                      *)

ProcRecv ==
  /\ procPc = "recv" /\ reqMb # << >>
  /\ procReq' = Head(reqMb) /\ reqMb' = Tail(reqMb)
  /\ procPc' = "alloc"
  /\ UNCHANGED <<reqFree, resFree, resMb, doAbort, reqData, resData, reqVars,
                 procRes, procLeft, resVars, usbVars, hostVars>>

ProcAlloc ==
  /\ procPc = "alloc"
  /\ \E b \in resFree : procRes' = b /\ resFree' = resFree \ {b}
  /\ procPc' = "handle"
  /\ UNCHANGED <<reqFree, reqMb, resMb, doAbort, reqData, resData, reqVars,
                 procReq, procLeft, resVars, usbVars, hostVars>>

(* variant: do_abort is not cleared when a DAP_Transfer starts *)
ProcHandleKeepsAbort ==
  /\ procPc = "handle"
  /\ LET r == ReadReq(procReq) IN
       /\ resData' = [resData EXCEPT ![procRes] = [id |-> r.id, cut |-> FALSE]]
       /\ \/ /\ r.kind = "transfer"
             /\ procLeft' \in 1..MaxTransfers
             /\ procPc' = "transfer"
          \/ /\ r.kind # "transfer"
             /\ procPc' = "free"
             /\ UNCHANGED procLeft
  /\ UNCHANGED <<reqFree, reqMb, resFree, resMb, doAbort, reqData, reqVars,
                 procReq, procRes, resVars, usbVars, hostVars>>

(* dap_request_handler: ID_DAP_Transfer clears do_abort and then loops     *)
(* over the transfers the packet asks for; any other command runs to its   *)
(* end.                                                                    *)
ProcHandle ==
  /\ procPc = "handle"
  /\ LET r == ReadReq(procReq) IN
       /\ resData' = [resData EXCEPT ![procRes] = [id |-> r.id, cut |-> FALSE]]
       /\ \/ /\ r.kind = "transfer"
             /\ doAbort' = FALSE
             /\ procLeft' \in 1..MaxTransfers
             /\ procPc' = "transfer"
          \/ /\ r.kind # "transfer"
             /\ procPc' = "free"
             /\ UNCHANGED <<doAbort, procLeft>>
  /\ UNCHANGED <<reqFree, reqMb, resFree, resMb, reqData, reqVars, procReq,
                 procRes, resVars, usbVars, hostVars>>

(* One round of the loop of dap_swd_transfer / dap_jtag_transfer: one      *)
(* transfer on the wire, then the test of do_abort.                        *)
ProcTransfer ==
  /\ procPc = "transfer"
  /\ \/ /\ ~doAbort /\ procLeft > 1
        /\ procLeft' = procLeft - 1
        /\ UNCHANGED <<procPc, resData>>
     \/ /\ doAbort \/ procLeft = 1
        /\ resData' = [resData EXCEPT ![procRes].cut = procLeft > 1]
        /\ procLeft' = 0 /\ procPc' = "free"
  /\ UNCHANGED <<reqFree, reqMb, resFree, resMb, doAbort, reqData, reqVars,
                 procReq, procRes, resVars, usbVars, hostVars>>

(* variant: the request block is not given back *)
ProcFreeLeaks ==
  /\ procPc = "free"
  /\ procReq' = Null
  /\ procPc' = "send"
  /\ UNCHANGED <<reqFree, reqMb, resFree, resMb, doAbort, reqData, resData,
                 reqVars, procRes, procLeft, resVars, usbVars, hostVars>>

(* rt_mp_free(usb_transfer), which returns at once for RT_NULL *)
ProcFree ==
  /\ procPc = "free"
  /\ reqFree' = IF procReq = Null THEN reqFree ELSE reqFree \cup {procReq}
  /\ procReq' = Null
  /\ procPc' = "send"
  /\ UNCHANGED <<reqMb, resFree, resMb, doAbort, reqData, resData, reqVars,
                 procRes, procLeft, resVars, usbVars, hostVars>>

(* variant: the response thread is sent the block a second time *)
ProcSendTwice ==
  /\ procPc = "send" /\ Len(resMb) < PacketCount
  /\ resMb' = resMb \o <<procRes, procRes>> /\ procRes' = Null
  /\ procPc' = "recv"
  /\ UNCHANGED <<reqFree, reqMb, resFree, doAbort, reqData, resData, reqVars,
                 procReq, procLeft, resVars, usbVars, hostVars>>

ProcSend ==
  /\ procPc = "send" /\ Len(resMb) < PacketCount
  /\ resMb' = Append(resMb, procRes) /\ procRes' = Null
  /\ procPc' = "recv"
  /\ UNCHANGED <<reqFree, reqMb, resFree, doAbort, reqData, resData, reqVars,
                 procReq, procLeft, resVars, usbVars, hostVars>>

-----------------------------------------------------------------------------
(* usb_dap_res_thread                                                      *)

ResRecv ==
  /\ resPc = "recv" /\ resMb # << >>
  /\ resBlk' = Head(resMb) /\ resMb' = Tail(resMb)
  /\ resPc' = "init"
  /\ UNCHANGED <<reqFree, reqMb, resFree, doAbort, reqData, resData, reqVars,
                 procVars, sendDone, usbVars, hostVars>>

(* rt_completion_init(&send_completion) *)
ResInit ==
  /\ resPc = "init"
  /\ sendDone' = FALSE
  /\ resPc' = "write"
  /\ UNCHANGED <<reqFree, reqMb, resFree, resMb, doAbort, reqData, resData,
                 reqVars, procVars, resBlk, usbVars, hostVars>>

(* usbd_ep_start_write(DAP_IN_EP, ...), whose result is not looked at *)
ResWrite ==
  /\ resPc = "write"
  /\ inArmed' = IF epOpen THEN resBlk ELSE inArmed
  /\ resPc' = "wait"
  /\ UNCHANGED <<reqFree, reqMb, resFree, resMb, doAbort, reqData, resData,
                 reqVars, procVars, resBlk, sendDone, epOpen, outDma,
                 outArmed, hostVars>>

(* variant: the block is freed without waiting for the controller *)
ResWaitReturnsAtOnce ==
  /\ resPc = "wait"
  /\ sendDone' = FALSE
  /\ resPc' = "free"
  /\ UNCHANGED <<reqFree, reqMb, resFree, resMb, doAbort, reqData, resData,
                 reqVars, procVars, resBlk, usbVars, hostVars>>

(* rt_completion_wait(&send_completion, RT_WAITING_FOREVER) *)
ResWait ==
  /\ resPc = "wait" /\ sendDone
  /\ sendDone' = FALSE
  /\ resPc' = "free"
  /\ UNCHANGED <<reqFree, reqMb, resFree, resMb, doAbort, reqData, resData,
                 reqVars, procVars, resBlk, usbVars, hostVars>>

ResRelease ==
  /\ resPc = "free"
  /\ resFree' = resFree \cup {resBlk} /\ resBlk' = Null
  /\ resPc' = "recv"
  /\ UNCHANGED <<reqFree, reqMb, resMb, doAbort, reqData, resData, reqVars,
                 procVars, sendDone, usbVars, hostVars>>

-----------------------------------------------------------------------------
(* The USBHS interrupt                                                     *)

(* An OUT packet: the controller writes it to the DMA address and answers  *)
(* NAK from then on; dap_out_callback releases the semaphore.              *)
DapOut(req) ==
  /\ outArmed
  /\ reqData' = [reqData EXCEPT ![outDma] = req]
  /\ outArmed' = FALSE
  /\ reqSem' = reqSem + 1
  /\ UNCHANGED <<reqFree, reqMb, resFree, resMb, doAbort, resData, reqPc,
                 reqNew, cur, procVars, resVars, epOpen, outDma, inArmed,
                 configs, answered>>

HostRequest ==
  /\ sent < MaxRequests
  /\ \E k \in Kinds \ {"abort"} : DapOut([id |-> sent + 1, kind |-> k])
  /\ sent' = sent + 1
  /\ UNCHANGED <<aborts, abortMark>>

HostAbort ==
  /\ aborts < MaxAborts
  /\ DapOut([id |-> 0, kind |-> "abort"])
  /\ aborts' = aborts + 1 /\ abortMark' = sent
  /\ UNCHANGED sent

(* variant: no zero-length packet follows a full one *)
DapInWithoutZlp ==
  /\ inArmed \in ResBlocks
  /\ answered' = Append(answered, resData[inArmed])
  /\ inArmed' = Idle
  /\ sendDone' \in {sendDone, TRUE}
  /\ UNCHANGED <<reqFree, reqMb, resFree, resMb, doAbort, reqData, resData,
                 reqVars, procVars, resPc, resBlk, epOpen, outDma, outArmed,
                 sent, aborts, abortMark, configs>>

(* An IN token: a response of DAP_PACKET_SIZE bytes is followed by a       *)
(* zero-length packet, any other one completes the transfer.  Only this    *)
(* callback looks at the size, so it is chosen here.                       *)
DapIn ==
  /\ \/ /\ inArmed \in ResBlocks
        /\ answered' = Append(answered, resData[inArmed])
        /\ \/ inArmed' = Zlp /\ UNCHANGED sendDone
           \/ inArmed' = Idle /\ sendDone' = TRUE
     \/ /\ inArmed = Zlp
        /\ inArmed' = Idle /\ sendDone' = TRUE
        /\ UNCHANGED answered
  /\ UNCHANGED <<reqFree, reqMb, resFree, resMb, doAbort, reqData, resData,
                 reqVars, procVars, resPc, resBlk, epOpen, outDma, outArmed,
                 sent, aborts, abortMark, configs>>

(* SET_CONFIGURATION: usbd_ep_open leaves both endpoints answering NAK,    *)
(* then usb_transfer_start takes a block without waiting and arms it.      *)
Configure ==
  /\ configs < MaxConfigs
  /\ configs' = configs + 1
  /\ epOpen' = TRUE /\ inArmed' = Idle
  /\ IF reqFree = {}
       THEN cur' = Null /\ outArmed' = FALSE /\ UNCHANGED <<reqFree, outDma>>
       ELSE \E b \in reqFree :
              /\ reqFree' = reqFree \ {b}
              /\ cur' = b /\ outDma' = b /\ outArmed' = TRUE
  /\ UNCHANGED <<reqMb, resFree, resMb, doAbort, reqData, resData, reqPc,
                 reqNew, reqSem, procVars, resVars, sent, aborts, abortMark,
                 answered>>

(* A bus reset clears the controller's endpoint state and tells nobody:    *)
(* usbd_event_handler ignores USBD_EVENT_RESET.                            *)
BusReset ==
  /\ epOpen /\ configs < MaxConfigs
  /\ epOpen' = FALSE /\ outDma' = Null /\ outArmed' = FALSE
  /\ inArmed' = Idle
  /\ UNCHANGED <<reqFree, reqMb, resFree, resMb, doAbort, reqData, resData,
                 reqVars, procVars, resVars, hostVars>>

-----------------------------------------------------------------------------
ReqThread  == ReqTake \/ ReqDispatch \/ ReqSend \/ ReqAlloc \/ ReqStore \/ ReqArm
ProcThread == ProcRecv \/ ProcAlloc \/ ProcHandle \/ ProcTransfer \/ ProcFree
              \/ ProcSend
ResThread  == ResRecv \/ ResInit \/ ResWrite \/ ResWait \/ ResRelease
Threads    == ReqThread \/ ProcThread \/ ResThread

(* The device as it is used: configured once after power-up.               *)
Next == \/ Threads \/ HostRequest \/ HostAbort \/ DapIn
        \/ configs = 0 /\ Configure

Spec == Init /\ [][Next]_vars

(* The same device under a host that resets the bus and configures the     *)
(* device again.                                                           *)
NextAgain == Threads \/ HostRequest \/ HostAbort \/ DapIn \/ Configure
             \/ BusReset

SpecAgain == Init /\ [][NextAgain]_vars

(* The scheduler runs every thread that is ready once the threads of       *)
(* higher priority block, and each of the three blocks after finitely many *)
(* steps of the others.                                                    *)
ThreadFairness == WF_vars(ReqThread) /\ WF_vars(ProcThread) /\ WF_vars(ResThread)

(* A host that waits for responses keeps sending IN tokens.                *)
HostReads == WF_vars(DapIn)

FairSpec      == Spec /\ ThreadFairness
FairSpecAgain == SpecAgain /\ ThreadFairness /\ HostReads

-----------------------------------------------------------------------------
(* Properties                                                              *)

Elems(q) == {q[i] : i \in 1..Len(q)}
Distinct(q) == \A i, j \in 1..Len(q) : q[i] = q[j] => i = j
InFlight == sent - Len(answered)

(* Every variable stays in its range: mailboxes within their size, program *)
(* counters and locals consistent with the threads' code.                  *)
TypeOK ==
  /\ reqFree \subseteq ReqBlocks /\ resFree \subseteq ResBlocks
  /\ reqMb \in Seq(ReqBlocks \cup {Null}) /\ Len(reqMb) <= PacketCount
  /\ resMb \in Seq(ResBlocks) /\ Len(resMb) <= PacketCount
  /\ reqSem \in Nat /\ sendDone \in BOOLEAN /\ doAbort \in BOOLEAN
  /\ cur \in ReqBlocks \cup {Null} /\ reqNew \in ReqBlocks \cup {Null}
  /\ reqData \in [ReqBlocks -> Request] /\ resData \in [ResBlocks -> Response]
  /\ reqPc \in {"take", "dispatch", "send", "alloc", "store", "arm"}
  /\ procPc \in {"recv", "alloc", "handle", "transfer", "free", "send"}
  /\ procReq \in ReqBlocks \cup {Null} /\ procRes \in ResBlocks \cup {Null}
  /\ procLeft \in 0..MaxTransfers
  /\ resPc \in {"recv", "init", "write", "wait", "free"}
  /\ resBlk \in ResBlocks \cup {Null}
  /\ epOpen \in BOOLEAN /\ outArmed \in BOOLEAN
  /\ outDma \in ReqBlocks \cup {Null}
  /\ inArmed \in ResBlocks \cup {Idle, Zlp}
  /\ sent \in Nat /\ aborts \in Nat /\ abortMark \in Nat /\ configs \in Nat
  /\ answered \in Seq(Response)

(* The block cur_req_buffer names belongs to the request thread except     *)
(* while it has been handed to the mailbox and not yet been replaced.      *)
OwnCur == IF reqPc \in {"alloc", "store"} THEN {} ELSE {cur} \ {Null}

(* Every request block is in exactly one place: free, in the mailbox, with *)
(* the process thread, or with the request thread (usb_main.c:376-449).    *)
(* None is lost and none is handed out twice.                              *)
ReqOwnership ==
  /\ Distinct(reqMb)
  /\ reqFree \cap Elems(reqMb) = {}
  /\ procReq \notin reqFree \cup Elems(reqMb)
  /\ reqNew \notin reqFree \cup Elems(reqMb) \cup ({procReq} \ {Null})
  /\ OwnCur \cap (reqFree \cup Elems(reqMb) \cup {procReq, reqNew}) = {}
  /\ reqFree \cup Elems(reqMb) \cup OwnCur \cup ({procReq, reqNew} \ {Null})
       = ReqBlocks

(* The same for the response blocks; it survives bus resets and repeated   *)
(* configurations, which only touch the request side.                      *)
ResOwnership ==
  /\ Distinct(resMb)
  /\ resFree \cap Elems(resMb) = {}
  /\ procRes \notin resFree \cup Elems(resMb)
  /\ resBlk \notin resFree \cup Elems(resMb) \cup ({procRes} \ {Null})
  /\ resFree \cup Elems(resMb) \cup ({procRes, resBlk} \ {Null}) = ResBlocks

(* The controller never writes into a block somebody else reads and never  *)
(* sends from a block somebody else may overwrite.                         *)
DmaIsolation ==
  /\ outArmed => /\ outDma \in ReqBlocks
                 /\ outDma \notin reqFree \cup Elems(reqMb) \cup {procReq}
  /\ inArmed \in ResBlocks =>
       inArmed \notin resFree \cup Elems(resMb) \cup {procRes}

(* A DAP_Transfer that stops early was stopped by an abort the host sent   *)
(* after it: an abort never reaches a request sent later, because the      *)
(* handler clears do_abort when a DAP_Transfer starts (dap_main.c:1888).   *)
NoSpuriousAbort ==
  \A i \in 1..Len(answered) :
    answered[i].cut => answered[i].id <= abortMark

(* Responses the host has read, and those the response thread has in hand  *)
(* or in its mailbox.                                                      *)
InHand == IF resPc \in {"init", "write"} \/ inArmed \in ResBlocks THEN 1 ELSE 0
Responded == Len(answered) + InHand + Len(resMb)

(* The request thread finds no free block, and so keeps the OUT endpoint   *)
(* shut (usb_main.c:390), only while PacketCount requests wait for their   *)
(* response to be made: responses the host is slow to read do not count,   *)
(* however many are in flight.  Therefore a host with fewer in flight than *)
(* the PacketCount DAP_Info names (dap_main.c:140) is never shut out.  One *)
(* with just that many is, abort and all, while none of them is served.    *)
FlowControl ==
  (reqPc = "alloc" /\ reqFree = {}) => sent - Responded >= PacketCount

(* A full mailbox never holds up a thread: its sender always has a block   *)
(* of the pool, so at most PacketCount - 1 are queued.                     *)
MailboxesHaveRoom ==
  /\ reqPc = "send" => Len(reqMb) < PacketCount
  /\ procPc = "send" => Len(resMb) < PacketCount

(* With the ids of the responses, the pipeline is a first-in first-out     *)
(* service that holds at most two pools of requests.                       *)
Service == INSTANCE DapService WITH
             Window   <- 2 * PacketCount,
             accepted <- sent,
             answered <- [i \in 1..Len(answered) |-> answered[i].id]
ServiceSpec == Service!Spec

(* Every request the device acknowledged is answered, when the host reads  *)
(* (usb_main.c:306-449): as responses come in order, one stays unanswered  *)
(* only if from some time on requests are open and no response is read.    *)
AllAnswered ==
  HostReads => \/ []<>(Len(answered) = sent)
               \/ []<><<Len(answered') > Len(answered)>>_vars

(* usb_transfer_start "USB start to transfer" (usb_main.c:703): a request  *)
(* acknowledged after the last configuration is answered, whatever         *)
(* happened before it.                                                     *)
AnsweredOnceConfigured ==
  \A n \in 1..MaxRequests :
    [](configs = MaxConfigs /\ sent < n =>
         [](sent >= n => <>(\E i \in 1..Len(answered) : answered[i].id = n)))

(* A configured device with less than PacketCount requests in flight gets  *)
(* its OUT endpoint ready, even when the host reads no response.           *)
KeepsAccepting ==
  (configs > 0 /\ InFlight < PacketCount)
    ~> (outArmed \/ InFlight >= PacketCount)

(* However many requests are in flight, also with all the blocks in use,   *)
(* the endpoint of a configured device opens again when the host reads the *)
(* responses: an abort that was shut out gets in (usb_main.c:382-397).     *)
OpensAgain == HostReads => (configs > 0 ~> outArmed)

=============================================================================

# CherryLink in TLA+

CherryLink is the firmware of a CMSIS-DAP debug probe on a CH32F205: a USB high
speed device that runs debug commands on SWD or JTAG and, beside that, a CDC ACM
serial port. It runs on RT-Thread, with the CherryUSB device stack. This
directory holds its specification in TLA+, the TLC configurations that check it
on small instances, and TLAPS proofs for all instances.

## 1. The system

Seven threads and a handful of interrupts share data through kernel objects and,
in the serial port, without any lock.

| Component | State | Operations | Talks to |
|---|---|---|---|
| DAP packet pipeline (`application/usb_main.c`) | two pools and two mailboxes of `DAP_PACKET_COUNT`, one semaphore, one completion, `cur_req_buffer` | `dap_out_callback`, `dap_in_callback`, `usb_dap_req_thread`, `dap_process_thread`, `usb_dap_res_thread`, `usb_transfer_start` | USB driver by callbacks, DAP commands by calls |
| Serial port, USB to USART (`application/usb_main.c`) | ring buffer of 4096 bytes, `usb_cdc_rev_buff`, two semaphores, two completions | `usbd_cdc_acm_bulk_out`, `usb_cdc_rev_thread`, `usb_cdc_usb2usart_thread`, `USART_DMA_TX_HANDLE`, `usbd_cdc_acm_set_line_coding` | USB driver, TX DMA channel |
| Serial port, USART to USB (`application/usb_main.c`) | ring buffer filled by a circular DMA channel, `remaining_cnt`, two semaphores, one completion, `usb_cdc_send_buff` | `USART_IRQ_HANDLE`, `USART_DMA_RX_HANDLE`, `usart_cdc_rev_thread`, `usb_cdc_usart2usb_thread`, `usbd_cdc_acm_bulk_in`, `usbd_cdc_acm_set_line_coding` | RX DMA channel, USB driver |
| Ring buffer (`rt-thread/ipc/ringbuffer.c`, three functions of `usb_main.c`) | two indices with mirror bits, the bytes | put, put_force, get, peek, putchar, getchar, reset, the index updates for DMA | both directions of the serial port |
| Completion (`rt-thread/ipc/completion.c`) | a flag and a list of waiters | init, wait, done | every thread that waits for hardware |
| Kernel objects (`rt-thread/src/ipc.c`, `mempool.c`) | counters, queues, free lists, waiters | take, release, send, recv, alloc, free, reset | all threads |
| Scheduler, threads, timers (`scheduler_up.c`, `thread.c`, `timer.c`, `clock.c`) | a queue for each priority, the state of each thread, the sorted timer list, the tick, the scheduler lock | schedule, suspend, resume, sleep, yield, tick, start, exit, lock | all threads |
| Heap (`mem.c`, `kservice.c`) | items in a row, each used or free, the lowest free one | malloc, free, realloc | all threads |
| DAP commands (`cmsis-dap/dap_main.c`, `dap_vendor.c`) | `dap_info`: settings of the wire, `do_abort` | `dap_request_handler` and one function a command | process thread, wires |
| Wires (`cmsis-dap/swd.c`, `jtag.c`) | settings; during a call the phase, the retries, the bits sent and read | `dap_swd_read`, `dap_swd_write`, `dap_jtag_ir`, `dap_jtag_dr`, sequences | pins |
| USB driver and core (`usb_dc_usbhs.c`, `usbd_core.c`) | endpoints: open, armed, toggles, length left; the control transfer of endpoint 0, with its toggle and DMA address | `usbd_ep_open`, `start_read`, `start_write`, the interrupt handler | application callbacks |
| Bootloader (`bootloader/`) | update state machine, write address; unfinished, see section 5 | OUT callback, main loop | flash |
| Board support (`board/`) | registers | configuration | hardware |

What is hard here: three threads that hand blocks around while the interrupt
fills one of them; an abort that overtakes the requests before it; endpoints
that go away under a waiting thread; ring indices that two threads read and
write without a lock, with one thread able to preempt the other at each
instruction; completions initialised, waited for and completed in racing order;
a DMA channel that never stops; wake-ups that race with timeouts and with other
threads; reads that bring their value one access late; a wire where probe and target must
agree on every clock; USB packets repeated since an acknowledge got lost. `PROJECT.json` lists each hazard at its line.

What makes each correct:

- *Pipeline*: each block has one owner; the controller only touches blocks
  nobody else uses; one answer for each request, in order; an abort cuts only
  what came before it; the endpoint opens again.
- *Ring*: a bounded queue, whatever the calls.
- *Serial port*: bytes come out once, in order and complete; every wait ends.
- *DAP transfers*: each value in the response is the one its request read, each
  request is done at most once, and after an abort the next command is found.
- *Wires*: probe and target stay in step; the result says what the target did.
- *Settings*: the connected wire has the settings last given, whenever they came.
- *Kernel*: a thread is on the lists its state says, the highest ready one runs, no
  wake-up is lost, timers fire in time; the heap has no
  overlaps, no gaps and no two free neighbours.
- *USB*: a request is carried out once, with all its data; bulk data is neither
  lost nor repeated; no transfer hangs.

## 2. The modules

| Module | Models |
|---|---|
| `DapPipeline` | the three threads, the two callbacks, `usb_transfer_start` and the bus reset |
| `DapService` | what the pipeline promises: accept and answer, first in first out, in a window |
| `DapPipelineProofs` | theorems on `DapPipeline` |
| `RingOps` | the ring's record and the operators of `ringbuffer.c` on it |
| `RingBuffer` | any sequence of calls on one ring |
| `BoundedFifo` | what a ring is for: a bounded queue |
| `RingOpsProofs` | lemmas on the operators of `RingOps` |
| `RtCompletion` | the completion's record and operators |
| `CdcUsbToUsart` | host to USART, on `RingOps` and `RtCompletion` |
| `CdcUsartToUsb` | USART to host, on the same two |
| `CdcUsbToUsartProofs`, `CdcUsartToUsbProofs` | theorems on these two |
| `DapTransfer` | one `DAP_Transfer` or `DAP_TransferBlock`, on either port, with an abort at any moment |
| `DapSession` | the commands that change settings and pins |
| `SwdWire` | one `dap_swd_read` or `dap_swd_write`, clock by clock, with a target |
| `JtagScan` | one access to a device of a JTAG chain, clock by clock, with the TAP controllers |
| `DapSequence` | raw sequences, clock by clock |
| `DapPacket` | one packet of commands, as `dap_request_handler` walks through it |
| `DapCommands` | these six, for one run |
| `DapCommandsProofs` | theorems on `DapSession`, `SwdWire` and `DapTransfer` |
| `RtKernel` | scheduler, threads, timers and waiting lists: one operator for each C function, on a record |
| `RtIpc` | threads that use a semaphore, mailbox, pool or completion on that kernel, with tick and interrupts |
| `RtMem` | the heap |
| `RtSystem` | `RtIpc`, `RtMem` and `RingBuffer`, for one run |
| `RtSystemProofs` | theorems on `RtKernel` and `RtIpc` |
| `RtStorageProofs` | theorems on `RtMem` and `RingBuffer` |
| `UsbControl` | control transfers: driver, device core and a host |
| `UsbBulk` | bulk transfers: driver, a client and a host |
| `UsbDevice` | the two, for one run |
| `UsbDeviceProofs` | theorems on the bulk and the control transfers |
| `MC...` | constants for TLC |

`DapCommands`, `RtSystem` and `UsbDevice` put modules side by side that meet only through
values each takes as a constant or a choice: the wire's answer is a choice in
`DapTransfer`, the settings of `DapSession` are the constants of `SwdWire` and `JtagScan`,
and so on. One part runs at a time, so the state space is their sum.

### How the models read the code

**Steps.** An action is what a thread does between two points where somebody
else can notice: kernel calls, which run with interrupts off, and accesses to
shared data. The `...Pc` variables name the next point. A call that blocks is
enabled only when it would return. In this firmware every kernel object has
one waiter, so handing an object over to the waiting thread (RT-Thread) and
testing it when the thread runs (the model) cannot be told apart. The
exception is the completion, whose re-initialisation forgets a waiter; there the
waiter is explicit (`RtCompletion`). `RtIpc` looks at the other side: what the kernel
does so that these calls can be taken for single steps, with several waiters and
timeouts.

**Priorities.** In `DapPipeline` any thread may run at any time: more
interleavings than the priorities 3, 3 and 5 allow. In the serial port the lower
thread has the guard `Idle2Usart` or `Idle2Rev`, true when the higher one
waits, because there the priorities decide what is possible: without them the
findings below would be mere artefacts.

**Data.** A request is its number and its kind (`transfer`, `other`, `abort`),
a response the number of the request and whether the loop was cut short. Bytes
of the serial port are numbered as they come. The test for a full packet in
`dap_in_callback` is a choice, as nothing else looks at the size. Block
contents survive until overwritten, so a block freed too soon shows as a wrong
answer.

**The kernel.** `RtKernel` follows the control blocks: state, yield mark, queues, the
bit group of non-empty priorities, timer list, waiting lists, error. What runs
with interrupts off is one step, and `rt_schedule`, which the calls make after interrupts are
on again, is a step of its own (`CallSchedule`), so interrupts come in between. Two loops run with
interrupts off: `rt_timer_check` over the timers that are due, and `_ipc_list_resume_all` over
the waiters of an object that is reset. A round of a loop is a step (`CheckTimer`, `ResumeOne`) and
`loop` says that one runs, so that nothing else comes in between and yet each state in the middle
is looked at.
The tick wraps at `TickWidth`; `Half` is `RT_TICK_MAX / 2`, which is below half of that. How much of a time
slice is left is a choice at each tick. `error` is forgotten when a call returns, as each wait
sets it first. Nobody waits with the scheduler locked, and one thread at a time
waits for a completion, as the code asserts.

**The heap.** Items at byte offsets with `next`, `prev` and a used bit; sizes
are those of the build (`RT_ALIGN_SIZE` 8, item 12 bytes, `MIN_SIZE` 12). What is
in a block is not followed. `rt_enter_critical` around each call makes it one step.
`used` is `parent.used`: the number of bytes that used items take, their heads included.

**The wires.** The probe is a list of phases with a number of clocks each, as the C code is;
the target follows the SWD protocol with a list of its own, and answers what
it likes. The quick and the slow functions differ in delays only. A bit of JTAG is
where it came from (`<<"wr", 5>>`), so a bit that arrives in the wrong place
shows. The hardware shifts whole bytes with a constant TMS (`DrTmsAt`); the shift of an `int`
by 34 and more in `dap_jtag_idcode` may give what it means or zero (`undef`).

**Transfers.** A packet is a list of cells, a header or a word, so that a request
pointer that loses its place shows. A value is the number of the access that read it.

**Sequences.** A bit of the host is its number and a bit of the target its clock, so lost, doubled and
shifted bits show. A whole byte over SPI is one step, a single clock another.

**Packets.** `DapPacket` keeps the two pointers of `dap_request_handler` and what they pass over: a
command is a record with the fields its length depends on, a byte of the response the command it
belongs to, what it is and, for counts and status, its value. `Size` and `AnswersEnd` are the host's
view of both. How a transfer ends is a choice; `odd` notes that one of the cases
the properties except has happened.

**Control transfers.** A packet is a set of positions in the data; what a SETUP
packet overwrites depends on where `UEP0_DMA` points. A token and its interrupt are
one step, as the controller answers NAK until the flag is cleared. The host
repeats a packet whose acknowledge it missed or sees the repetition, gives transfers
up and resets the bus.

**The unlocked ring.** The mirror bit and the index are bit-fields of one word,
and C lets the compiler load them once or twice and store them together or one
by one. In `CdcUsartToUsb` each of these accesses is a step of its own; a build
that joins two of them behaves like one that runs them in one go, so the run
holds for every build. `CdcUsbToUsart` does not hold for every build, so the
constant `Piecemeal` says that `rt_ringbuffer_data_len` loads the indices again
after `rt_ringbuffer_status` and that the mirror bit is stored first. With it, TLC
finds `NothingDropped` violated: the preempting thread sees a full ring that holds two bytes,
and sends bytes nobody put. The run is of a build that joins the accesses.
`IndexSpan` stands for the 2^31 values of an index, which TLC could not
represent; any number well above the size shows the same.

**USB.** An endpoint is open or not, and armed with something or not. A bus
reset closes both endpoints, as `USBHS_IRQHandler` does, and tells nobody, as
`usbd_event_handler` ignores it. The DMA address of the OUT endpoint is a variable of
its own: it is not always `cur_req_buffer`.

**Outside.** The host sends what the endpoint acknowledges. The RX channel
stores a byte at a time, raises its half and full interrupts, and the USART
its idle interrupt; each stays pending until served.

## 3. The runs

| Run | Shows | Bounds |
|---|---|---|
| `dap_safety` | block ownership on both sides, `DmaIsolation`, `NoSpuriousAbort`, `FlowControl`, `MailboxesHaveRoom`; the pipeline implements `DapService`: one answer for each request, in order, with a window of two pools | 2 blocks a pool, 5 requests, 1 abort, loops of up to 2 transfers |
| `dap_live` | each acknowledged request is answered, and the OUT endpoint opens again, when the host reads; with less than `PacketCount` in flight it opens although the host reads nothing | 4 requests, which take all blocks of both pools, and 1 abort; transfers of one step |
| `usb2usart` | `SentInOrder`, `NothingDropped`, `RingDrains`, for a build that is not piecemeal | ring of 4, packets of up to 2, 5 packets |
| `usart2usb` | `DeliveredInOrder`, `NothingLost`, `BufferExclusive`, `AllDelivered`; the order of the bytes up to a change of the line coding, the buffer also after it | ring of 4, packets of up to 2, 5 bytes, 1 change |
| `dap_commands`: `SwdWire` | `InStep`, `TargetLeftIdle`, `DoneOnce`, `WaitIsRetried` | 4 requests, 4 words, turnaround 1 and 3, idle 0 and 2, retries 0 and 2 |
| `dap_commands`: `JtagScan` | `ScansExact` | 1, 2 and 4 devices, instructions of 1 and 4 bits, idle 0 and 24, 1 retry |
| `dap_commands`: `DapSequence` | `SequenceExact` | nine lengths, at and next to whole bytes, 64 and the longest |
| `dap_commands`: `DapTransfer` | `AnswersInOrder`, `ExecutedOnce`, `AbortIsClean` | every list of up to 3 requests, match retries 0 and 1 |
| `dap_commands`: `DapSession` | `SettingsInForce` | every sequence of commands, raw sequences and accesses, few values of each setting |
| `dap_commands`: `DapPacket` | `CommandsFound`, `AnswersFound` | 21 commands in 35 forms; packets of up to 3; a response of 24 bytes |
| `rt_thread`: `RtIpc` | `ThreadsAccounted`, `HighestRuns`, `TimersInTime`, `NoWakeupLost`, `MailInOrder` | 2 threads of equal and of different priority, main and idle; waits of 0, 2 ticks and for ever (not for ever for a block, not of 2 ticks for a mailbox); a tick of 7 values; mailbox and pool of 2; 2 messages, which are symmetric |
| `rt_thread`: `RtMem` | `HeapSound` | 136 bytes: up to six items; 4 sizes |
| `rt_thread`: `RingBuffer` | `FifoSpec`: the ring implements the bounded queue; `MirrorInv` | 3 bytes of 2 values, all packets of up to 2 and those of up to 4 that alternate |
| `usb_device`: `UsbControl` | `ControlExact`, `ControlProceeds` | packets of 2, buffer of 4, transfers of up to 3 packets |
| `usb_device`: `UsbBulk` | `BulkExact` | packets of 2, transfers of up to 4 bytes, 3 messages |

The bounds are small because the interesting cases are near: two blocks a pool
are the fewest with one in use and one in flight, five requests fill both
pools and reuse a block, a ring of two packets has both indices pass the end
within five packets, and five bytes take the channel past the end. Three requests are
enough for a posted read, what comes between, and what collects its value; chains of 1, 2
and 4 place the device first, last and inside, and at all offsets that matter for
the whole bytes; a tick of 7 values wraps within four waits; six items are twice what
`plug_holes` looks at. Control transfers of one and of several packets, full and short
last packets, and lengths above the buffer take each branch of the three handlers. The proofs
remove the bounds where they exist.

`KeepsAccepting` assumes nothing of the host; `AllAnswered` and `OpensAgain` assume, as a
hypothesis, that it reads.
The runs of the application and of the commands say `CHECK_DEADLOCK FALSE`: the bounds on what
the host sends, or the end of the call, let those models come to rest. `rt_thread` and
`usb_device` never stop, and TLC checks that.

### Findings

Five runs violate what the code says of itself; the traces are short.

| Run | What happens |
|---|---|
| `dap_busreset` | a reset with a response in the endpoint leaves `usb_dap_res_thread` waiting, whatever is configured later |
| `usb2usart_fullwait` | `full_completion` is initialised after the test it belongs to; a completion in between is lost and the host's bytes stop |
| `usb2usart_coding` | a line coding change resets the ring inside `rt_ringbuffer_put`, which then stores an index outside the buffer |
| `dap_packet_length` | `DAP_TransferBlock` without a port, or for a JTAG device that is not there, writes count and acknowledge but does not count them: the response ends after the command's id, and in a packet of several commands the next answer takes their place. `DAP_Transfer` does count them |
| `kernel_yield` | `rt_schedule` clears the yield mark before the thread is put back into its queue, so a thread that gives the processor up goes first, not last: two threads of a priority take turns and a third starves. The probe has four threads of priority 3 and three of priority 5, but each of them blocks before its slice of 10 ticks is over, so it takes a busy line to see it |

The direction from the USART is safe from piecemeal accesses because the
preempting thread only moves the write index forward, which can make a
reader's answer old but not wrong.

Seen while modelling, without a run of its own, since no line of the repository says
otherwise or the property is stated around it:

- *Pipeline*: `DAP_Info` names `PacketCount` (`dap_main.c:140`), but with just that many requests in
  flight and none of them served `usb_dap_req_thread` waits for a block with the OUT endpoint shut
  (`usb_main.c:390`): an abort gets in only after the first is done. `FlowControl` says that this is the only case,
  `OpensAgain` that it ends. Every further `SET_CONFIGURATION` takes a block of the request pool and loses the
  former one (`usb_main.c:709`). An abort that comes before its `DAP_Transfer` begins is cleared
  (`dap_main.c:1888`), and `DAP_TransferBlock` never looks at it.
- *Serial port*: a change of the line coding initialises completions threads wait for
  (`usb_main.c:739`), so those are forgotten, and leaves the TX channel disabled
  (`board/ch32f205_dap.c:620`).
- *SWD*: with forced data phases `temp` ends at zero, so a WAIT is not retried and reported as an
  acknowledge of zero (`WaitIsRetried`). The idle cycles of a write drive the parity
  bit, those of a read nothing: a high line is a start bit (`TargetLeftIdle`).
- *JTAG*: idle cycles above 24 overrun the 64-bit buffers (`Fits`; `dap_swd_config` clamps
  its own). `dap_jtag_idcode` shifts an `int` by 34 and more, and may leave the TAPs in Shift-DR.
- *Transfers*: after an error the skip loop may read one header too many on JTAG, or start in
  the middle of a request when SWD failed before its word: the next command of the packet is not found
  (`AbortIsClean` excludes errors). A retry count below 255 is raised to it.
- *Packets*: a `DAP_Transfer` that was cut short by an abort or an error reports as many transfers as
  were asked for, since the loop that reads over the rest counts them (`dap_main.c:1104`).
  `DAP_HostStatus` for a light it does not know takes one byte of two, `DAP_SWJ_Sequence` of more than
  64 bits over JTAG sends 64 and takes no more, and a block of no words does not take its request
  byte (over SWD it answers the count of the command before): the next command of the packet is not found.
  The sequences clock the pins whatever port is connected and then answer an error. A sequence of JTAG calls
  `jtag_control.jtag_rw` untested (`jtag.c:453`), which is null until JTAG was first configured: the probe
  faults in the middle of the packet (`CallNull`). The same holds for the bits over whole bytes of a sequence of SWD.
- *Settings*: `speed_khz` has 16 bits, so 65536 kHz is stored as zero and the next
  `DAP_Connect` leaves the wire unconfigured. A `DAP_Connect` to an unknown port and
  `DAP_SWJ_Pins` leave pins driven while the port is disabled (`loose`), and so does a raw sequence of SWD, which
  drives SWCLK whatever port is connected. The two clocks are different pins: `DAP_SWJ_Pins` drives SWCLK, which a
  disconnect from JTAG does not release. A sequence of SWD under JTAG leaves TMS an input.
- *Control endpoint*: `UEP0_DMA` points back at `udc.setup` only after a complete status stage. After a
  refused transfer with data from the host, or one given up, the next SETUP packet is stored elsewhere
  and the old request handled again, until the bus is reset (`clean`). `out.actual_xfer_len`
  stays from an earlier transfer, so a lost acknowledge before an OUT status carries the request
  out again, although `usbd_core.c:1124` says "do nothing".
- *Bulk endpoints*: clearing a halt, and a further configuration, reset the toggle of the controller
  but not `epx_tx_data_toggle`; on an OUT endpoint the first turns AUTOTOG off (`sound`).
- *Pools*: `rt_mp_alloc` deducts the time it has waited with interrupts on (`mempool.c:379`) and disables
  them only for the next round of its loop: ticks in between are not deducted, so a call that has to wait again
  may wait longer than it was asked to (`MpAgain`, `MpRetries`). Mailboxes do it with interrupts off.
- *Heap*: a `realloc` to a size too close to the block's moves it and fails if the
  heap is full, although the block would do.

### Fairness

`ThreadFairness` gives each thread weak fairness: the scheduler runs the highest
ready thread, each thread blocks after finitely many steps, and so the
lower ones run. `HostReads` says that a host waiting for a response polls the
endpoint. In the serial port `Usart` and the interrupts are weakly fair because
hardware finishes what it started, and `RxSilence` because a line without bytes
falls silent. `NotLapped` assumes that `usart_cdc_rev_thread` (priority 3) runs
at least once in a lap of 4096 bytes, and `KeepsUp` that the host reads as fast
as the line sends. Without the second assumption the circular channel
overwrites the oldest bytes before `rt_update_write_index` drops any.

### Mutants

Definitions marked `variant` are plausible mistakes: a block that is not given
back, a wait that returns at once, a mirror bit forgotten. `PROJECT.json` pairs
each property of each passing run with a variant that breaks it.

## 4. The proofs

TLAPS proves, for all values of the constants:

- **`TypeCorrectAgain`, `ResponsesOwned`** (`DapPipelineProofs`): from `SpecAgain`,
  so under any resets and configurations. The inductive invariant `ResInv` is the
  type invariant with the ownership of response blocks and the range of
  the locals at each program counter: `ResOwnership` alone says nothing on which
  thread holds a block when. The length of a mailbox follows from its entries
  being distinct members of a finite pool, one of whose blocks is elsewhere.
- **`RequestsOwned`, `DmaIsolated`, `RoomInMailboxes`**: from `Spec`. `ReqInv` adds
  that the endpoint, the semaphore and the request thread share one token (either the
  endpoint is armed, or the semaphore is up, or the thread is at work): that is why
  nobody else can touch `cur_req_buffer`. A second configuration duplicates the
  token, so the theorem is not one of `SpecAgain`.
- **`ImplementsService`** (`DapPipelineProofs`): `LineInv` says that the
  requests not yet answered stand in a line from the host to the endpoint, each
  stage holding a run of consecutive numbers. That the next answer is the one the service gives, and the
  window, follow from the line and its length.
- **`AbortsAreMeant`, `FlowIsControlled`** (`DapPipelineProofs`): while an abort waits in
  `cur_req_buffer` the endpoint is shut, so nothing was sent after it (`AbortPending`), and the
  transfer that runs is older by `LineInv`. If no request block is free, all are in the part of the line before the
  responses, hence as many requests have no response yet. A host with fewer in flight is therefore not shut out; nothing is
  claimed of one with exactly `PacketCount`, which the code does shut out.
- **`AlwaysMirrored`, `TypeCorrect`, `ImplementsFifo`** (`RtStorageProofs`): the first and the last
  from `Spec` of `RtSystem`, the second from `RingSpec`, which is the ring by itself. Each
  operator moves an index by at most the space or the data, hence keeps
  `Mirrored`; lemmas on `Contents` say what a write appends, a read removes, and what
  an overwriting write leaves. With them each call is a step of `BoundedFifo`. The lemmas
  are in `RingOpsProofs`, and the serial port's proofs cite them too.
- **`BytesInOrder`, `BytesKept`** (`CdcUsbToUsartProofs`): from `Spec` with `~Piecemeal`, the
  build that joins the accesses to an index. With `Piecemeal` the property is false (section 2),
  so the hypothesis is the weakest one. The invariant follows the bytes: those in the packet buffer
  are the last received, between copy and index they lie behind the write index too
  (`CopyAhead`), room once seen stays since only the other thread takes bytes out
  (`RoomSeen`), and the piece of the channel stays at the head of the ring until it is sent.
- **`BufferIsExclusive`** (`CdcUsartToUsbProofs`): from `Spec`, after any changes of the line coding
  as well: the completion is armed exactly while the controller has the buffer.
- **`BytesInOrder`, `BytesKept`** (`CdcUsartToUsbProofs`): until the line coding changes, as the properties
  say. `LineInv` places the channel (`Place`: CNTR, with 0 for a fresh `remaining_cnt`), says that the
  bytes from the read index to the channel are the next ones in order, of which the
  ring's length is a part the thread has accounted for, and what a length read in several accesses may
  be: old, never too much. Between the two stores of the read index the mirror bit is behind;
  `Settled` is the ring as it will be.
- **`BulkIsExact`** (`UsbDeviceProofs`): from `Spec` of `UsbDevice`. This is an alternating-bit
  argument on each endpoint: if the toggles of device and host agree, the host has all before the
  packet, and if they differ it has the packet too, or the device has (`InRepeats`, `OutRepeats`).
  `InTransfer` and `OutMeant` tie the lengths left to the ends of messages, so that an empty
  packet comes exactly after full ones. Halts, configurations and resets keep the invariant
  as far as `sound` says.
- **`ControlIsExact`, `ControlAlwaysProceeds`** (`UsbDeviceProofs`): from `Spec` of `UsbDevice`, for
  every packet size, buffer, length of a request and length of a descriptor. `ControlInv` says for each
  stage of the host what the device has ready. In the data stage to the host (`Sending`) the packet
  in the endpoint is the one the host waits for, or the host has it and the device missed the
  acknowledge; then the packet was a full one and, if nothing is left to send, the empty packet is
  still owed (`EmptyFollows`), since the host would otherwise be in the status stage. In the data stage
  from the host the data received so far lies in the buffer in place, `Stored` by the DMA behind
  what came before. `clean` is a hypothesis, as in the properties: the comment of `ControlExact` lists
  the six things it excludes, each of which the code does not provide for.
- **`SettingsStayInForce`** (`DapCommandsProofs`): for all values of the
  settings. The invariant `SessionInv` adds the ranges of the settings, that the pins driven without
  a port are among `loose` (what an unknown port, `DAP_SWJ_Pins` or a raw sequence of SWD switched on), and that a connected port drives only its own pins and those;
  one step for each command. The theorems of this module are of `Spec` of `DapCommands`.
- **`AlwaysInStep`, `LeavesTargetIdle`, `TransferDoneOnce`, `WaitRetriedToLimit`**
  (`DapCommandsProofs`): for every request, word, turnaround, number of idle clocks, retry limit and
  answer of the target. `InStep` compares the two lists at one clock and says nothing of what follows, so
  it is not inductive. `SwdInv` lists the stages a call can be in (`Stage`: asking, not heard, hearing,
  reading, writing, resting, refused, forced) with the rest of both lists and the number of clocks left
  of the phase. A clock leads from each stage to the same or a next one (`StageClock`), and each
  stage has both lists in step. That a bad parity is reported exactly when the target's bit was
  wrong rests on `ParityCounts`: the five folds of `get_parity_32bit` leave in bit 0 the parity of
  the number of ones. A fold by half keeps that parity for the lower half (`FoldParity`), since a bit set in
  both halves counts twice and drops out of the exclusive or.
- **`RequestsExecutedOnce`, `AbortsCleanly`** (`DapCommandsProofs`): for packets of any length and any
  `match_retry`. `TransferInv` says where the request pointer is at each program counter: at the header
  of a request until an access fails (`Pointer`), in terms of `HeaderCell`, the number of cells before a
  header. `Log` says that the requests before this one were done as often as the host allows and in
  order, and `Heard` what was begun when the abort came and that one request more is the most.
- **`IpcInvariant`** and from it **`EveryThreadAccounted`, `HighestAlwaysRuns`, `TimersAlwaysInTime`,
  `NoWakeupEverLost`, `MailAlwaysInOrder`** (`RtSystemProofs`): from `Spec` of `RtSystem`, for any finite
  set of threads, any priorities, tick width, limit of a semaphore and size of a mailbox or pool. None of the
  five is inductive, and no two of them are: a wake-up is not lost because the waiter is on the list its call
  says, and the highest thread runs because whoever wakes one has `rt_schedule` still before it. `IpcInv` is
  the conjunction of
  - `Sound`, of the kernel alone: queues, group and lists agree with the states of the threads (each
    thread in one place), timers are sorted and belong to suspended threads. One lemma for each
    operator of `RtKernel` says what it does to a sound kernel. The order of timers is one of differences
    modulo `TickWidth`, which stays when the tick goes on as no timer is `Half` or more away;
  - `Wakeable`, `CurrentSound`, `CallsSound` and `LoopSound`: a suspended thread is on a list or has a timer; the
    current thread is suspended only on its way to `rt_schedule`; what a call still has to do; and
    who is in a loop;
  - `WaitersSound` and `TimedSound`: who is on a waiting list is in the call that belongs to it, and the timer
    of a waiting thread has what is left of its time to go;
  - `HighSound`: the current thread is the highest wherever it can run its own code;
  - `NoLoss` and `MailSound`: the value, entries and free blocks against the number of threads that have
    been woken and not yet looked (`Count`), and the cells against the messages.

  The steps are of few kinds (a call returns, goes on the list, wakes another, an interrupt wakes one, the
  tick, a round of a loop), each with a lemma about the kernel and the calls and one about the counts; the lemma of an
  action only says of which kind it is and what it does to the object.
- **`HeapAlwaysSound`** (`RtStorageProofs`): from `Spec` of `RtSystem`, for any alignment, size of the heap, of an
  item's head and of the smallest block, and any sizes that callers ask for. `HeapSound` alone is not
  inductive: that the search misses no item rests on `lfree`, and merging on every `prev`. `HeapInv` says
  - `Row`: from offset 0 on each item's `next` is the item behind it and that one's `prev` leads back, to
    `heap_end`, which counts as used. The items are a function on offsets, so the proof never runs along a list: to cut
    one item in two (`CutIs`, `SplitIs`) or to make one of two (`FuseIs`, `MergedIs`) leaves all others alone;
  - `Free`: no free item is below `lfree`, also while the free item below it is being merged away;
  - `Compact`: each item is `Settled`, used or in front of a used one. A block that is given back unsettles
    itself and the item before it (`Around`), which `plug_holes` settles: forward, then backward;
  - `Holds`: the items that are used are those the callers hold, each with the room asked for;
  - that `used` is the number of `Bytes` in used items. Items are disjoint intervals, so a block that is
    taken, cut or given back changes that number by its own length (`BytesMore`, `BytesLess`).

Assumed are only the named assumptions on constants: pools of `PacketCount`
blocks (at least one), a null pointer outside both, a ring of at least one byte and of a packet at
least, a heap of at least the smallest block and a multiple of the alignment, byte values that
include the numbers of the bytes sent (`BytesAssumption`), a read buffer of
whole packets, lengths of requests and descriptors that their unsigned types can hold
(`ControlAssumption`), settings in the ranges that `dap_swd_config` clamps them to (`SwdAssumption`),
a finite set of threads with `main` among them, and timeouts below `RT_TICK_MAX / 2`, as
`rt_timer_start` asks for.

Model-checked only:

- all liveness properties (`AllAnswered`, `KeepsAccepting`, `OpensAgain`, `RingDrains`, `AllDelivered`), as
  the prover has no rules for fairness;
- `ScansExact`, `SequenceExact` and `AnswersInOrder`: they compare what comes out with a list that is
  flattened, filtered or added up, and what such a fold gives for every input takes an induction over
  data that the provers cannot do;
- `CommandsFound` and `AnswersFound` of `DapPacket`: the sizes of commands and answers are sums over
  a packet, for the same reason.

## 5. What is left out, and the plan

Not modelled, and why:

- *Bootloader*. It is unfinished in this commit: the part of `Reset_Handler` that starts an update
  is commented out (`boot_main.c:44-62`), `usb_transfer_start` (`bootloader/usb_main.c:235`) is
  static and never called, so the OUT endpoint is never armed and the state machine stays in
  `BOOT_IDLE`; packets after the first are not stored (`usb_main.c:118-131`); and the address test of
  the flash functions refuses every page (`ch32f205_flash.c:62`, `121`). Every property of an
  update would be one of a program that is not there.
- *Wires*: the delays between edges. *Commands*: what `DAP_Info` answers, how long `DAP_Delay` waits.
- *Kernel*: mutexes, events, message queues and signals are not built (`rtconfig.h`). Deleting and
  detaching objects, changing a priority, `rt_thread_delay_until` and soft timers are not used by
  the probe. The object table, printing and the hardware start-up hold no state that threads share.
- *USB*: the error that `usbd_ep_start_read` and `usbd_ep_start_write` return for a buffer that is not aligned:
  the blocks of the pools and `usb_cdc_rev_buff`, `usb_cdc_send_buff` and `req_data` are, and descriptors lie where the
  linker puts them; the contents of descriptors; suspend and wake-up, which raise events nobody handles; the
  interrupt endpoint of the serial port, which is never written.
- *Board*: clocks, watchdog, backup registers: register access. Vendor headers are data.

What the plan has left:

1. `DapPipeline` on `RtIpc`'s objects, in place of counters and queues, by refinement.
2. Liveness of `RtIpc`: with time slices that are put in order, a ready thread of the highest priority
   runs.

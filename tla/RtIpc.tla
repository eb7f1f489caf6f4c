------------------------------- MODULE RtIpc -------------------------------
(* Threads that use a semaphore, a mailbox, a memory pool or a completion   *)
(* (ipc.c, mempool.c, ipc/completion.c), sleep, yield and lock the          *)
(* scheduler, with the tick and the interrupts of the devices between any   *)
(* two of their steps.  A step is what runs with interrupts off, a round of *)
(* a loop that does, or one call of rt_schedule.                            *)
EXTENDS RtKernel

CONSTANTS
    Objects,      \* which objects are looked at
    Timeouts,     \* for each object, those of its calls; 0 does not wait, -1 waits
                  \* for ever
    SemMax,       \* RT_SEM_VALUE_MAX
    Slots,        \* of the mailbox, in messages, and of the pool, in blocks
    Mails,        \* values of a message
    Sleepers      \* for each object, the threads that also sleep, yield and lock
                  \* the scheduler

ASSUME IpcAssumption ==
    /\ Objects \subseteq {"sem", "mailbox", "pool", "completion"}
    /\ Timeouts \in [Objects -> SUBSET (-1..Half - 1)]
    /\ SemMax \in Nat \ {0} /\ Slots \in Nat \ {0}
    /\ Sleepers \in [Objects -> SUBSET Threads]

VARIABLES
    k,         \* the kernel
    kind,      \* the object
    obj,       \* its fields
    ctx,       \* where each thread is in a call
    isr,       \* the tick handler, between the time slice and the timers
    loop,      \* the loop that runs with interrupts off: rt_timer_check's or
               \* that of a reset
    owed,      \* releases of the semaphore that no take has returned with
    mail       \* messages sent and not received, in order
ipcVars == <<k, kind, obj, ctx, isr, loop, owed, mail>>

Workers == Threads \ {Main}
AtUser == [pc |-> "user", op |-> "none", left |-> 0, spent |-> 0, value |-> 0]
Retried == {"send", "recv", "alloc"}     \* calls that may wait again

(* rt_sem_create(0), rt_mb_create, rt_mp_create, rt_completion_init.        *)
IpcInit ==
    /\ \E assigned \in Assignments : k = KernelInit(assigned)
    /\ kind \in Objects
    /\ obj = [value |-> 0, pool |-> [i \in 0..Slots - 1 |-> 0], in |-> 0, out |-> 0,
              entry |-> 0, free |-> Slots, held |-> 0, flag |-> FALSE]
    /\ ctx = [t \in Threads |-> AtUser]
    /\ isr = "none" /\ loop = "none" /\ owed = 0 /\ mail = <<>>

(* Thread t runs.                                                           *)
Runs(t) == k.current = t /\ isr = "none" /\ loop = "none"
At(t, pc) == Runs(t) /\ t \in Threads /\ ctx[t].pc = pc
User(t) == t \in Workers /\ At(t, "user")

(* The call returns.  The error of the thread is not read again before the  *)
(* next wait sets it, so it is forgotten here.                              *)
Return(t) ==
    /\ ctx' = [ctx EXCEPT ![t] = AtUser]
    /\ k' = [k EXCEPT !.error[t] = "ok"]
(* The call goes on with rt_schedule and then returns.                      *)
ReturnAfterSchedule(t, j) ==
    /\ ctx' = [ctx EXCEPT ![t] = [AtUser EXCEPT !.pc = "sched"]]
    /\ k' = [j EXCEPT !.error[t] = "ok"]
(* The call waits, for n ticks at most, in kernel j.                        *)
Waits(t, op, n, value, j) ==
    /\ ctx' = [ctx EXCEPT ![t] = [pc |-> "sched", op |-> op, left |-> n, spent |-> 0, value |-> value]]
    /\ k' = j

CallSchedule(t) ==
    /\ At(t, "sched")
    /\ k' = Schedule(k)
    /\ ctx' = [ctx EXCEPT ![t].pc = IF @ = "sched" /\ ctx[t].op = "none" THEN "user" ELSE "woken"]
    /\ UNCHANGED <<kind, obj, isr, loop, owed, mail>>

(* What is left of the timeout after a wait.  The time spent is the         *)
(* difference of two readings of the tick; it is followed up to the timeout *)
(* only.                                                                    *)
Left(t) == ctx[t].left - ctx[t].spent

(* The wait ended with an error: the call returns it.                       *)
WaitFails(t) ==
    /\ At(t, "woken") /\ ctx[t].op # "sleep" /\ k.error[t] # "ok"
    /\ obj' = IF ctx[t].op = "done" THEN [obj EXCEPT !.flag = FALSE] ELSE obj
    /\ Return(t)
    /\ UNCHANGED <<kind, isr, loop, owed, mail>>

----------------------------------------------------------------------------
(* Semaphore.                                                               *)
SemTake(t, n) ==
    /\ kind = "sem" /\ User(t)
    /\ \/ /\ obj.value > 0
          /\ obj' = [obj EXCEPT !.value = @ - 1] /\ owed' = owed - 1
          /\ UNCHANGED <<k, ctx>>
       \/ /\ obj.value = 0 /\ n # 0
          /\ Waits(t, "take", n, 0, BlockAtEnd(k, t, "wait", n, "intr"))
          /\ UNCHANGED <<obj, owed>>
    /\ UNCHANGED <<kind, isr, loop, mail>>

SemTaken(t) ==
    /\ At(t, "woken") /\ ctx[t].op = "take" /\ k.error[t] = "ok"
    /\ owed' = owed - 1
    /\ Return(t)
    /\ UNCHANGED <<kind, obj, isr, loop, mail>>

(* rt_sem_release, from a thread or from an interrupt.                      *)
CanRelease == k.list["wait"] # <<>> \/ obj.value < SemMax
Release ==
    /\ kind = "sem" /\ CanRelease
    /\ owed' = owed + 1
    /\ obj' = [obj EXCEPT !.value = IF k.list["wait"] = <<>> THEN @ + 1 ELSE @]
    /\ UNCHANGED <<kind, isr, loop, mail>>
SemRelease(t) ==
    /\ User(t) /\ Release
    /\ IF k.list["wait"] # <<>> THEN ReturnAfterSchedule(t, ListResume(k, "wait")) ELSE Return(t)
IsrRelease ==
    /\ Release
    /\ k' = IF k.list["wait"] # <<>> THEN Schedule(ListResume(k, "wait")) ELSE k
    /\ UNCHANGED ctx

(* rt_sem_control with RT_IPC_CMD_RESET, from the interrupt that sets the   *)
(* line coding, and rt_mb_control, from a thread.  The value is set when    *)
(* nobody waits any more.                                                   *)
Waited == {l \in {"wait", "send"} : k.list[l] # <<>>}
IsrReset ==
    /\ kind = "sem" /\ loop' = "reset"
    /\ UNCHANGED <<k, kind, obj, ctx, isr, owed, mail>>
ResumeOne ==
    /\ loop = "reset" /\ Waited # {}
    /\ k' = ListResumeError(k, IF "wait" \in Waited THEN "wait" ELSE "send")
    /\ UNCHANGED <<kind, obj, ctx, isr, loop, owed, mail>>
SemResetEnds ==
    /\ kind = "sem" /\ loop = "reset" /\ Waited = {} /\ loop' = "none"
    /\ k' = Schedule(k)
    /\ obj' = [obj EXCEPT !.value = 0] /\ owed' = owed - obj.value
    /\ UNCHANGED <<kind, ctx, isr, mail>>

----------------------------------------------------------------------------
(* Mailbox.                                                                 *)
After(offset) == IF offset + 1 >= Slots THEN 0 ELSE offset + 1

Stored(value) ==
    [obj EXCEPT !.pool[obj.in] = value, !.in = After(@), !.entry = @ + 1]
Taken == [obj EXCEPT !.out = After(@), !.entry = @ - 1]

(* A sender: it waits while the mailbox is full, and wakes one receiver.    *)
Send(t, n, value) ==
    IF obj.entry = Slots
    THEN /\ IF n = 0 THEN Return(t)
            ELSE Waits(t, "send", n, value, BlockAtEnd(k, t, "send", n, "intr"))
         /\ UNCHANGED <<obj, mail>>
    ELSE /\ obj' = Stored(value) /\ mail' = Append(mail, value)
         /\ IF k.list["wait"] # <<>> THEN ReturnAfterSchedule(t, ListResume(k, "wait"))
            ELSE Return(t)

Receive(t, n) ==
    IF obj.entry = 0
    THEN /\ IF n = 0 THEN Return(t)
            ELSE Waits(t, "recv", n, 0, BlockAtEnd(k, t, "wait", n, "intr"))
         /\ UNCHANGED <<obj, mail>>
    ELSE /\ obj' = Taken /\ mail' = Tail(mail)
         /\ IF k.list["send"] # <<>> THEN ReturnAfterSchedule(t, ListResume(k, "send"))
            ELSE Return(t)

MbSendWait(t, n, value) ==
    /\ kind = "mailbox" /\ User(t) /\ Send(t, n, value)
    /\ UNCHANGED <<kind, isr, loop, owed>>
MbRecv(t, n) ==
    /\ kind = "mailbox" /\ User(t) /\ Receive(t, n)
    /\ UNCHANGED <<kind, isr, loop, owed>>
MbAgain(t) ==
    /\ At(t, "woken") /\ k.error[t] = "ok"
    /\ \/ ctx[t].op = "send" /\ Send(t, Left(t), ctx[t].value)
       \/ ctx[t].op = "recv" /\ Receive(t, Left(t))
    /\ UNCHANGED <<kind, isr, loop, owed>>

(* rt_mb_urgent: the message goes before the others.                        *)
PreviousNoWrap(offset) == IF offset > 0 THEN offset - 1 ELSE Slots
Previous(offset) == IF offset > 0 THEN offset - 1 ELSE Slots - 1
MbUrgent(t, value) ==
    /\ kind = "mailbox" /\ User(t) /\ obj.entry < Slots
    /\ obj' = [obj EXCEPT !.out = Previous(@), !.pool[Previous(obj.out)] = value, !.entry = @ + 1]
    /\ mail' = <<value>> \o mail
    /\ IF k.list["wait"] # <<>> THEN ReturnAfterSchedule(t, ListResume(k, "wait"))
       ELSE Return(t)
    /\ UNCHANGED <<kind, isr, loop, owed>>

(* rt_mb_send from an interrupt does not wait.                              *)
IsrSend(value) ==
    /\ kind = "mailbox" /\ obj.entry < Slots
    /\ obj' = Stored(value) /\ mail' = Append(mail, value)
    /\ k' = IF k.list["wait"] # <<>> THEN Schedule(ListResume(k, "wait")) ELSE k
    /\ UNCHANGED <<kind, ctx, isr, loop, owed>>

(* rt_mb_control with RT_IPC_CMD_RESET.                                     *)
MbReset(t) ==
    /\ kind = "mailbox" /\ User(t) /\ loop' = "reset"
    /\ UNCHANGED <<k, kind, obj, ctx, isr, owed, mail>>
MbResetEnds(t) ==
    /\ kind = "mailbox" /\ loop = "reset" /\ Waited = {} /\ loop' = "none" /\ k.current = t
    /\ obj' = [obj EXCEPT !.entry = 0, !.in = 0, !.out = 0] /\ mail' = <<>>
    /\ ReturnAfterSchedule(t, k)
    /\ UNCHANGED <<kind, isr, owed>>

----------------------------------------------------------------------------
(* Memory pool.  The thread that waits longest is served last.              *)
Alloc(t, n) ==
    IF obj.free = 0
    THEN /\ IF n = 0 THEN Return(t)
            ELSE Waits(t, "alloc", n, 0, BlockInFront(k, t, "wait", n, "ok"))
         /\ UNCHANGED obj
    ELSE /\ obj' = [obj EXCEPT !.free = @ - 1, !.held = @ + 1]
         /\ Return(t)
MpAlloc(t, n) ==
    /\ kind = "pool" /\ User(t) /\ Alloc(t, n)
    /\ UNCHANGED <<kind, isr, loop, owed, mail>>
(* Unlike the mailbox, the pool computes what is left with interrupts on:   *)
(* the ticks from here to the next round of the loop are not deducted.      *)
MpAgain(t) ==
    /\ At(t, "woken") /\ ctx[t].op = "alloc" /\ k.error[t] = "ok"
    /\ ctx' = [ctx EXCEPT ![t].pc = "again", ![t].left = Left(t), ![t].spent = 0]
    /\ UNCHANGED <<k, kind, obj, isr, loop, owed, mail>>
MpRetries(t) ==
    /\ At(t, "again")
    /\ Alloc(t, ctx[t].left)
    /\ UNCHANGED <<kind, isr, loop, owed, mail>>

Freed == [obj EXCEPT !.free = @ + 1, !.held = @ - 1]
MpFree(t) ==
    /\ kind = "pool" /\ User(t) /\ obj.held > 0
    /\ obj' = Freed
    /\ IF k.list["wait"] # <<>> THEN ReturnAfterSchedule(t, ListResume(k, "wait"))
       ELSE Return(t)
    /\ UNCHANGED <<kind, isr, loop, owed, mail>>
IsrFree ==
    /\ kind = "pool" /\ obj.held > 0
    /\ obj' = Freed
    /\ k' = IF k.list["wait"] # <<>> THEN Schedule(ListResume(k, "wait")) ELSE k
    /\ UNCHANGED <<kind, ctx, isr, loop, owed, mail>>

----------------------------------------------------------------------------
(* Completion; one thread at a time may wait.                               *)
CompletionWait(t, n) ==
    /\ kind = "completion" /\ User(t) /\ \A u \in Threads : ctx[u].op # "done"
    /\ \/ /\ obj.flag /\ obj' = [obj EXCEPT !.flag = FALSE] /\ UNCHANGED <<k, ctx>>
       \/ /\ ~obj.flag /\ n # 0
          /\ Waits(t, "done", n, 0, BlockAtEnd(k, t, "wait", n, "ok"))
          /\ UNCHANGED obj
    /\ UNCHANGED <<kind, isr, loop, owed, mail>>
CompletionEnds(t) ==
    /\ At(t, "woken") /\ ctx[t].op = "done" /\ k.error[t] = "ok"
    /\ obj' = [obj EXCEPT !.flag = FALSE]
    /\ Return(t)
    /\ UNCHANGED <<kind, isr, loop, owed, mail>>
IsrDone ==
    /\ kind = "completion" /\ ~obj.flag
    /\ obj' = [obj EXCEPT !.flag = TRUE]
    /\ k' = IF k.list["wait"] # <<>> THEN Schedule(ResumeThread(k, Head(k.list["wait"]))) ELSE k
    /\ UNCHANGED <<kind, ctx, isr, loop, owed, mail>>

----------------------------------------------------------------------------
(* rt_thread_sleep: the error is set to "intr" with the timer running and   *)
(* interrupts on.                                                           *)
Sleep(t, n) ==
    /\ t \in Sleepers[kind] /\ User(t) /\ n > 0
    /\ k' = TimerStart(SuspendThread([k EXCEPT !.error[t] = "ok"], t), t, n)
    /\ ctx' = [ctx EXCEPT ![t] = [AtUser EXCEPT !.pc = "mark", !.op = "sleep"]]
    /\ UNCHANGED <<kind, obj, isr, loop, owed, mail>>
SleepMark(t) ==
    /\ At(t, "mark")
    /\ k' = [k EXCEPT !.error[t] = "intr"]
    /\ ctx' = [ctx EXCEPT ![t].pc = "sched"]
    /\ UNCHANGED <<kind, obj, isr, loop, owed, mail>>
SleepEnds(t) ==
    /\ At(t, "woken") /\ ctx[t].op = "sleep"
    /\ Return(t)
    /\ UNCHANGED <<kind, obj, isr, loop, owed, mail>>

Yield(t) ==
    /\ t \in Sleepers[kind] /\ User(t)
    /\ k' = ThreadYield(k, t)
    /\ UNCHANGED <<kind, obj, ctx, isr, loop, owed, mail>>

(* Nothing that waits is called with the scheduler locked.                  *)
Lock(t) ==
    /\ t \in Sleepers[kind] /\ User(t)
    /\ k' = EnterCritical(k)
    /\ ctx' = [ctx EXCEPT ![t].pc = "locked"]
    /\ UNCHANGED <<kind, obj, isr, loop, owed, mail>>
Unlock(t) ==
    /\ At(t, "locked")
    /\ k' = ExitCritical(k)
    /\ ctx' = [ctx EXCEPT ![t] = AtUser]
    /\ UNCHANGED <<kind, obj, isr, loop, owed, mail>>

(* main() starts the threads and returns; the idle thread forgets it.       *)
Startup(t) ==
    /\ At(Main, "user") /\ k.stat[t] = "init"
    /\ \A i \in 1..Len(Order) : Order[i] = t => \A j \in 1..i - 1 : k.stat[Order[j]] # "init"
    /\ k' = ThreadStartup(k, t)
    /\ UNCHANGED <<kind, obj, ctx, isr, loop, owed, mail>>
MainReturns ==
    /\ At(Main, "user") /\ \A t \in Workers : k.stat[t] # "init"
    /\ k' = ThreadExit(k, Main)
    /\ UNCHANGED <<kind, obj, ctx, isr, loop, owed, mail>>
DefunctExecute ==
    /\ Runs(Idle) /\ k.list["dead"] # <<>>
    /\ k' = Unlink(k, Head(k.list["dead"]))
    /\ UNCHANGED <<kind, obj, ctx, isr, loop, owed, mail>>

(* SysTick_Handler.                                                         *)
Tick ==
    /\ isr = "none" /\ isr' = "tick"
    /\ \E expired \in BOOLEAN : k' = TickIncrease(k, expired)
    /\ ctx' = [t \in Threads |->
                 IF ctx[t].op \in Retried /\ ctx[t].spent < ctx[t].left
                 THEN [ctx[t] EXCEPT !.spent = @ + 1] ELSE ctx[t]]
    /\ UNCHANGED <<kind, obj, loop, owed, mail>>
(* rt_timer_check: every timer that is due.                                 *)
CheckTimer ==
    /\ isr = "tick" /\ loop # "reset" /\ IsDue(k)
    /\ k' = TimerExpires(k) /\ loop' = "timers"
    /\ UNCHANGED <<kind, obj, ctx, isr, owed, mail>>
TimersChecked ==
    /\ isr = "tick" /\ loop # "reset" /\ ~IsDue(k)
    /\ isr' = "none" /\ loop' = "none"
    /\ UNCHANGED <<k, kind, obj, ctx, owed, mail>>

ThreadStep(t) ==
    \/ CallSchedule(t) \/ WaitFails(t)
    \/ \E n \in Timeouts[kind] : SemTake(t, n) \/ MbRecv(t, n) \/ MpAlloc(t, n) \/ CompletionWait(t, n)
                           \/ Sleep(t, n)
    \/ \E n \in Timeouts[kind], value \in Mails : MbSendWait(t, n, value)
    \/ SemTaken(t) \/ SemRelease(t)
    \/ MbAgain(t) \/ (\E value \in Mails : MbUrgent(t, value)) \/ MbReset(t) \/ MbResetEnds(t)
    \/ MpAgain(t) \/ MpRetries(t) \/ MpFree(t)
    \/ CompletionEnds(t)
    \/ SleepMark(t) \/ SleepEnds(t) \/ Yield(t) \/ Lock(t) \/ Unlock(t)
    \/ Startup(t)

Interrupt ==
    /\ loop = "none"
    /\ \/ Tick
       \/ IsrRelease \/ IsrReset \/ (\E value \in Mails : IsrSend(value)) \/ IsrFree \/ IsrDone

IpcNext == (\E t \in Threads : ThreadStep(t)) \/ MainReturns \/ DefunctExecute \/ Interrupt
           \/ CheckTimer \/ TimersChecked \/ ResumeOne \/ SemResetEnds

----------------------------------------------------------------------------
(* Where a thread is.                                                       *)
Queues(t) == {p \in Priorities : t \in ToSet(k.ready[p])}
Lists(t) == {l \in WaitLists : t \in ToSet(k.list[l])}
Timed(t) == \E i \in 1..Len(k.timers) : k.timers[i].t = t

(* Every thread is where its state says and nowhere else: the running one   *)
(* is the current one, a ready one is on the queue of its priority, and a   *)
(* suspended one is on a waiting list or has a timer, or both, so that      *)
(* something is there to wake it.  None is twice on a list.  A current      *)
(* thread may be suspended only on its way to rt_schedule, and the ready    *)
(* group marks the queues that are not empty.                               *)
ThreadsAccounted ==
    /\ \A t \in Everyone :
         CASE k.stat[t] = "running" -> t = k.current /\ Queues(t) = {} /\ Lists(t) = {} /\ ~Timed(t)
           [] k.stat[t] = "ready"   -> t # k.current /\ Queues(t) = {k.prio[t]} /\ Lists(t) = {} /\ ~Timed(t)
           [] k.stat[t] = "suspend" -> /\ Queues(t) = {} /\ Lists(t) \in {{}, {"wait"}, {"send"}}
                                       /\ Lists(t) # {} \/ Timed(t)
                                       /\ t = k.current => ctx[t].pc \in {"mark", "sched"}
           [] k.stat[t] = "init"    -> Queues(t) = {} /\ Lists(t) = {} /\ ~Timed(t)
           [] k.stat[t] = "close"   -> Queues(t) = {} /\ Lists(t) \in {{}, {"dead"}} /\ ~Timed(t)
    /\ \A p \in Priorities : IsInjective(k.ready[p])
    /\ \A l \in WaitLists : IsInjective(k.list[l])
    /\ \A i, j \in 1..Len(k.timers) : k.timers[i].t = k.timers[j].t => i = j
    /\ k.group = {p \in Priorities : k.ready[p] # <<>>}

(* Whenever a thread runs its own code, no thread of a higher priority is   *)
(* ready: whatever made one ready, from a thread or an interrupt, was       *)
(* followed by a switch to it.                                              *)
HighestRuns ==
    Runs(k.current) /\ k.lock = 0 /\ (k.current \in Threads => ctx[k.current].pc \in {"user", "woken", "again"})
      => \A p \in k.group : k.prio[k.current] <= p

(* Whatever the tick counter is when it wraps, the timers are in the order  *)
(* in which they are due, none is overdue once the tick is handled, and a   *)
(* wait with a timeout has its timer where the call wants it, also when it  *)
(* waits again: for what was left when the call computed that, with         *)
(* interrupts off for a mailbox and before they are off for a pool.         *)
TimersInTime ==
    /\ \A i, j \in 1..Len(k.timers) :
         i < j => Before(k.tick, k.timers[i].at) <= Before(k.tick, k.timers[j].at)
    /\ \A i \in 1..Len(k.timers) :
         LET m == k.timers[i] IN
         /\ Before(k.tick, m.at) < Half /\ (isr = "none" => m.at # k.tick)
         /\ ctx[m.t].op # "sleep" => Before(k.tick, m.at) <= ctx[m.t].left
         /\ ctx[m.t].op \in Retried => Before(k.tick, m.at) = Left(m.t)

(* Threads that were woken and have not yet looked at the object.           *)
Woken(op) ==
    Cardinality({t \in Threads : ctx[t].op = op /\ k.stat[t] # "suspend" /\ k.error[t] = "ok"})

(* No wake-up is lost.  A release is in the value or on its way to exactly  *)
(* one thread, and none is kept while a thread waits.  As long as a thread  *)
(* waits for a mail, for room or for a block, there are no more of them     *)
(* than threads already woken to take them: although a woken thread may     *)
(* find that another was faster and waits again, nobody sleeps over what is *)
(* there.                                                                   *)
NoWakeupLost ==
    /\ kind = "sem" => /\ owed = obj.value + Woken("take")
                       /\ (obj.value > 0 => k.list["wait"] = <<>>)
    /\ kind = "mailbox" => /\ (k.list["wait"] # <<>> => obj.entry <= Woken("recv"))
                           /\ (k.list["send"] # <<>> => Slots - obj.entry <= Woken("send"))
    /\ kind = "pool" /\ k.list["wait"] # <<>> => obj.free <= Woken("alloc")
    /\ kind = "completion" /\ obj.flag => k.list["wait"] = <<>>

(* The messages come out in the order they were sent, an urgent one before  *)
(* all others, however the offsets have wrapped.                            *)
MailInOrder ==
    mail = [i \in 1..obj.entry |-> obj.pool[(obj.out + i - 1) % Slots]]

(* A thread that gives the processor to one of its own priority, since it   *)
(* yields or has no time slice left, is the last to get it back.            *)
YieldGoesLast ==
    [][\A t \in Threads :
         k.current = t /\ k'.current # t /\ k'.stat[t] = "ready"
           /\ k.prio[k'.current] = k.prio[t]
         => Last(k'.ready[k.prio[t]]) = t]_ipcVars
=============================================================================

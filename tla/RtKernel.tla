------------------------------ MODULE RtKernel ------------------------------
(* The kernel of RT-Thread on one processor: scheduler_up.c, thread.c,      *)
(* timer.c, clock.c, and the lists of ipc.c, as operators on a record k     *)
(* that holds every thread's control block.  One operator stands for one C  *)
(* function, and what it does is atomic: interrupts are off, or the caller  *)
(* turned them off.                                                         *)
EXTENDS Integers, Sequences, FiniteSets, SequencesExt

CONSTANTS
    Threads,      \* the threads of the application and "main"
    Main,         \* the thread that runs main(), at work from the start
    Idle,         \* the idle thread
    Order,        \* the order in which main() starts the others
    Assignments,  \* priorities given to the threads; 0 is the highest
    LastPriority, \* RT_THREAD_PRIORITY_MAX - 1, that of the idle thread
    TickWidth     \* number of values of rt_tick_t

Everyone == Threads \cup {Idle}

ASSUME KernelAssumption ==
    /\ IsFiniteSet(Threads) /\ Main \in Threads /\ Idle \notin Threads
    /\ LastPriority \in Nat /\ Assignments \subseteq [Threads -> 0..LastPriority - 1]
    /\ Order \in [1..Cardinality(Threads) - 1 -> Threads \ {Main}]
    /\ TickWidth \in Nat /\ TickWidth >= 3

Priorities == 0..LastPriority
WaitLists == {"wait", "send", "dead"}    \* of the object, and _rt_thread_defunct
Half == (TickWidth - 1) \div 2           \* RT_TICK_MAX / 2

Before(a, b) == (b + TickWidth - a) % TickWidth      \* unsigned b - a
Lowest(S) == CHOOSE p \in S : \A q \in S : p <= q

(* After rt_system_scheduler_start: main runs, the idle thread is ready and *)
(* the application's threads are not started yet.                           *)
KernelInit(assigned) ==
    [current |-> Main,
     prio    |-> [t \in Everyone |-> IF t = Idle THEN LastPriority ELSE assigned[t]],
     stat    |-> [t \in Everyone |-> CASE t = Main -> "running" [] t = Idle -> "ready" [] OTHER -> "init"],
     yield   |-> [t \in Everyone |-> FALSE],
     ready   |-> [p \in Priorities |-> IF p = LastPriority THEN <<Idle>> ELSE <<>>],
     group   |-> {LastPriority},
     error   |-> [t \in Everyone |-> "ok"],
     list    |-> [l \in WaitLists |-> <<>>],
     timers  |-> <<>>,
     tick    |-> 0,
     lock    |-> 0]

Without(s, t) ==      \* a thread is on a list once at most
    IF t \in ToSet(s) THEN RemoveAt(s, CHOOSE i \in 1..Len(s) : s[i] = t) ELSE s

(* rt_list_remove of tlist: the thread leaves the one list it is on.        *)
Unlink(k, t) ==
    [k EXCEPT !.ready = [p \in Priorities |-> Without(@[p], t)],
              !.list = [l \in WaitLists |-> Without(@[l], t)]]

RemoveThread(k, t) ==
    LET u == Unlink(k, t) IN
    [u EXCEPT !.group = IF u.ready[k.prio[t]] = <<>> THEN @ \ {k.prio[t]} ELSE @]

(* A thread whose time is used up goes to the end of its queue, and any     *)
(* other to the front.                                                      *)
InsertThread(k, t) ==
    IF t = k.current THEN [k EXCEPT !.stat[t] = "running"]
    ELSE [k EXCEPT !.stat[t] = "ready",
                   !.ready[k.prio[t]] = IF k.yield[t] THEN Append(@, t) ELSE <<t>> \o @,
                   !.group = @ \cup {k.prio[t]}]

(* rt_schedule.  A running thread keeps the processor against a lower       *)
(* priority, and against its own unless it yields.                          *)
Schedule(k) ==
    IF k.lock > 0 \/ k.group = {} THEN k
    ELSE LET from == k.current
             top == Lowest(k.group)
             running == k.stat[from] = "running"
             stays == running /\ (k.prio[from] < top \/ (k.prio[from] = top /\ ~k.yield[from]))
             next == Head(k.ready[top])
             asked == IF running THEN [k EXCEPT !.yield[from] = FALSE] ELSE k
             switched == [asked EXCEPT !.current = next]
             kept == IF running THEN InsertThread(switched, from) ELSE switched
         IN IF stays THEN [RemoveThread(asked, from) EXCEPT !.stat[from] = "running"]
            ELSE [RemoveThread(kept, next) EXCEPT !.stat[next] = "running"]

----------------------------------------------------------------------------
(* The timer list is sorted by the distance from now.                       *)
TimersOf(k, t) == {i \in 1..Len(k.timers) : k.timers[i].t = t}
TimerStop(k, t) ==
    IF TimersOf(k, t) = {} THEN k
    ELSE [k EXCEPT !.timers = RemoveAt(@, CHOOSE i \in TimersOf(k, t) : TRUE)]
LaterSigned(m, at) == m.at > at
Later(m, at) == Before(at, m.at) \in 1..Half - 1
TimerStart(k, t, n) ==
    LET s == TimerStop(k, t)
        at == (k.tick + n) % TickWidth
        behind == {i \in 1..Len(s.timers) : Later(s.timers[i], at)}
        i == IF behind = {} THEN Len(s.timers) + 1 ELSE Lowest(behind)
    IN [s EXCEPT !.timers = InsertAt(@, i, [t |-> t, at |-> at])]

(* rt_thread_suspend_with_flag: the caller suspends itself.                 *)
SuspendThread(k, t) == TimerStop([RemoveThread(k, t) EXCEPT !.stat[t] = "suspend"], t)

(* rt_thread_resume.                                                        *)
ResumeKeepTimer(k, t) == IF k.stat[t] # "suspend" THEN k ELSE InsertThread(Unlink(k, t), t)
ResumeThread(k, t) == IF k.stat[t] # "suspend" THEN k ELSE InsertThread(TimerStop(Unlink(k, t), t), t)

(* _thread_timeout, and a round of the loop in rt_timer_check.              *)
ThreadTimeout(k, t) == Schedule(InsertThread(Unlink([k EXCEPT !.error[t] = "timeout"], t), t))
IsDue(k) == k.timers # <<>> /\ Before(Head(k.timers).at, k.tick) < Half
TimerExpires(k) == ThreadTimeout([k EXCEPT !.timers = Tail(@)], Head(k.timers).t)

(* rt_tick_increase up to the check of the timers.  How long a time slice   *)
(* is, and what is left of it, is left open: any tick may end it.           *)
TickIncrease(k, expired) ==
    LET n == [k EXCEPT !.tick = (@ + 1) % TickWidth]
    IN IF expired THEN Schedule([n EXCEPT !.yield[k.current] = TRUE]) ELSE n

----------------------------------------------------------------------------
ThreadStartup(k, t) == Schedule(ResumeThread([k EXCEPT !.stat[t] = "suspend"], t))
ThreadYield(k, t) == Schedule([k EXCEPT !.yield[t] = TRUE])
(* _thread_exit; the idle thread takes the dead off their list.             *)
ThreadExit(k, t) ==
    Schedule([TimerStop(RemoveThread(k, t), t) EXCEPT !.stat[t] = "close",
                                                      !.list["dead"] = <<t>> \o @])

ExitCriticalQuietly(k) == [k EXCEPT !.lock = IF @ = 0 THEN 0 ELSE @ - 1]
EnterCritical(k) == [k EXCEPT !.lock = @ + 1]
ExitCritical(k) ==
    IF k.lock <= 1 THEN Schedule([k EXCEPT !.lock = 0]) ELSE [k EXCEPT !.lock = @ - 1]

(* _ipc_list_suspend, with a timer unless the wait is for ever (-1).        *)
BlockAtEnd(k, t, list, n, error) ==
    LET s == SuspendThread([k EXCEPT !.error[t] = error], t)
        w == [s EXCEPT !.list[list] = Append(@, t)]
    IN IF n > 0 THEN TimerStart(w, t, n) ELSE w
(* The same, but the memory pool puts the caller in front.                  *)
BlockInFront(k, t, list, n, error) ==
    LET s == SuspendThread([k EXCEPT !.error[t] = error], t)
        w == [s EXCEPT !.list[list] = <<t>> \o @]
    IN IF n > 0 THEN TimerStart(w, t, n) ELSE w

(* _ipc_list_resume, and a round of the loop in _ipc_list_resume_all.       *)
ListResumeKeepError(k, list) == ResumeThread(k, Head(k.list[list]))
ListResume(k, list) ==
    LET t == Head(k.list[list]) IN ResumeThread([k EXCEPT !.error[t] = "ok"], t)
ListResumeError(k, list) ==
    LET t == Head(k.list[list]) IN ResumeThread([k EXCEPT !.error[t] = "error"], t)
=============================================================================

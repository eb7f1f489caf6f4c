------------------------------ MODULE RtSystem ------------------------------
(* What RT-Thread gives the application: threads with the objects they wait *)
(* for, the heap, and ring buffers.  Threads and heap share only the lock   *)
(* of the scheduler, which a call of the heap holds from beginning to end,  *)
(* and a ring calls nothing, so they run one at a time here.                *)
EXTENDS RtIpc, RtMem, RingBuffer

VARIABLE part
vars == <<part, ipcVars, heapVars, ringVars>>

IpcQuiet ==
    /\ IpcInit
    /\ kind = (CHOOSE o \in Objects : TRUE)
    /\ k = KernelInit(CHOOSE assigned \in Assignments : TRUE)

Init ==
    \/ part = "ipc" /\ IpcInit /\ HeapQuiet /\ RingQuiet
    \/ part = "heap" /\ IpcQuiet /\ HeapInit /\ RingQuiet
    \/ part = "ring" /\ IpcQuiet /\ HeapQuiet /\ RingInit

Next ==
    /\ UNCHANGED part
    /\ \/ part = "ipc" /\ IpcNext /\ UNCHANGED <<heapVars, ringVars>>
       \/ part = "heap" /\ HeapNext /\ UNCHANGED <<ipcVars, ringVars>>
       \/ part = "ring" /\ RingNext /\ UNCHANGED <<ipcVars, heapVars>>

Spec == Init /\ [][Next]_vars
=============================================================================

\* Two threads on each kind of object, with interrupts and the tick;
\* a heap of up to six items; a ring of 3 bytes under any sequence of calls.
CONSTANTS
  main = main
  idle = idle
  first = first
  second = second
  third = third
  zero = zero
  one = one
  note = note
  card = card
  Threads = {main, first, second}
  Main = main
  Idle = idle
  Order <- TwoOrder
  Assignments <- TwoAssigned
  LastPriority = 3
  TickWidth = 7
  Objects = {"sem", "mailbox", "pool", "completion"}
  Timeouts <- SomeTimeouts
  SemMax = 1
  Slots = 2
  Mails = {note, card}
  Sleepers <- OneSleeper
  Align = 8
  ItemSize = 12
  MinSize = 12
  HeapSize = 136
  Sizes = {0, 8, 24, 41}
  Size = 3
  Values <- TwoValues
  Packets <- SomePackets

SPECIFICATION Spec
SYMMETRY MailsAlike

INVARIANT ThreadsAccounted
INVARIANT HighestRuns
INVARIANT TimersInTime
INVARIANT NoWakeupLost
INVARIANT MailInOrder
INVARIANT HeapSound
INVARIANT MirrorInv
PROPERTY FifoSpec

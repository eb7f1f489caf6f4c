\* Three threads of one priority, one of which gives up the processor.
CONSTANTS
  main = main
  idle = idle
  first = first
  second = second
  third = third
  zero = zero
  one = one
  note = note
  card = card
  Threads = {main, first, second, third}
  Main = main
  Idle = idle
  Order <- ThreeOrder
  Assignments <- OnePriority
  LastPriority = 2
  TickWidth = 7
  Objects = {"completion"}
  Timeouts <- SomeTimeouts
  SemMax = 1
  Slots = 2
  Mails = {note, card}
  Sleepers <- AllSleep
  Align = 8
  ItemSize = 12
  MinSize = 12
  HeapSize = 16
  Sizes = {8}
  Size = 1
  Values <- TwoValues
  Packets <- SomePackets

SPECIFICATION Spec

PROPERTY YieldGoesLast

------------------------------- MODULE RtMem -------------------------------
(* The heap: the small memory algorithm of mem.c under rt_malloc,           *)
(* rt_realloc and rt_free, which the scheduler lock makes one step each.    *)
(* Offsets and sizes are bytes.                                             *)
EXTENDS Integers, FiniteSetsExt

CONSTANTS
    Align,       \* RT_ALIGN_SIZE
    ItemSize,    \* sizeof(struct rt_small_mem_item)
    MinSize,     \* MIN_SIZE
    HeapSize,    \* mem_size_aligned
    Sizes        \* sizes the callers ask for

AlignUp(n) == ((n + Align - 1) \div Align) * Align
Struct == AlignUp(ItemSize)                   \* SIZEOF_STRUCT_MEM
MinAligned == AlignUp(MinSize)                \* MIN_SIZE_ALIGNED
HeapEnd == HeapSize + Struct                  \* offset of heap_end

ASSUME HeapAssumption ==
    /\ Align \in Nat \ {0} /\ ItemSize \in Nat \ {0} /\ MinSize \in Nat \ {0}
    /\ HeapSize \in Nat /\ HeapSize = AlignUp(HeapSize) /\ HeapSize >= MinAligned
    /\ Sizes \subseteq Nat

VARIABLES
    items,    \* for the offset of each item: whether it is used, next and prev
    lfree,    \* offset of the lowest free item
    used,     \* parent.used
    held      \* the size the callers asked for, for each item they hold
heapVars == <<items, lfree, used, held>>

Item(isUsed, next, prev) == [isUsed |-> isUsed, next |-> next, prev |-> prev]
With(m, p, e) == [q \in DOMAIN m \cup {p} |-> IF q = p THEN e ELSE m[q]]
Dropped(m, p) == [q \in DOMAIN m \ {p} |-> m[q]]

(* rt_smem_init.                                                            *)
HeapInit ==
    /\ items = [p \in {0, HeapEnd} |-> IF p = 0 THEN Item(FALSE, HeapEnd, 0) ELSE Item(TRUE, HeapEnd, HeapEnd)]
    /\ lfree = 0 /\ used = 0 /\ held = <<>>
HeapQuiet == HeapInit

Room(m, p) == m[p].next - p - Struct

(* plug_holes: item p, which is free, is combined with its free neighbours. *)
(* A result is the items and lfree.                                         *)
Merged(m, p, n) == Dropped([m EXCEPT ![p].next = m[n].next, ![m[n].next].prev = p], n)
PlugForward(m, low, p) ==
    LET n == m[p].next IN
    IF m[n].isUsed \/ n = HeapEnd THEN <<m, low>> ELSE <<Merged(m, p, n), IF low = n THEN p ELSE low>>
PlugBackward(m, low, p) ==
    LET b == m[p].prev IN
    IF b = p \/ m[b].isUsed THEN <<m, low>> ELSE <<Merged(m, b, p), IF low = p THEN b ELSE low>>
PlugForwardOnly(m, low, p) == PlugForward(m, low, p)
PlugHoles(m, low, p) ==
    LET forward == PlugForward(m, low, p) IN PlugBackward(forward[1], forward[2], p)

(* Item p keeps n bytes, the rest becomes a free item of its own.           *)
Split(m, p, n) ==
    LET rest == p + Struct + n
        split == With([m EXCEPT ![p].next = rest], rest, Item(FALSE, m[p].next, p))
    IN IF m[p].next = HeapEnd THEN split ELSE [split EXCEPT ![m[p].next].prev = rest]

(* rt_smem_alloc: the first item that fits, from the lowest free one on.    *)
Rounded(n) == IF AlignUp(n) < MinAligned THEN MinAligned ELSE AlignUp(n)
Fitting(n) == {p \in DOMAIN items : p >= lfree /\ p <= HeapSize - n /\ ~items[p].isUsed /\ Room(items, p) >= n}
NextFree(m, p) == Min({q \in DOMAIN m : q >= p /\ (q = HeapEnd \/ ~m[q].isUsed)})
Allocated(p, n) ==
    LET splits == Room(items, p) >= n + Struct + MinAligned
        m == [(IF splits THEN Split(items, p, n) ELSE items) EXCEPT ![p].isUsed = TRUE]
    IN [at |-> p, items |-> m, lfree |-> IF p = lfree THEN NextFree(m, p) ELSE lfree,
        used |-> used + m[p].next - p]
(* A result has no item if there is none.                                   *)
FirstFit(n) ==
    IF n = 0 \/ Fitting(Rounded(n)) = {} THEN [at |-> -1, items |-> items, lfree |-> lfree, used |-> used]
    ELSE Allocated(Min(Fitting(Rounded(n))), Rounded(n))

(* rt_smem_free of item p in a heap like a result of FirstFit.                 *)
Released(a, p) ==
    LET m == [a.items EXCEPT ![p].isUsed = FALSE]
        plugged == PlugHoles(m, IF p < a.lfree THEN p ELSE a.lfree, p)
    IN [items |-> plugged[1], lfree |-> plugged[2], used |-> a.used - (m[p].next - p)]

Becomes(a) == items' = a.items /\ lfree' = a.lfree /\ used' = a.used

Malloc(n) ==
    LET a == FirstFit(n) IN
    /\ Becomes(a)
    /\ held' = IF a.at = -1 THEN held ELSE With(held, a.at, n)

HeapFree(p) ==
    /\ p \in DOMAIN held
    /\ Becomes(Released([items |-> items, lfree |-> lfree, used |-> used], p))
    /\ held' = Dropped(held, p)

(* rt_smem_realloc: the block stays, is split, or moves.                    *)
Shrink(p, n) ==
    LET rest == p + Struct + n
        m == Split(items, p, n)
        plugged == PlugHoles(m, IF rest < lfree THEN rest ELSE lfree, rest)
    IN Becomes([items |-> plugged[1], lfree |-> plugged[2], used |-> used - (Room(items, p) - n)])
Move(p, n, asked) ==
    LET a == FirstFit(n) IN
    IF a.at = -1 THEN UNCHANGED heapVars
    ELSE Becomes(Released(a, p)) /\ held' = With(Dropped(held, p), a.at, asked)
Realloc(p, asked) ==
    LET n == AlignUp(asked) IN
    /\ p \in DOMAIN held /\ n \in 1..HeapSize
    /\ \/ /\ Room(items, p) = n
          /\ held' = [held EXCEPT ![p] = asked]
          /\ UNCHANGED <<items, lfree, used>>
       \/ /\ n + Struct + MinSize < Room(items, p)
          /\ Shrink(p, n)
          /\ held' = [held EXCEPT ![p] = asked]
       \/ /\ Room(items, p) # n /\ n + Struct + MinSize >= Room(items, p)
          /\ Move(p, n, asked)

HeapNext ==
    \/ \E n \in Sizes : Malloc(n)
    \/ \E p \in DOMAIN held : HeapFree(p) \/ \E n \in Sizes : Realloc(p, n)

----------------------------------------------------------------------------
(* However blocks are taken, resized and given back: the items lie one      *)
(* after the other from the start of the heap to its end, and each knows    *)
(* the one before it (but for heap_end, whose prev is never read); a caller *)
(* has the room it asked for, in an item that is used; all others are free  *)
(* and no two of them are neighbours, so that what was given back can be    *)
(* had in one piece; the search for a free item misses none that would do;  *)
(* and parent.used is the bytes the used items take.                        *)
Inner == DOMAIN items \ {HeapEnd}
Bytes(m) == UNION {p..m[p].next - 1 : p \in {q \in DOMAIN m \ {HeapEnd} : m[q].isUsed}}
HeapSound ==
    /\ 0 \in Inner
    /\ \A p \in Inner :
         /\ items[p].next = Min({q \in DOMAIN items : q > p})
         /\ items[p].next # HeapEnd => items[items[p].next].prev = p
         /\ items[p].isUsed <=> p \in DOMAIN held
         /\ items[p].isUsed => Room(items, p) >= held[p]
         /\ items[p].isUsed \/ items[p].next = HeapEnd \/ items[items[p].next].isUsed
    /\ \A n \in Sizes \ {0} : {p \in Inner : ~items[p].isUsed /\ Room(items, p) >= Rounded(n)} # {}
                                => FirstFit(n).at # -1
    /\ used = Cardinality(Bytes(items))
=============================================================================

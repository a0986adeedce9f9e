------------------------------ MODULE TaskHeap -------------------------------
(***************************************************************************)
(* The heap a task has in its own memory block (kernel/memory/memory.c,    *)
(* VAIOS_TASK_HEAP): blocks tile [heap_base, heap_brk), the break grows up *)
(* towards the stack.  A task uses only its own heap, so the operations    *)
(* are sequential.  Addresses and sizes are taken modulo the word size.    *)
(***************************************************************************)
EXTENDS Integers, FiniteSets

CONSTANTS
    heap_base, block_end,   \* the heap's low end and the end of mem_block
    THDR, ALIGN, MIN,       \* sizeof(Heap_Mem_Block), VHEAP_ALIGN, VHEAP_MIN_PAYLOAD
    Word,                   \* 2^32
    LiveSp,                 \* bound: where the stack may be, less the margin; 0 on the host
    Sizes                   \* bound: sizes asked for

VARIABLES
    theap,          \* the words of the block, as headers
    heap_brk,
    live            \* what the task holds: its pointers, with the size asked for

theap_vars == <<theap, heap_brk, live>>

Cells == heap_base..(block_end - 1)
NoHeader == [magic |-> FALSE, free |-> FALSE, size |-> 0, prev |-> 0]
Block(free, size, prev) == [magic |-> TRUE, free |-> free, size |-> size, prev |-> prev]
Behind(H, b) == b + THDR + H[b].size

\* A header written at b; whatever passed for one inside it is gone.
Put(H, b, h) == [x \in Cells |-> IF x = b THEN h ELSE IF x > b /\ x < b + THDR THEN NoHeader ELSE H[x]]

\* MUTANT: the block behind keeps its back-link.
theap_fixup_next_Not(H, brk, b) == H

\* The block behind b is told where its neighbour is.
theap_fixup_next(H, brk, b) ==
    IF Behind(H, b) < brk /\ H[Behind(H, b)].magic THEN [H EXCEPT ![Behind(H, b)].prev = b] ELSE H

Round(size) == (((size + ALIGN - 1) % Word) \div ALIGN) * ALIGN
Need(size) == IF Round(size) < MIN THEN MIN ELSE Round(size)

\* The blocks, in the order of the walk from heap_base to the break.
Walk(H, brk) ==
    LET from[b \in heap_base..(2 * block_end)] ==
          IF b >= brk \/ b \notin Cells \/ ~H[b].magic THEN {} ELSE {b} \cup from[Behind(H, b)]
    IN  from[heap_base]

LastOf(S) == IF S = {} THEN 0 ELSE CHOOSE b \in S : \A c \in S : c <= b

Cuts(n, need) == n >= need + THDR + MIN

\* malloc: the first free block that fits, cut to size, else the break grows,
\* up to the end of the block and the live stack.  ptr 0 is NULL.
Malloc(H, brk, size, sp) ==
    LET need == Need(size)
        fits == {b \in Walk(H, brk) : H[b].free /\ H[b].size >= need}
        b == CHOOSE x \in fits : \A y \in fits : x <= y
        res == b + THDR + need
        rest == Put(H, res, Block(TRUE, H[b].size - need - THDR, b))
        cut == [theap_fixup_next(rest, brk, res) EXCEPT ![b].size = need]
        new_brk == (brk + THDR + need) % Word
    IN  IF size = 0 THEN [hdr |-> H, brk |-> brk, ptr |-> 0]
        ELSE IF fits # {}
             THEN [hdr |-> [IF Cuts(H[b].size, need) THEN cut ELSE H EXCEPT ![b].free = FALSE],
                   brk |-> brk, ptr |-> b + THDR]
        ELSE IF new_brk > block_end \/ (sp # 0 /\ new_brk > sp)
             THEN [hdr |-> H, brk |-> brk, ptr |-> 0]
        ELSE [hdr |-> Put(H, brk, Block(FALSE, need, LastOf(Walk(H, brk)))),
              brk |-> new_brk, ptr |-> brk + THDR]

\* The pointer is a payload of this heap that is still allocated.
Own(H, brk, ptr) ==
    LET b == ptr - THDR IN b >= heap_base /\ b < brk /\ H[b].magic /\ ~H[b].free

\* MUTANT: the break stays where it is.
LowerBreak_Not(H, brk, b) == brk

\* A free block that reaches the break is handed back to the middle.
LowerBreak(H, brk, b) == IF Behind(H, b) = brk THEN b ELSE brk

JoinsFront(H, b) == LET p == H[b].prev IN p # 0 /\ H[p].magic /\ H[p].free

\* free: merged forward, then backward, then the break comes down.
Free(H, brk, ptr) ==
    LET b == ptr - THDR
        H0 == [H EXCEPT ![b].free = TRUE]
        n == Behind(H, b)
        joins == n < brk /\ H[n].magic /\ H[n].free
        H1 == IF joins THEN theap_fixup_next([H0 EXCEPT ![b].size = @ + THDR + H[n].size], brk, b) ELSE H0
        p == H[b].prev
        H2 == IF JoinsFront(H1, b)
              THEN theap_fixup_next([H1 EXCEPT ![p].size = @ + THDR + H1[b].size], brk, p) ELSE H1
    IN  IF ~Own(H, brk, ptr) THEN [hdr |-> H, brk |-> brk]
        ELSE [hdr |-> H2, brk |-> LowerBreak(H2, brk, IF JoinsFront(H1, b) THEN p ELSE b)]

Init ==
    /\ theap = [a \in Cells |-> NoHeader]
    /\ heap_brk = heap_base
    /\ live = [p \in {} |-> 0]

Without(p) == [q \in DOMAIN live \ {p} |-> live[q]]
With(f, p, n) == [q \in DOMAIN f \cup {p} |-> IF q = p THEN n ELSE f[q]]

\* malloc, and calloc, whose product is checked before it is formed.
malloc(size, sp) ==
    LET r == Malloc(theap, heap_brk, size, sp)
    IN  /\ theap' = r.hdr /\ heap_brk' = r.brk
        /\ live' = IF r.ptr = 0 THEN live ELSE With(live, r.ptr, size)

Overflows(nmemb, size) == nmemb # 0 /\ size > (Word - 1) \div nmemb

\* The caller is granted nmemb objects of the size, or nothing.
calloc(nmemb, size, sp) ==
    LET r == Malloc(theap, heap_brk, (nmemb * size) % Word, sp)
    IN  /\ ~Overflows(nmemb, size)
        /\ theap' = r.hdr /\ heap_brk' = r.brk
        /\ live' = IF r.ptr = 0 THEN live ELSE With(live, r.ptr, nmemb * size)

\* free of any address: a pointer it holds, one it freed before, a foreign one.
free(ptr) ==
    LET r == Free(theap, heap_brk, ptr)
    IN  theap' = r.hdr /\ heap_brk' = r.brk /\ live' = Without(ptr)

\* realloc: kept when the block is large enough, else moved; NULL keeps the old.
\* MUTANT: the block is given back before the new one is known to exist.
Moved_Early(ptr, size, sp) ==
    LET f == Free(theap, heap_brk, ptr)
        r == Malloc(f.hdr, f.brk, size, sp)
    IN  [hdr |-> r.hdr, brk |-> r.brk, ptr |-> r.ptr]

Moved(ptr, size, sp) ==
    LET r == Malloc(theap, heap_brk, size, sp)
        f == Free(r.hdr, r.brk, ptr)
    IN  [hdr |-> IF r.ptr = 0 THEN r.hdr ELSE f.hdr,
         brk |-> IF r.ptr = 0 THEN r.brk ELSE f.brk, ptr |-> r.ptr]

realloc(ptr, size, sp) ==
    /\ size # 0 /\ Own(theap, heap_brk, ptr)
    /\ IF theap[ptr - THDR].size >= Round(size)
       THEN live' = With(live, ptr, size) /\ UNCHANGED <<theap, heap_brk>>
       ELSE LET r == Moved(ptr, size, sp)
            IN  /\ theap' = r.hdr /\ heap_brk' = r.brk
                /\ live' = IF r.ptr = 0 THEN live ELSE With(Without(ptr), r.ptr, size)

Next ==
    \/ \E n \in Sizes, sp \in LiveSp : malloc(n, sp)
    \/ \E m \in {2, Word \div 2 + 1}, n \in Sizes, sp \in LiveSp : calloc(m, n, sp)
    \/ \E p \in Cells : p >= heap_base + THDR /\ free(p)
    \/ \E p \in DOMAIN live, n \in Sizes, sp \in LiveSp : realloc(p, n, sp)

Spec == Init /\ [][Next]_theap_vars
------------------------------------------------------------------------------
(* Properties *)

TaskBlocks == Walk(theap, heap_brk)

\* Walking the heap from its base meets the break exactly, and every back-link
\* is the block in front (the split, merge and break arithmetic).
HeapTiled ==
    /\ heap_brk >= heap_base /\ heap_brk <= block_end
    /\ heap_brk = IF TaskBlocks = {} THEN heap_base ELSE Behind(theap, LastOf(TaskBlocks))
    /\ \A b \in TaskBlocks : theap[b].prev = LastOf({c \in TaskBlocks : c < b})

\* No two free blocks are neighbours and the topmost is in use: what was freed
\* is whole again or back in the middle, for the stack.
HeapTight ==
    \A b \in TaskBlocks : theap[b].free =>
      Behind(theap, b) \in TaskBlocks /\ ~theap[Behind(theap, b)].free

\* What the task holds is what the heap has allocated, each with room for what was
\* asked, whatever was freed twice, resized or refused (malloc, calloc, realloc, free).
HoldsExact ==
    /\ {b + THDR : b \in {c \in TaskBlocks : ~theap[c].free}} = DOMAIN live
    /\ \A p \in DOMAIN live : theap[p - THDR].size >= live[p]

\* The same of a task's own heap, whose break follows its last block, and which never
\* overlaps two allocations (malloc, realloc, free).
TaskHeapSound == HeapTiled /\ HeapTight /\ HoldsExact
==============================================================================

-------------------------------- MODULE Heap ---------------------------------
(***************************************************************************)
(* The kernel heap (kernel/memory/memory.c) over its two free-block        *)
(* indexes (seglist.c, tlsf.c).  A caller asks in bytes, which the code rounds *)
(* up in 32 bits; the arena is counted in units of VHEAP_ALIGN bytes, every *)
(* header and payload being a whole number of them.  hdr is what the arena's words would pass for as block headers:  *)
(* the headers of the blocks, and those that merging left behind.  Every   *)
(* operation is one critical section.                                      *)
(***************************************************************************)
EXTENDS Integers, Sequences, SequencesExt

CONSTANTS
    Start, Size,    \* _heap_start and HEAP_SIZE, in units
    HDR, MIN,       \* sizeof(Heap_Mem_Block) and VHEAP_MIN_PAYLOAD, in units
    UNIT, Word,     \* VHEAP_ALIGN and 2^32, in bytes
    SlLog2,         \* SL_INDEX_COUNT_LOG2
    Asks, Aligns    \* bound: sizes in bytes, and <<align, offset>> pairs in units

VARIABLES
    algo,           \* VAIOS_HEAP_ALGO
    hdr,            \* hdr[a]: the header at address a, if its magic number is there
    lists,          \* the free index: a list of blocks per class
    allocation_size, allocation_count,
    granted         \* ghost: the last grant: block, bytes asked, align, offset; or none

heap_vars == <<algo, hdr, lists, allocation_size, allocation_count, granted>>

End == Start + Size
Addr == Start..(End - 1)
None == [magic |-> FALSE, free |-> FALSE, size |-> 0, prev |-> 0]
Header(free, size, prev) == [magic |-> TRUE, free |-> free, size |-> size, prev |-> prev]

\* MUTANT: rounded down.
Need_Down(n) == IF n \div UNIT < MIN THEN MIN ELSE n \div UNIT

\* need of v_malloc and v_memalign_off: the bytes rounded up to the alignment, in
\* 32 bits, then at least the smallest payload.
Need(n) == LET up == ((n + UNIT - 1) % Word) \div UNIT IN IF up < MIN THEN MIN ELSE up

\* The room v_memalign_off looks for: a 32-bit sum.
Reserve(n, align) == (Need(n) + align + HDR + MIN) % (Word \div UNIT)

\* The sum stays within its width for what is asked: past it the aligned header
\* is written outside the block found, which is not modelled.
HeapBounds ==
    /\ Word % UNIT = 0 /\ Size * UNIT < Word /\ \A n \in Asks : n > 0 /\ n < Word
    /\ \A n \in Asks, x \in Aligns : Reserve(n, x[1]) = Need(n) + x[1] + HDR + MIN
------------------------------------------------------------------------------
(* The free index *)

Log2(n) == CHOOSE k \in 0..8 : 2^k <= n /\ n < 2^(k + 1)

\* size_class of seglist.c: powers of two, the last class open.
size_class(n) == IF n <= 1 THEN 0 ELSE IF n > 64 THEN 7 ELSE Log2(n - 1) + 1

\* mapping_insert of tlsf.c: the octave and its subdivision, as one number.
mapping_insert(n) ==
    IF n < 2^SlLog2 THEN n
    ELSE (Log2(n) - SlLog2 + 1) * 2^SlLog2 + (n \div 2^(Log2(n) - SlLog2)) - 2^SlLog2

\* MUTANT: the search starts in the class the size itself falls into.
mapping_search_Floor(n) == mapping_insert(n)

\* mapping_search: rounded up, so that any block of the class found fits.
mapping_search(n) ==
    mapping_insert(IF n >= 2^SlLog2 THEN n + 2^(Log2(n) - SlLog2) - 1 ELSE n)

ClassOf(n) == IF algo = "seglist" THEN size_class(n) ELSE mapping_insert(n)

\* MUTANT: the new head is not linked to the old one.
Filed_Unlinked(L, a, n) == [L EXCEPT ![ClassOf(n)] = <<a>>]

\* vheap_index_insert, at the head of the class, and vheap_index_remove.
Filed(L, a, n) == [L EXCEPT ![ClassOf(n)] = <<a>> \o @]
Unfiled(L, a, n) == [L EXCEPT ![ClassOf(n)] = SelectSeq(@, LAMBDA b : b # a)]

\* MUTANT: only the head of the class is looked at.
FirstFit_Head(c, n) ==
    IF lists[c] # <<>> /\ (algo = "tlsf" \/ hdr[Head(lists[c])].size >= n) THEN <<Head(lists[c])>> ELSE <<>>

FirstFit(c, n) == SelectSeq(lists[c], LAMBDA b : algo = "tlsf" \/ hdr[b].size >= n)

\* vheap_index_find: seglist walks the class of the size for the first that fits
\* and takes the head of a higher one; tlsf takes a head at or above its class.
Candidates(n) ==
    LET c == IF algo = "seglist" THEN size_class(n) ELSE mapping_search(n)
        above == {k \in DOMAIN lists : k > c /\ lists[k] # <<>>}
    IN  IF c \notin DOMAIN lists THEN {}
        ELSE IF FirstFit(c, n) # <<>> THEN {FirstFit(c, n)[1]}
        ELSE {lists[k][1] : k \in {k \in above : \A j \in above : k <= j}}
------------------------------------------------------------------------------
(* Headers *)

\* A header, and for a free block its links, are written: what looked like a
\* header there is gone.
Written(H, a, h) ==
    [x \in Addr |-> IF x = a THEN h
                    ELSE IF x > a /\ x < a + HDR + (IF h.free THEN MIN ELSE 0) THEN None ELSE H[x]]

\* MUTANT: the block behind keeps its back-link.
fixup_next_prev_Not(H, a) == H

\* The block behind a is told where its neighbour is.
fixup_next_prev(H, a) ==
    LET after == a + HDR + H[a].size
    IN  IF after \in Addr /\ H[after].magic THEN [H EXCEPT ![after].prev = a] ELSE H

\* v_heap_memory_init: one free block.
Init ==
    /\ algo \in {"seglist", "tlsf"}
    /\ hdr = [a \in Addr |-> IF a = Start THEN Header(TRUE, Size - HDR, 0) ELSE None]
    /\ lists = [c \in 0..(ClassOf(Size) + 1) |-> IF c = ClassOf(Size - HDR) THEN <<Start>> ELSE <<>>]
    /\ allocation_size = 0 /\ allocation_count = 0 /\ granted = <<>>

\* The rest can hold a header and the smallest payload.
Splits(n, need) == n >= need + HDR + MIN

\* The block at a, of the headers H and the index L, is cut to what the n bytes
\* need and granted.
Grant(H, L, a, n, align, offset) ==
    LET need == Need(n)
        rest == H[a].size - need - HDR
        res == a + HDR + need
        cut == Written([H EXCEPT ![a].size = need], res, Header(TRUE, rest, a))
        H2 == IF Splits(H[a].size, need) THEN fixup_next_prev(cut, res) ELSE H
    IN  /\ hdr' = [H2 EXCEPT ![a].free = FALSE]
        /\ lists' = IF Splits(H[a].size, need) THEN Filed(L, res, rest) ELSE L
        /\ allocation_size' = allocation_size + H2[a].size
        /\ allocation_count' = allocation_count + 1
        /\ granted' = <<a, n, align, offset>>
        /\ UNCHANGED algo

\* v_malloc of n bytes; an index that finds nothing is out of memory.
v_malloc(n) ==
    \E a \in Candidates(Need(n)) : Grant(hdr, Unfiled(lists, a, hdr[a].size), a, n, 1, 0)

OutOfMemory(n) ==
    /\ Candidates(Need(n)) = {} /\ granted # <<>>
    /\ granted' = <<>>
    /\ UNCHANGED <<algo, hdr, lists, allocation_size, allocation_count>>

\* The piece in front of the aligned header can be a free block.
Leads(h, payload) == h >= payload + MIN

\* v_memalign_off: the first payload that is offset past an align boundary with
\* room in front for a free block, or none needed.  No more than the heap's own
\* alignment is a plain v_malloc.
v_memalign_off(align, offset, n) ==
    /\ offset < align /\ align > 1
    /\ \E a \in Candidates(Reserve(n, align)) :
         LET payload == a + HDR
             free == Unfiled(lists, a, hdr[a].size)
             at == CHOOSE p \in payload..(payload + hdr[a].size) :
                     /\ p % align = offset
                     /\ p = payload \/ Leads(p - HDR, payload)
                     /\ \A q \in payload..(p - 1) :
                          q % align # offset \/ (q # payload /\ ~Leads(q - HDR, payload))
             b == at - HDR
             H == Written(Written(hdr, a, Header(TRUE, b - payload, hdr[a].prev)),
                          b, Header(FALSE, payload + hdr[a].size - at, a))
         IN  IF at = payload THEN Grant(hdr, free, a, n, align, offset)
             ELSE Grant(fixup_next_prev(H, b), Filed(free, a, b - payload), b, n, align, offset)

\* MUTANT: the block in front is never merged.
JoinsBack_Never(a) == FALSE

JoinsBack(a) == LET p == hdr[a].prev IN p \in Addr /\ hdr[p].magic /\ hdr[p].free

\* MUTANT: a block that is merged away keeps its status.
Freed_Joined(a, n) == Header(~JoinsBack(a), n, hdr[a].prev)

Freed(a, n) == Header(TRUE, n, hdr[a].prev)

\* v_free of a payload: what is not an allocated block is refused; the free
\* neighbours are merged.
v_free(a) ==
    LET next == a + HDR + hdr[a].size
        forward == next \in Addr /\ hdr[next].magic /\ hdr[next].free
        n1 == hdr[a].size + IF forward THEN HDR + hdr[next].size ELSE 0
        L1 == IF forward THEN Unfiled(lists, next, hdr[next].size) ELSE lists
        H1 == fixup_next_prev([hdr EXCEPT ![a] = Freed(a, n1)], a)
        p == hdr[a].prev
        backward == JoinsBack(a)
        m == IF backward THEN p ELSE a
        n2 == IF backward THEN hdr[p].size + HDR + n1 ELSE n1
        L2 == IF backward THEN Unfiled(L1, p, hdr[p].size) ELSE L1
    IN  /\ hdr[a].magic /\ ~hdr[a].free
        /\ hdr' = fixup_next_prev(Written([H1 EXCEPT ![m].size = n2], m, Header(TRUE, n2, H1[m].prev)), m)
        /\ lists' = Filed(L2, m, n2)
        /\ allocation_size' = allocation_size - hdr[a].size
        /\ allocation_count' = allocation_count - 1
        /\ granted' = <<>>
        /\ UNCHANGED algo

Next ==
    \/ \E n \in Asks : v_malloc(n)
    \/ \E n \in Asks : OutOfMemory(n)
    \/ \E n \in Asks, x \in Aligns : v_memalign_off(x[1], x[2], n)
    \/ \E a \in Addr : v_free(a)

Spec == Init /\ [][Next]_heap_vars
------------------------------------------------------------------------------
(* Properties *)

\* The blocks, met by walking from the start.
Blocks ==
    LET walk[a \in Start..(2 * End)] ==
          IF a \notin Addr \/ ~hdr[a].magic THEN {a} ELSE {a} \cup walk[a + HDR + hdr[a].size]
    IN  walk[Start]
FreeBlocks == {a \in Blocks \ {End} : hdr[a].free}

\* The blocks fill the arena exactly, and each one's back-link is the block in
\* front of it: no two blocks share a word (split, merge and aligned carving).
Tiled ==
    /\ End \in Blocks /\ Blocks \ {End} \subseteq Addr
    /\ \A a \in Blocks \ {Start, End} :
         hdr[a].prev \in Blocks /\ hdr[a].prev + HDR + hdr[hdr[a].prev].size = a

\* Two free blocks are never neighbours: what is freed is merged both ways, so
\* the heap does not wear out.
Merged == \A a \in FreeBlocks : a + HDR + hdr[a].size \notin FreeBlocks

\* The index lists every free block once, under its class, and no other.
IndexExact ==
    /\ \A c \in DOMAIN lists : IsInjective(lists[c])
         /\ \A i \in DOMAIN lists[c] : lists[c][i] \in FreeBlocks /\ ClassOf(hdr[lists[c][i]].size) = c
    /\ \A a \in FreeBlocks : \E c \in DOMAIN lists : a \in ToSet(lists[c])

\* A grant has at least the bytes asked for and sits where it was asked to
\* (vheap_index_find, v_memalign_off); every block can hold its links once freed.
GrantFits ==
    /\ granted # <<>> =>
         hdr[granted[1]].size * UNIT >= granted[2] /\ (granted[1] + HDR) % granted[3] = granted[4]
    /\ \A a \in Blocks \ {End} : hdr[a].size >= MIN

\* Headers that merging left behind say free, so a second v_free of the same
\* pointer is refused whatever became of the block.
StaleSayFree == \A a \in Addr \ Blocks : hdr[a].magic => hdr[a].free

\* The segregated index fails only when no free block is large enough.
SeglistComplete ==
    algo = "seglist" => \A n \in Asks :
        Candidates(Need(n)) = {} => \A a \in FreeBlocks : hdr[a].size * UNIT < n

\* Over any sequence of calls the blocks tile the arena, free neighbours are merged, the
\* index knows exactly the free blocks and answers with one that fits, and a second
\* free is seen (v_malloc, v_memalign_off, v_free).
HeapSound ==
    Tiled /\ Merged /\ IndexExact /\ GrantFits /\ StaleSayFree /\ SeglistComplete
==============================================================================

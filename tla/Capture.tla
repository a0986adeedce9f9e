------------------------------- MODULE Capture -------------------------------
(***************************************************************************)
(* /dev/capture (kernel/devfs.c): a redirected command's output is kept in *)
(* a buffer until the shell copies it into the file.                       *)
(***************************************************************************)
EXTENDS Integers

CONSTANTS CapSize, CutLen   \* CAPTURE_SIZE and the length of CAPTURE_CUT
VARIABLE cap                \* whether cap_buf is there; cap_len, cap_rd, cap_cut;
                            \* ghosts: output was lost, output met no buffer

Empty(buf) ==
    [buf |-> buf, len |-> 0, rd |-> 0, cut |-> FALSE, lost |-> FALSE, unheld |-> FALSE]
Init == cap = Empty(FALSE)

\* MUTANT: the note is written past the end.
CapFull_Late(len) == len >= CapSize

\* No room but for the note that says so.
CapFull(len) == len >= CapSize - CutLen

\* The first write finds no heap for the buffer: the output is dropped in silence.
NoHeap == ~cap.buf /\ cap' = [cap EXCEPT !.lost = TRUE, !.unheld = TRUE]

\* n characters with the buffer in place, or taken from the heap now.
Kept(n) ==
    LET room == CapSize - CutLen - cap.len
    IN  \/ cap.cut /\ cap' = [cap EXCEPT !.lost = TRUE]
        \/ /\ ~cap.cut /\ ~CapFull(cap.len + n - 1)
           /\ cap' = [cap EXCEPT !.buf = TRUE, !.len = @ + n]
        \/ /\ ~cap.cut /\ CapFull(cap.len + n - 1)
           /\ cap' = [cap EXCEPT !.buf = TRUE,
                                 !.len = cap.len + (IF room > 0 THEN room ELSE 0) + CutLen,
                                 !.cut = TRUE, !.lost = TRUE]

\* capture_write of n characters.
capture_write(n) == NoHeap \/ Kept(n)

\* MUTANT: a read starts the next command's output but leaves the note's flag set.
Drained_StillCut == [Empty(cap.buf) EXCEPT !.cut = cap.cut]

\* Everything is read: empty for the next command, the buffer kept.
Drained == Empty(cap.buf)

\* capture_read.
capture_read(n) ==
    LET rd == IF cap.rd + n > cap.len THEN cap.len ELSE cap.rd + n
    IN  cap' = IF rd = cap.len THEN Drained ELSE [cap EXCEPT !.rd = rd]

Next == \E n \in 1..(CapSize + 1) : capture_write(n) \/ capture_read(n)

Spec == Init /\ [][Next]_cap

\* A capture that lost output says so inside the buffer, once, and says so only then --
\* unless the output met no heap for a buffer: that is dropped without a word, and only
\* before the buffer was ever there (capture_write, capture_read).
CaptureHonest ==
    /\ cap.len <= CapSize /\ cap.rd <= cap.len
    /\ cap.lost => cap.cut \/ cap.unheld
    /\ cap.cut => cap.lost /\ cap.len >= CutLen
    /\ ~cap.buf => cap.len = 0
==============================================================================

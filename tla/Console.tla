------------------------------- MODULE Console -------------------------------
(***************************************************************************)
(* /dev/console (kernel/devfs.c).  Output is queued by the write system    *)
(* call and sent by a writer task, with a carriage return put before a     *)
(* newline that lacks one; input is queued by an interrupt.                *)
(*                                                                         *)
(* System calls and the interrupt are one action each; the writer task     *)
(* runs in thread mode, one action per access to what is shared.           *)
(***************************************************************************)
EXTENDS Integers, Sequences

CONSTANTS
    TxSize, RxSize,     \* CONSOLE_TX_SIZE, CONSOLE_RX_SIZE
    ChunkSize,          \* the writer's tmp[]
    Text                \* bound: what is written in one call

VARIABLES
    con_tx, con_tx_head, con_tx_tail, con_tx_sem,
    con_last,           \* the last character taken
    con_writer_seen,
    pump,               \* v_console_writer_step: where it is, its chunk
    con_head, con_tail, con_rx_sem,
    typist,             \* the reader: awake or asleep in console_wait
    pending,            \* ghost: characters taken and not yet on the wire
    wire_last           \* ghost: the last character on the wire

con_vars == <<con_tx, con_tx_head, con_tx_tail, con_tx_sem, con_last, con_writer_seen, pump,
              con_head, con_tail, con_rx_sem, typist, pending, wire_last>>
OutVars == <<con_tx, con_tx_head, con_tx_tail, con_tx_sem, con_last, con_writer_seen, pump,
         pending, wire_last>>
InVars == <<con_head, con_tail, con_rx_sem, typist>>

\* v_devfs_init.
Init ==
    /\ con_tx = [i \in 0..(TxSize - 1) |-> "x"] /\ con_tx_head = 0 /\ con_tx_tail = 0
    /\ con_tx_sem = 0 /\ con_last = "x" /\ con_writer_seen = FALSE
    /\ pump = [at |-> "start", tmp |-> <<>>]
    /\ con_head = 0 /\ con_tail = 0 /\ con_rx_sem = 0 /\ typist = "awake"
    /\ pending = <<>> /\ wire_last = "x"
------------------------------------------------------------------------------
(* Output *)

\* MUTANT: newlines go out as they are.
Cooked_Raw(last, c) == <<c>>

\* What a character becomes: a lone newline gets its carriage return.
Cooked(last, c) == IF c = "nl" /\ last # "cr" THEN <<"cr", c>> ELSE <<c>>

\* What the first k characters of a text become.
CookedText(text, k) ==
    LET before[i \in 0..k] ==
          IF i = 0 THEN <<>>
          ELSE before[i - 1] \o Cooked(IF i = 1 THEN con_last ELSE text[i - 1], text[i])
    IN  before[k]

TxRoom == (con_tx_tail + TxSize - con_tx_head - 1) % TxSize

\* MUTANT: a newline is taken with room for one character only.
Fits_One(text, k) ==
    k = 0 \/ Len(CookedText(text, k - 1)) + 1 <= TxRoom

\* The first k characters fit, a newline with its carriage return.
Fits(text, k) == Len(CookedText(text, k)) <= TxRoom

\* console_write before a writer has run: straight to the hardware.
WriteDirect(text) ==
    /\ ~con_writer_seen
    /\ con_last' = text[Len(text)]
    /\ wire_last' = text[Len(text)]
    /\ UNCHANGED <<con_tx, con_tx_head, con_tx_tail, con_tx_sem, con_writer_seen, pump, pending,
                   InVars>>

\* MUTANT: nobody is told.
GivePump_None == UNCHANGED <<pump, con_tx_sem>>

\* v_semaphore_give_from_isr(con_tx_sem).
GivePump ==
    IF pump.at = "asleep" THEN pump' = [pump EXCEPT !.at = "chunk"] /\ con_tx_sem' = 0
    ELSE con_tx_sem' = 1 /\ UNCHANGED pump

\* console_write: queue what fits, wake the writer; the caller retries the rest.
WriteQueued(text) ==
    LET n == CHOOSE k \in 0..Len(text) :
               Fits(text, k) /\ \A j \in (k + 1)..Len(text) : ~Fits(text, j)
        out == CookedText(text, n)
        at(i) == (i - con_tx_head + TxSize) % TxSize
    IN  /\ con_writer_seen /\ n > 0
        /\ con_tx' = [i \in 0..(TxSize - 1) |->
                        IF at(i) < Len(out) THEN out[at(i) + 1] ELSE con_tx[i]]
        /\ con_tx_head' = (con_tx_head + Len(out)) % TxSize
        /\ con_last' = text[n]
        /\ pending' = pending \o out
        /\ GivePump
        /\ UNCHANGED <<con_tx_tail, con_writer_seen, wire_last, InVars>>

\* v_console_writer_step: from now on writes are queued.
PumpLooks ==
    /\ pump.at = "start"
    /\ con_writer_seen' = TRUE
    /\ pump' = [pump EXCEPT !.at = IF con_tx_tail # con_tx_head THEN "chunk" ELSE "take"]
    /\ UNCHANGED <<con_tx, con_tx_head, con_tx_tail, con_tx_sem, con_last, pending, wire_last,
                   InVars>>

PumpTakes ==
    /\ pump.at = "take"
    /\ \/ con_tx_sem = 1 /\ con_tx_sem' = 0 /\ pump' = [pump EXCEPT !.at = "chunk"]
       \/ con_tx_sem = 0 /\ UNCHANGED con_tx_sem /\ pump' = [pump EXCEPT !.at = "asleep"]
    /\ UNCHANGED <<con_tx, con_tx_head, con_tx_tail, con_last, con_writer_seen, pending,
                   wire_last, InVars>>

\* Copy a chunk out of the queue, or end the step when there is none.
PumpCopies ==
    LET have == (con_tx_head - con_tx_tail + TxSize) % TxSize
        n == IF have > ChunkSize THEN ChunkSize ELSE have
    IN  /\ pump.at = "chunk"
        /\ pump' = IF n = 0 THEN [at |-> "start", tmp |-> <<>>]
                   ELSE [at |-> "emit",
                         tmp |-> [k \in 1..n |-> con_tx[(con_tx_tail + k - 1) % TxSize]]]
        /\ UNCHANGED <<con_tx, con_tx_head, con_tx_tail, con_tx_sem, con_last, con_writer_seen,
                       pending, wire_last, InVars>>

\* console_emit, and then the space is free.
PumpEmits ==
    LET n == Len(pump.tmp)
    IN  /\ pump.at = "emit"
        /\ con_tx_tail' = (con_tx_tail + n) % TxSize
        /\ wire_last' = pump.tmp[n]
        /\ pending' = SubSeq(pending, n + 1, Len(pending))
        /\ pump' = [at |-> "chunk", tmp |-> <<>>]
        /\ UNCHANGED <<con_tx, con_tx_head, con_tx_sem, con_last, con_writer_seen, InVars>>
------------------------------------------------------------------------------
(* Input *)

\* console_rx_sink: a full ring drops the rest of the burst.
RxSink(n) ==
    LET room == (con_tail + RxSize - con_head - 1) % RxSize
    IN  /\ con_head' = (con_head + (IF n > room THEN room ELSE n)) % RxSize
        /\ IF typist = "asleep" THEN typist' = "awake" /\ con_rx_sem' = 0
           ELSE con_rx_sem' = 1 /\ UNCHANGED typist
        /\ UNCHANGED <<con_tail, OutVars>>

console_read(n) ==
    LET have == (con_head - con_tail + RxSize) % RxSize
    IN  /\ typist = "awake" /\ have > 0
        /\ con_tail' = (con_tail + (IF n > have THEN have ELSE n)) % RxSize
        /\ UNCHANGED <<con_head, con_rx_sem, typist, OutVars>>

NothingThere == con_tail = con_head

\* console_wait: what is already there needs no signal.
console_wait ==
    /\ typist = "awake" /\ NothingThere
    /\ \/ con_rx_sem = 1 /\ con_rx_sem' = 0 /\ UNCHANGED typist
       \/ con_rx_sem = 0 /\ typist' = "asleep" /\ UNCHANGED con_rx_sem
    /\ UNCHANGED <<con_head, con_tail, OutVars>>
Next ==
    \/ \E text \in Text : WriteDirect(text)
    \/ \E text \in Text : WriteQueued(text)
    \/ PumpLooks
    \/ PumpTakes
    \/ PumpCopies
    \/ PumpEmits
    \/ \E n \in 1..RxSize : RxSink(n)
    \/ \E n \in 1..RxSize : console_read(n)
    \/ console_wait

Spec == Init /\ [][Next]_con_vars
------------------------------------------------------------------------------
(* Properties *)

\* On the wire every newline follows a carriage return, across writes, retries of
\* a short write, and the change from direct to queued output (con_last).
WireNewlines ==
    LET stream == <<wire_last>> \o pending
    IN  \A k \in 2..Len(stream) : stream[k] = "nl" => stream[k - 1] = "cr"

\* What is queued is what was taken, in order, with the chunk being sent at its
\* front: nothing is sent twice or lost when writers run between the copy and the
\* release of the space.
OutputExact ==
    /\ (con_tx_head - con_tx_tail + TxSize) % TxSize = Len(pending)
    /\ \A k \in 1..Len(pending) : con_tx[(con_tx_tail + k - 1) % TxSize] = pending[k]
    /\ pump.tmp = SubSeq(pending, 1, Len(pump.tmp))

\* The writer sleeps only when nothing is queued, the reader only when nothing came.
NoSleepOnOutput ==
    /\ pump.at = "asleep" => con_tx_head = con_tx_tail
    /\ typist = "asleep" => con_head = con_tail

\* What writers hand in goes out once, in order, with its newlines cooked, and neither
\* side sleeps on bytes (console_write, v_console_writer_step).
ConsoleSound == WireNewlines /\ OutputExact /\ NoSleepOnOutput
==============================================================================

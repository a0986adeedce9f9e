------------------------------- MODULE Stream --------------------------------
(***************************************************************************)
(* A byte stream as a device node (kernel/stream.c) over its two backends  *)
(* (portable/armv7e-m/stream_hw.c): "cdc", whose transfers return when the *)
(* host has the bytes and whose input is pushed into the stream's ring,    *)
(* and "uart", whose DMA reads the queue and writes the ring by itself.    *)
(*                                                                         *)
(* Reads, writes and waits are system calls: one action.  The writer task  *)
(* runs in thread mode: one action per access to what is shared.           *)
(***************************************************************************)
EXTENDS Integers, Sequences

CONSTANTS
    TX, RX,         \* V_STREAM_TX, V_STREAM_RX
    Burst,          \* bound: bytes per write, read and interrupt
    LateDone,       \* bound: a DMA may complete after uart_tx stopped waiting
    PartialReads    \* bound: a reader may leave bytes behind

VARIABLES
    backend,        \* the attach that was called
    up,             \* the far end is there
    txq, tx_head, tx_tail,
    rx_head, rx_tail,   \* for "uart" the DMA's index and u->rd
    tx_kick, rx_ready, tx_done,
    sender,         \* v_stream_writer_step: where it is, and its locals
    tx_dma,            \* the indices a UART transfer is reading, or {}
    listener,       \* the reader task: awake, or asleep in stream_wait
    queued,         \* ghost: the bytes taken and not yet given to tx(), in order
    flight,         \* ghost: the bytes of the transfer in progress
    last_byte            \* ghost: the last byte written

stream_vars == <<backend, up, txq, tx_head, tx_tail, rx_head, rx_tail, tx_kick, rx_ready, tx_done,
                 sender, tx_dma, listener, queued, flight, last_byte>>
RXV == <<rx_head, rx_tail, rx_ready, listener>>
TXV == <<txq, tx_head, tx_tail, tx_kick, tx_done, sender, tx_dma, queued, flight, last_byte>>

\* One slot of a ring stays empty.
StreamBounds == TX \in Nat /\ TX >= 2 /\ RX \in Nat /\ RX >= 2 /\ Burst \in Nat

Byte(k) == (last_byte + k) % (TX + 1)
Slots(from, n) == {(from + i) % TX : i \in 0..(n - 1)}

\* v_stream_register, by v_stream_cdc_attach or v_stream_uart_attach.
StreamInit ==
    /\ backend \in {"cdc", "uart"} /\ up = TRUE
    /\ txq = [i \in 0..(TX - 1) |-> 0] /\ tx_head = 0 /\ tx_tail = 0
    /\ rx_head = 0 /\ rx_tail = 0 /\ tx_kick = 0 /\ rx_ready = 0 /\ tx_done = 0
    /\ sender = [at |-> "look", n |-> 0] /\ tx_dma = {} /\ listener = "awake"
    /\ queued = <<>> /\ flight = <<>> /\ last_byte = 0
------------------------------------------------------------------------------
(* Output *)

\* MUTANT: the queue is filled to the last slot.
Room_All == TX - ((tx_head - tx_tail + TX) % TX)

Room == (tx_tail + TX - tx_head - 1) % TX

\* give_isr: a sleeper is woken, or the signal is kept.
GiveKick ==
    IF sender.at = "asleep" THEN sender' = [sender EXCEPT !.at = "run"] /\ tx_kick' = 0
    ELSE tx_kick' = 1 /\ UNCHANGED sender

\* stream_write: while the far end is down the bytes are dropped; else what fits
\* is taken, and the writer woken.
stream_write(len) ==
    LET n == IF len < Room THEN len ELSE Room
    IN  /\ up /\ n > 0
        /\ txq' = [i \in 0..(TX - 1) |->
             IF i \in Slots(tx_head, n) THEN Byte(1 + ((i - tx_head + TX) % TX)) ELSE txq[i]]
        /\ tx_head' = (tx_head + n) % TX
        /\ queued' = queued \o [k \in 1..n |-> Byte(k)]
        /\ last_byte' = Byte(n)
        /\ GiveKick
        /\ UNCHANGED <<backend, up, tx_tail, tx_done, tx_dma, flight, RXV>>

\* The writer finds the queue empty and takes kick, or sleeps on it for the
\* ticks its caller gave, and comes back.
SenderLooks ==
    /\ sender.at = "look"
    /\ sender' = [sender EXCEPT !.at = IF tx_head # tx_tail THEN "run" ELSE "take"]
    /\ UNCHANGED <<backend, up, txq, tx_head, tx_tail, tx_kick, tx_done, tx_dma, queued,
                   flight, last_byte, RXV>>

SenderTakes ==
    /\ sender.at = "take"
    /\ \/ tx_kick = 1 /\ tx_kick' = 0 /\ sender' = [sender EXCEPT !.at = "run"]
       \/ tx_kick = 0 /\ UNCHANGED tx_kick /\ sender' = [sender EXCEPT !.at = "asleep"]
    /\ UNCHANGED <<backend, up, txq, tx_head, tx_tail, tx_done, tx_dma, queued, flight,
                   last_byte, RXV>>

SenderTimesOut ==
    /\ sender.at = "asleep" /\ sender' = [sender EXCEPT !.at = "look"]
    /\ UNCHANGED <<backend, up, txq, tx_head, tx_tail, tx_kick, tx_done, tx_dma, queued,
                   flight, last_byte, RXV>>

\* MUTANT: the run ignores the wrap point.
Run_Wraps == (tx_head - tx_tail + TX) % TX

\* One contiguous run: the queue's wrap point ends it.
Run == (IF tx_head >= tx_tail THEN tx_head ELSE TX) - tx_tail

\* tx() is called with the run; while the far end is down it is dropped.
SenderStarts ==
    LET n == Run
    IN  /\ sender.at = "run"
        /\ \/ n = 0 /\ sender' = [sender EXCEPT !.at = "look"]
              /\ UNCHANGED <<tx_dma, queued, flight>>
           \/ /\ n > 0
              /\ queued' = SubSeq(queued, n + 1, Len(queued))
              /\ \/ ~up /\ sender' = [at |-> "free", n |-> n] /\ UNCHANGED <<tx_dma, flight>>
                 \/ /\ up /\ sender' = [at |-> "tx", n |-> n]
                    /\ flight' = SubSeq(queued, 1, n)
                    /\ tx_dma' = IF backend = "uart" THEN Slots(tx_tail, n) ELSE tx_dma
        /\ UNCHANGED <<backend, up, txq, tx_head, tx_tail, tx_kick, tx_done, last_byte, RXV>>

\* The DMA is done: v_stream_tx_done_isr, or the interrupt is lost.
DmaDone(irq) ==
    /\ tx_dma # {} /\ (irq => LateDone \/ sender.at = "tx")
    /\ tx_dma' = {} /\ tx_done' = IF irq THEN 1 ELSE tx_done
    /\ UNCHANGED <<backend, up, txq, tx_head, tx_tail, tx_kick, sender, queued, flight,
                   last_byte, RXV>>

\* MUTANT: uart_tx waits for the interrupt without a limit.
TxReturns_Forever == backend = "cdc" \/ tx_done = 1

\* tx() returns: cdc_tx when the host has the bytes, or not; uart_tx when tx_done
\* is given, or after 100 ticks.
TxReturns ==
    \/ backend = "cdc" \/ tx_done = 1
    \/ tx_done = 0 /\ (LateDone \/ tx_dma = {})

SenderEnds ==
    /\ sender.at = "tx" /\ TxReturns
    /\ tx_done' = 0
    /\ sender' = [sender EXCEPT !.at = "free"]
    /\ UNCHANGED <<backend, up, txq, tx_head, tx_tail, tx_kick, tx_dma, queued, flight,
                   last_byte, RXV>>

\* The space is free only now.
SenderFrees ==
    /\ sender.at = "free"
    /\ tx_tail' = (tx_tail + sender.n) % TX
    /\ flight' = <<>>
    /\ sender' = [at |-> "look", n |-> 0]
    /\ UNCHANGED <<backend, up, txq, tx_head, tx_kick, tx_done, tx_dma, queued, last_byte, RXV>>

\* hal_usb_cdc_connected changes; a UART is always up.
Plug ==
    /\ backend = "cdc" /\ up' = ~up
    /\ UNCHANGED <<backend, TXV, RXV>>
------------------------------------------------------------------------------
(* Input *)

Held == (rx_head - rx_tail + RX) % RX

\* give_isr(rx_ready).
Signal ==
    IF listener = "asleep" THEN listener' = "awake" /\ rx_ready' = 0
    ELSE rx_ready' = 1 /\ UNCHANGED listener

\* v_stream_rx_push_isr: what fits is kept, the rest counted and dropped.
RxPush(n) ==
    LET k == IF n > RX - 1 - Held THEN RX - 1 - Held ELSE n
    IN  /\ backend = "cdc"
        /\ rx_head' = (rx_head + k) % RX
        /\ Signal
        /\ UNCHANGED <<backend, up, rx_tail, TXV>>

\* The circular DMA writes, and interrupts at its half, at its end or when the
\* line goes idle.  It does not lap the reader (bound).
RxDma(n) ==
    /\ backend = "uart" /\ n <= RX - 1 - Held
    /\ rx_head' = (rx_head + n) % RX
    /\ Signal
    /\ UNCHANGED <<backend, up, rx_tail, TXV>>

\* stream_read, uart_rx.
stream_read(n) ==
    /\ listener = "awake" /\ Held > 0
    /\ PartialReads \/ backend = "cdc" \/ n >= Held
    /\ rx_tail' = (rx_tail + (IF n > Held THEN Held ELSE n)) % RX
    /\ UNCHANGED <<backend, up, rx_head, rx_ready, listener, TXV>>

\* MUTANT: the ring is not looked at before the wait.
Waiting_Blind == TRUE

\* stream_wait looks at the stream's own ring; a backend's it cannot see.
Waiting == backend = "uart" \/ rx_head = rx_tail

stream_wait ==
    /\ listener = "awake" /\ Waiting
    /\ (backend = "uart" /\ ~PartialReads) => rx_ready = 1 \/ Held = 0 \* it has read all there was
    /\ \/ rx_ready = 1 /\ rx_ready' = 0 /\ UNCHANGED listener
       \/ rx_ready = 0 /\ listener' = "asleep" /\ UNCHANGED rx_ready
    /\ UNCHANGED <<backend, up, rx_head, rx_tail, TXV>>

WaitTimesOut ==
    /\ listener = "asleep" /\ listener' = "awake"
    /\ UNCHANGED <<backend, up, rx_head, rx_tail, rx_ready, TXV>>

StreamNext ==
    \/ \E n \in 1..Burst : stream_write(n)
    \/ SenderLooks
    \/ SenderTakes
    \/ SenderTimesOut
    \/ SenderStarts
    \/ \E irq \in BOOLEAN : DmaDone(irq)
    \/ SenderEnds
    \/ SenderFrees
    \/ Plug
    \/ \E n \in 1..Burst : RxPush(n)
    \/ \E n \in 1..Burst : RxDma(n)
    \/ \E n \in 1..RX : stream_read(n)
    \/ stream_wait
    \/ WaitTimesOut

\* The writer is a task that gets to run, and its transfers end.
StreamFairness ==
    /\ WF_stream_vars(SenderLooks \/ SenderTakes \/ SenderTimesOut \/ SenderStarts
                             \/ SenderEnds \/ SenderFrees)
    /\ WF_stream_vars(\E irq \in BOOLEAN : DmaDone(irq))

StreamSpec == StreamInit /\ [][StreamNext]_stream_vars /\ StreamFairness
------------------------------------------------------------------------------
(* Properties *)

Unsent == Len(flight) + Len(queued)

\* The bytes of a transfer stay in place until it is over, and the queue behind
\* them holds what was taken, in order, and nothing else: writers only ever add
\* at the head (stream_write, v_stream_writer_step).
InPlace ==
    /\ \A k \in 1..Len(flight) : txq[(tx_tail + k - 1) % TX] = flight[k]
    /\ \A k \in 1..Len(queued) :
         txq[(tx_head - Len(queued) + k - 1 + TX) % TX] = queued[k]

\* A transfer is one run: the DMA never reads past the end of the queue, nor
\* bytes that were given free (uart_tx).
DmaWithin ==
    tx_dma # {} => /\ \A i \in tx_dma : i < TX /\ (i = tx_tail \/ i - 1 \in tx_dma)
                /\ tx_dma \cap Slots(tx_head, Room) = {}

\* Nobody sleeps on work: the writer sleeps only on an empty queue, and the
\* reader only when nothing has come.
NoSleepOnBytes ==
    /\ sender.at = "asleep" => tx_head = tx_tail
    /\ listener = "asleep" => rx_head = rx_tail

BytesQueued == queued # <<>>
QueueFreed == sender.at = "free"

\* Bytes that were taken leave the queue.
QueueDrains == BytesQueued ~> QueueFreed

\* Bytes leave as they were taken, a transfer reads only what is still queued, and
\* nobody sleeps on work (stream_write, v_stream_writer_step, uart_tx).
StreamSound == InPlace /\ DmaWithin /\ NoSleepOnBytes
==============================================================================

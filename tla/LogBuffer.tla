----------------------------- MODULE LogBuffer ------------------------------
(***************************************************************************)
(* The kernel's logger (kernel/utils.c): messages go into one of two       *)
(* buffers, the other is printed; any task may log or flush, an interrupt  *)
(* handler may log; and the ring behind /dev/kmsg keeps a copy of what was *)
(* printed.                                                                *)
(*                                                                         *)
(* A message is its number.  A step is one critical section, or one access *)
(* outside of any: v_log_flush prints and clears its flags outside.        *)
(***************************************************************************)
EXTENDS Integers, Sequences, SequencesExt

CONSTANTS
  Task,         \* tasks that log and flush
  Cap,          \* messages a buffer holds
  Messages,     \* messages logged in all
  Consoles,     \* the builds: subset of {"direct", "dma"} (VAIOS_PORT_CONSOLE_DMA)
  Failures,     \* transfers that the driver refuses to start
  Interrupted,  \* a flusher may lose the processor between its last two steps
  Starved,      \* a task that prints may be kept from the processor for 1000 passes
  RING_SIZE,    \* KMSG_RING_SIZE, in messages
  Word          \* the ring's positions are modulo this

LogBounds == Cap > 0 /\ RING_SIZE > 0 /\ Word % RING_SIZE = 0

VARIABLES
  storage,           \* the two buffers, each the messages below its head
  current,           \* which of them is current_writing (the other is current_reading)
  size_to_read,      \* log_buffer_size_to_read, in messages
  read_lock,         \* log_buffer_storage_read_lock
  pc,                \* where each task is in v_log or v_log_flush
  mine,              \* the message a task is logging
  shows,             \* the buffer a task prints
  console,           \* the build
  dma,               \* the transfer in flight, or none: the buffer and how much of it
  kring, khead, ktail, \* kmsg_ring and its free-running positions
  next, taken, out, read, \* GHOST: next number; messages accepted, printed, read from the ring
  failed                  \* GHOST: the transfers that were refused

logvars == <<storage, current, size_to_read, read_lock>>
kvars == <<kring, khead, ktail>>
vars == <<logvars, pc, mine, shows, console, dma, kvars, next, taken, out, read, failed>>

None == [b |-> 0, n |-> 0]

Init ==
  /\ storage = <<<<>>, <<>>>> /\ current = 1 /\ size_to_read = 0 /\ read_lock = FALSE
  /\ pc = [t \in Task |-> "idle"] /\ mine = [t \in Task |-> 0] /\ shows = [t \in Task |-> 0]
  /\ console \in Consoles /\ dma = None
  /\ kring = [i \in 0..RING_SIZE - 1 |-> 0] /\ khead = 0 /\ ktail = 0
  /\ next = 1 /\ taken = <<>> /\ out = <<>> /\ read = <<>> /\ failed = <<>>

Other == 3 - current
writing == storage[current]
Goto(t, where) == pc' = [pc EXCEPT ![t] = where]

-----------------------------------------------------------------------------
(* /dev/kmsg.                                                               *)

\* MUTANT: the reader's position is left where it was when it is overrun.
Oldest_Kept(h, tail) == tail

\* The reader's position once the head is at h: a full ring loses its oldest.
Oldest(h, tail) == IF (h - tail) % Word > RING_SIZE THEN (h - RING_SIZE) % Word ELSE tail

\* v_kmsg_append of one message.
v_kmsg_append(k, m) ==
  LET h == (k.head + 1) % Word
  IN  [ring |-> [k.ring EXCEPT ![k.head % RING_SIZE] = m],
       head |-> h, tail |-> Oldest(h, k.tail)]

\* The ring after msgs, and what the console shows.
Printed(msgs) ==
  LET k == FoldLeft(v_kmsg_append, [ring |-> kring, head |-> khead, tail |-> ktail], msgs)
  IN  kring' = k.ring /\ khead' = k.head /\ ktail' = k.tail

\* v_kmsg_read of one message.
v_kmsg_read ==
  /\ khead # ktail
  /\ read' = Append(read, kring[ktail % RING_SIZE])
  /\ ktail' = (ktail + 1) % Word
  /\ UNCHANGED <<logvars, pc, mine, shows, console, dma, kring, khead, next, taken, out, failed>>

-----------------------------------------------------------------------------
(* v_log.                                                                   *)

Fits == Len(writing) < Cap

\* The message joins the buffer being written (its prefix and its text, in one
\* critical section), after a swap when swapped.
Accept(m, swapped) ==
  /\ storage' = IF swapped THEN [storage EXCEPT ![Other] = <<m>>]
                ELSE [storage EXCEPT ![current] = Append(@, m)]
  /\ taken' = Append(taken, m)

\* MUTANT: the buffers are swapped while the other is still being printed.
InFlight_Unlocked == size_to_read > 0

\* The other buffer is being printed, or waits to be.
InFlight == read_lock \/ size_to_read > 0

\* The buffers change roles; the one to be written starts empty.
Swap == current' = Other /\ size_to_read' = Len(writing)

LogStarts(t) ==
  /\ pc[t] = "idle" /\ next <= Messages
  /\ mine' = [mine EXCEPT ![t] = next] /\ next' = next + 1 /\ Goto(t, "log")
  /\ UNCHANGED <<logvars, shows, console, dma, kvars, taken, out, read, failed>>

\* One pass of the wait loop, in the critical section.
LogTry(t) ==
  /\ pc[t] = "log"
  /\ \/ /\ Fits /\ Accept(mine[t], FALSE) /\ Goto(t, "idle") /\ UNCHANGED <<current, size_to_read>>
     \/ /\ ~Fits /\ ~InFlight /\ Swap /\ Accept(mine[t], TRUE) /\ Goto(t, "idle")
     \/ /\ ~Fits /\ InFlight /\ Goto(t, "wait") /\ UNCHANGED <<storage, current, size_to_read, taken>>
  /\ UNCHANGED <<read_lock, mine, shows, console, dma, kvars, next, out, read, failed>>

\* The inner loop: flush, sleep a tick, look again.
LogWait(t) ==
  /\ pc[t] = "wait"
  /\ Goto(t, IF InFlight THEN "wflush" ELSE "log")
  /\ UNCHANGED <<logvars, mine, shows, console, dma, kvars, next, taken, out, read, failed>>

\* MUTANT: the wait has no bound.
Stuck_Never == FALSE

\* The lock is held and nothing will release it: the transfer never began.
Stuck == /\ read_lock /\ dma = None
         /\ \A t \in Task : pc[t] \notin {"print", "wprint", "unlock", "wunlock"}

\* The passes may run out: in the middle of somebody's print when who prints is starved,
\* otherwise only where nothing is left to wait for.  (With the lock free, the flush of
\* the waiting logger itself prints.)
PassesRunOut == IF Starved THEN read_lock ELSE Stuck

\* spin_guard has counted its 1000 passes: lock and size are cleared, whoever prints.
LogGuard(t) ==
  /\ pc[t] = "wait" /\ PassesRunOut
  /\ read_lock' = FALSE /\ size_to_read' = 0 /\ Goto(t, "log")
  /\ UNCHANGED <<storage, current, mine, shows, console, dma, kvars, next, taken, out, read, failed>>

\* From a handler, or with interrupts masked: a full buffer drops the message.
v_log_isr ==
  /\ next <= Messages /\ next' = next + 1
  /\ \/ Fits /\ Accept(next, FALSE) /\ UNCHANGED <<current, size_to_read>>
     \/ ~Fits /\ UNCHANGED <<storage, current, size_to_read, taken>>
  /\ UNCHANGED <<read_lock, pc, mine, shows, console, dma, kvars, out, read, failed>>

-----------------------------------------------------------------------------
(* v_log_flush: called idle (pc "idle") or from v_log's wait ("wflush").    *)

Nested(t) == pc[t] \in {"wflush", "wprint", "wunlock", "wclear"}
Back(where) == IF where \in {"wprint", "wunlock", "wclear"} THEN "wait" ELSE "idle"
To(t, step) == IF Nested(t) THEN [print |-> "wprint", unlock |-> "wunlock", clear |-> "wclear"][step]
               ELSE step

\* MUTANT: a flush in progress does not stop another.
Busy_Never == FALSE

Busy == read_lock

\* The first critical section.
FlushBegins(t) ==
  /\ pc[t] \in {"idle", "wflush"}
  /\ IF ~Busy /\ (size_to_read > 0 \/ writing # <<>>)
     THEN /\ read_lock' = TRUE
          /\ Goto(t, To(t, "print"))
          /\ IF size_to_read = 0 THEN Swap /\ storage' = [storage EXCEPT ![Other] = <<>>]
             ELSE UNCHANGED <<storage, current, size_to_read>>
     ELSE /\ pc[t] = "wflush" /\ Goto(t, "wait") /\ UNCHANGED logvars
  /\ UNCHANGED <<mine, shows, console, dma, kvars, next, taken, out, read, failed>>

\* direct_dma_print of size_to_read, or v_print of the buffer: the copy for
\* /dev/kmsg is taken at once, the console reads the buffer while it works.
FlushPrints(t) ==
  /\ pc[t] \in {"print", "wprint"} /\ dma = None
  /\ IF console = "dma"
     THEN /\ \/ dma' = [b |-> Other, n |-> size_to_read] /\ UNCHANGED failed
             \/ /\ Len(failed) < Failures /\ UNCHANGED dma
                /\ failed' = failed \o SubSeq(storage[Other], 1, size_to_read)
          /\ Printed(SubSeq(storage[Other], 1, size_to_read))
          /\ Goto(t, To(t, "clear")) /\ UNCHANGED shows
     ELSE /\ shows' = [shows EXCEPT ![t] = Other]
          /\ Printed(storage[Other])
          /\ Goto(t, To(t, "unlock")) /\ UNCHANGED <<dma, failed>>
  /\ UNCHANGED <<logvars, mine, console, next, taken, out, read>>

\* The console is done; the read lock is released before the size is cleared.
FlushUnlocks(t) ==
  /\ pc[t] \in {"unlock", "wunlock"} /\ read_lock' = FALSE
  /\ out' = out \o storage[shows[t]] /\ Goto(t, To(t, "clear"))
  /\ UNCHANGED <<storage, current, size_to_read, mine, shows, console, dma, kvars, next, taken, read, failed>>

FlushClears(t) ==
  /\ pc[t] \in {"clear", "wclear"}
  /\ size_to_read' = 0 /\ Goto(t, Back(pc[t]))
  /\ UNCHANGED <<storage, current, read_lock, mine, shows, console, dma, kvars, next, taken, out, read, failed>>

\* dma_tx_complete_callback.
dma_tx_complete_callback ==
  /\ dma # None /\ dma' = None /\ read_lock' = FALSE
  /\ out' = out \o SubSeq(storage[dma.b], 1, Min({dma.n, Len(storage[dma.b])}))
  /\ UNCHANGED <<storage, current, size_to_read, pc, mine, shows, console, kvars, next, taken, read, failed>>

FlushStep(t) == FlushBegins(t) \/ FlushPrints(t) \/ FlushUnlocks(t) \/ FlushClears(t)

\* Whether t has the processor: unless Interrupted, a flusher keeps it from
\* releasing the lock to clearing the size (handlers still run).
Runs(t) == Interrupted \/ \A u \in Task \ {t} : pc[u] \notin {"clear", "wclear"}

Next ==
  \/ \E t \in Task : Runs(t) /\ (LogStarts(t) \/ LogTry(t) \/ LogWait(t) \/ LogGuard(t) \/ FlushStep(t))
  \/ v_log_isr \/ dma_tx_complete_callback \/ v_kmsg_read

LogStep(t) == Runs(t) /\ (LogTry(t) \/ LogWait(t) \/ LogGuard(t))

\* Every task runs, the idle task flushes on every pass, a transfer ends, and
\* the passes of a wait are counted (so that its guard, met again and again,
\* runs out).
Fairness ==
  /\ \A t \in Task : /\ WF_vars(LogStep(t))
                     /\ SF_vars(Runs(t) /\ LogGuard(t)) /\ WF_vars(Runs(t) /\ FlushStep(t))
  /\ WF_vars(dma_tx_complete_callback)

Spec == Init /\ [][Next]_vars /\ Fairness

-----------------------------------------------------------------------------
\* The first time each message is printed.
Once(s) == FoldLeft(LAMBDA acc, m : IF Contains(acc, m) THEN acc ELSE Append(acc, m), <<>>, s)

\* Messages reach the console in the order they were accepted, none skipped
\* unless its transfer was refused: whoever flushes, the buffer being printed
\* is never written, swapped or cut short by another.
InOrder == IsPrefix(Once(out), SelectSeq(taken, LAMBDA m : ~Contains(failed, m)))

\* A message is printed once.
PrintedOnce == out = Once(out)

\* Accepted, and neither shown nor in a transfer that was refused.
Unsettled == ToSet(taken) \ (ToSet(out) \cup ToSet(failed))
Logging(t) == pc[t] \in {"log", "wait"}
Idles(t) == pc[t] = "idle"

\* Every accepted message is printed, unless its own transfer was refused: the idle
\* task's flushes and the ones of waiting loggers empty both buffers.  A refused transfer
\* leaves the lock behind, and until some logger's passes run out on it nothing more is
\* printed; once that has cleared it, what was accepted before and since is.
DrainsUnlessStuck == (Unsettled # {}) ~> (Unsettled = {} \/ Stuck)

\* No task waits in v_log for ever for a flush that somebody else began, even
\* if its transfer never started.
LogReturns == \A t \in Task : Logging(t) ~> Idles(t)

\* What /dev/kmsg still holds.
Unread == [i \in 1..(khead - ktail) % Word |-> kring[(ktail + i - 1) % RING_SIZE]]

\* /dev/kmsg holds messages that were accepted one after the other, whatever
\* was read before and however often the ring was overrun; with what was read
\* nothing appears twice.
KmsgTail ==
  /\ \E i \in 0..Len(taken) : IsPrefix(Unread, SubSeq(taken, i + 1, Len(taken)))
  /\ IsInjective(read \o Unread)

\* The console and /dev/kmsg show accepted messages in order and once, whoever logs
\* and flushes (v_log, v_log_flush, v_kmsg_append).
LogExact == InOrder /\ PrintedOnce /\ KmsgTail

\* The log makes progress: each message accepted is printed unless its own transfer was
\* refused or a refused one still holds the lock, and no logger waits for ever (v_log,
\* v_log_flush, idle_task_function).
LogProgress == DrainsUnlessStuck /\ LogReturns
=============================================================================

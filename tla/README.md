# vaios in TLA+

vaios is a preemptive real-time kernel for Cortex-M4: a priority scheduler, semaphores
and mutexes with priority inheritance, a publish/subscribe bus, user-space pipes,
queues, two heaps, device files, a file-system worker, a peripheral-bus arbiter, a log
and a shell. This directory holds TLA+ models of it, the TLC configurations that check
them on small instances, and proofs of the most important invariants for every instance.
All paths below are relative to the root of the repository.

## 1. The system

| component | state | operations | talks to |
|---|---|---|---|
| scheduler (`kernel/task.c`) | `ready_lists`, `blocked_list`, `delayed_list`, `current_task`, the TCBs | create, spawn, delay, yield, exit, kill, context switch, tick scan, idle collector | everything that blocks |
| blocking primitives (`kernel/ipc.c`) | `sema_t`: count, limit, wait queue, observers; `rmutex_t`: owner, recursion; per TCB: `wait_sem`, `wait_mutex`, `held_mutexes`, `wnodes` | take, give, give from an interrupt, lock, unlock, recursive lock, `v_wait`, teardown of a dying task | scheduler lists, system-call results |
| system-call entry (`portable/armv7e-m/syscall.c`, `port.c`) | the deferred result of a blocked call, the pending PendSV | SVC dispatch, PendSV | scheduler |
| task tree and faults (`kernel/task.c`) | parent links, fault policy, restart counts, checkpoints, MMIO grants | create, spawn, kill, reap orphans, restart, save | scheduler, MemManage handler |
| user-space pipe (`include/upipe.h`, `kernel/task.c`) | `wr`, `rd`, two wait flags in memory shared by two tasks; one semaphore per end | reserve/commit, peek/release, wait, kick | two unprivileged tasks |
| bus, queued topics (`kernel/bus.c`) | block pool, per-topic stash, loans and queue; per-subscriber cursor, `expect`, `peeked` | declare, subscribe, unsubscribe, publish, reserve/commit/cancel, pop, peek/release | tasks and interrupts as producers |
| bus, pipe topics (`kernel/bus.c`) | a ring of stamped slots, `next_seq`, `pipe_wr`, reader's `expect`, `cursor` | the same calls without a critical section | one producer, one consumer |
| bus callback worker, snapshotter, handles (`kernel/bus.c`) | callback slots, their one semaphore, handles, the recorder's counters | subscribe with a callback, worker step, open, wait, close, pump | bus, descriptors, files |
| queues (`kernel/structure.c`) | spsc: head, tail; mpmc: ring, mutex, two counting semaphores, two hints | push, pop, peek, skip, reset, overwrite policy, try and wait through a descriptor | tasks |
| peripheral bus (`kernel/periph_bus.c`) | queue of jobs, `active`, `locked`, lock slots, a cyclic job, handles | submit, done, abort, lock, unlock, teardown, transfer | interrupts, tasks |
| peripheral bus manager (`portable/armv7e-m/pbus_hw.c`) | the pending transfer, `dma`, the kick, the SPI set-up | worker step, DMA completion, deadline, recovery | arbiter, HAL |
| file-system worker (`kernel/vfs.c`) | request slots, open handles, work semaphore, file-system mutex | submit, wait, finish, worker step, teardown | tasks, FatFs |
| named objects and descriptors (`kernel/devfs.c`, `ipc.c`, `structure.c`, `stream.c`) | descriptor tables, reference counts, sides of a queue | open, close, dup, dup2, close all | everything behind a descriptor |
| console and capture (`kernel/devfs.c`) | transmit and receive rings, the writer's semaphore, the capture buffer | write, writer step, receive interrupt, wait | tasks, UART or USB |
| byte streams (`kernel/stream.c`, `portable/armv7e-m/stream_hw.c`) | transmit queue, receive ring | write, writer step, DMA completion, receive, wait | tasks, DMA |
| heaps (`kernel/memory/`) | boundary-tagged blocks, free index (segregated lists or TLSF), a heap per task | `v_malloc`, `v_memalign_off`, `v_free`; malloc, calloc, realloc, free | everything |
| shell (`kernel/shell.c`) | line, cursor, history, screen; the helper's two queues | edit, complete, tokenize, execute, redirect, run by the helper | console, files, queues |
| kernel log (`kernel/utils.c`) | two buffers, `read_lock`, the kmsg ring | `v_log`, `v_log_flush`, DMA completion, kmsg read | all tasks, idle |
| formatted output (`kernel/utils.c`) | - | `vaprint_fmt`, `vaprint_fmt_buf`, `v_panic_vprintf`, `printf_fd`, number conversion | - |
| performance counters, start-up, Cortex-M port, host port | - | - | - |

What is hard here, and hard to reach with the unit tests (which run without preemption):

* a system call that blocks does not return a value: whoever wakes the caller delivers
  it. A give, a timeout, a hand-over and a kill may all race for the same task, between
  the call and the context switch;
* a task can be killed in any state: running, blocked on a mutex it should inherit,
  between the wake and the disarm of `v_wait`, while holding mutexes, while the
  file-system worker or a DMA works for it;
* priorities change while tasks sit in priority-ordered queues;
* rings read and written without a lock, by tasks, interrupts and DMA, with counters that
  wrap;
* messages evicted, freed and reused while a reader copies them;
* timeouts that race late answers (`v_pbus_lock`, `v_pbus_xfer_finish`, the manager's
  deadline);
* work handed to another task (console, streams, files, callbacks, the helper, the log),
  where each must be woken for the last item as well as the first;
* long sequences of calls on shared tables: descriptors, checkpoints, heap blocks.

`PROJECT.json` lists each of these hazards at its line, with the property that would
catch it.

## 2. Modules

| module | models | extends, instantiates |
|---|---|---|
| `Lists` | the linked lists of the kernel as sequences: unlink, insertion point | `SequencesExt` |
| `Kernel` | scheduler, semaphores, mutexes, `v_wait`, timeouts, exit, kill, idle collector | `Lists` |
| `ListLemmas` | lemmas about lists, their order and wrapping indices | `Lists` |
| `KernelProofs` | type correctness, no lost wakeup, mutual exclusion; lists, wait queues and status agree; the dead stay dead; deadlines, results of locks, priority inheritance; `v_wait` | `Kernel`, `ListLemmas` |
| `TaskTree` | ownership of tasks, fault policies, restart, checkpoints | `Lists` |
| `Fifo` | abstract specification: a bounded channel | - |
| `Upipe` | the user-space pipe and its two ends; implements `Fifo` | `Fifo` |
| `Spsc` | the lock-free fifo; a dropping one implements `Fifo` | `Fifo` |
| `Mpmc` | the queue of two semaphores and a mutex, and its descriptor calls | - |
| `ClientProofs` | theorems about the pipe and the file-system worker, what unprivileged tasks use | `Upipe`, `VfsWorker`, `ListLemmas` |
| `StreamProofs` | theorems about the lock-free fifo and the byte streams | `Spsc`, `Stream`, `ListLemmas` |
| `MpmcProofs` | theorem about the queue | `Mpmc`, `ListLemmas` |
| `BusProofs` | theorems about pipe topics and the callback worker | `BusPipe`, `BusWorker`, `ListLemmas` |
| `BusQueueProofs` | theorem about queued topics | `Bus`, `ListLemmas` |
| `PeriphBusProofs` | theorems about the arbiter and the manager behind it | `PeriphBus`, `PbusMgr`, `ListLemmas` |
| `Bus`, `BusPipe` | queued topics and the block pool; a pipe topic | - |
| `BusWorker` | callbacks, handles and the snapshotter, over what a topic promises | - |
| `PeriphBus`, `PbusMgr` | the arbiter; the task behind it that drives I2C and SPI | - |
| `VfsWorker` | files for unprivileged tasks | - |
| `Files` | descriptors and the named objects, queue handles and streams behind them | - |
| `Console`, `Capture`, `Stream` | the devices | - |
| `Heap`, `TaskHeap` | the kernel heap with both indexes; a task's own heap | - |
| `LineEditor`, `ShellText`, `ShellExec` | the shell: editing; text algorithms; running a line | - |
| `LogBuffer`, `Format` | the log; the formatters | - |
| `MCKernel`, `MCBus`, `MCBusPipe`, `MCTaskTree` | instances of one component | that component |
| `MCProgress` | instances of two components, one of them per behaviour | `Upipe`; `Kernel` |
| `MCMessaging` | instances of several components, one of them per behaviour | `PeriphBus`, `BusPipe`; `Kernel`, `TaskTree` |
| `MCServices` | the same | `Mpmc`, `Bus`, `BusWorker`; `Files`, `Console`, `Capture`, the heaps, the editor, the text algorithms |
| `MCWorkers` | the same | `Spsc`, `VfsWorker`, `Stream`, `PbusMgr`; `ShellExec`, `LogBuffer` |

Names follow the source: a variable has the name of the field it stands for, an action
the name of the function. Where one function is several steps the first has its name and
the others are named for what they do (`v_bus_pop`, `CopyOut`, `PopCheck`,
`FreeConsumed`). `PROJECT.json` maps each definition to its lines. Definitions marked
MUTANT are wrong variants of the definition after them, used to confirm that a property
can fail; no specification uses them.

One rule fixes the grain everywhere. A system call runs at the highest exception priority
and is one action; so is an interrupt handler and a critical section. Code that runs in
thread mode (worker tasks, and privileged tasks that call a function directly) takes one
action per critical section or per access to something shared.

### Kernel

The build modelled is the one that enters the kernel by SVC. A system call runs at the
highest exception priority and is one critical section, so it is atomic with respect to
tasks and interrupts. The tick and a give from an interrupt happen between system calls,
also between the end of a blocking call and the PendSV it pended: `pendsv` is a variable
and `PendSV` an action, and the caller is `current_task` until then although it is
parked already.

Loops inside a handler are not one action. `handler` says which loop is running
(priority-inheritance walk, wake of observers, scan of sleepers, scan of timeouts,
teardown of held mutexes); each iteration is a step, and no other action is enabled until
`handler.at` is `"user"` again. This keeps every action small enough to prove about, and
adds no interleaving the code does not have.

| action | code |
|---|---|
| `v_semaphore_take`, `BlockOn`, `Park` | `v_semaphore_take` and the part of `block_current_task` that parks |
| `semaphore_give_common`, `v_semaphore_give`, `v_semaphore_give_from_isr`, `WakeObserver` | the give, with the direct hand-over of the slot to the head of the queue and the wake of the observers |
| `v_mutex_lock`, `LockTake`, `InheritHop` | `mutex_lock_common`: take, or park and walk the chain of owners, `v_panic` past `MAX_PI_DEPTH` |
| `mutex_unlock_common`, `HandOver`, `FloorPriority` | recompute of the priority, transfer of ownership |
| `RecursiveRelock`, `v_mutex_unlock_recursive` | the recursive calls, where the count is decremented by the task itself |
| `v_wait_block_impl`, `v_wait_disarm_impl` | `v_wait`: scan, arm, park, and the separate system call that disarms |
| `v_kernel_tick`, `WakeSleeper`, `EjectWaiter`, `EjectMultiwaiter` | the tick and `wake_up_delayed_tasks_isr` |
| `task_exit_request`, `v_task_exit_impl`, `TearDown`, `TeardownMutex`, `LeaveWaitQueue` | exit and kill with `v_ipc_task_teardown` |
| `PendSV`, `task_yield`, `idle_task_function` | `task_switch_context`, yield, collection of dead tasks |

Time is relative: `delay_ticks[t]` is the deadline minus the tick count, so a run is
finite. It cannot show what happens when the 32-bit tick count wraps (see section 7).
What tasks do between system calls is left open: a running task may make any call at any
time, within the sets `TakeTicks`, `WaitTicks`, `DelayTicks`, `FdLists`, `Recursive`,
`MayExit` and `MayRelock` that an instance chooses.

### TaskTree

Ids only increase, so a task is its id. `v_task_create`, `v_task_spawn`, `v_task_kill`,
exit, a fault in thread mode and the idle task's collection are actions; the reaping loop
is one action per pass, in the order in which the code walks its lists. A restart makes
the new TCB from the old one field by field, and the lineage keeps what it was asked for
in ghosts, so that `RestartFaithful` can compare. Whether an allocation succeeds is a
choice. `Uses` picks the calls that a system makes.

### Upipe and Fifo

The ring lives in user memory, so every access to a shared field is a step. `wr` and
`rd` wrap at `Mod`. The semaphore of an end has one waiter and is modelled by what
`Kernel` shows of it: a token and a parked flag. `Restart` puts an end back at the start
of its code at any point, as `task_fault_restart` does for a task that faulted in user
mode; the ghost `restarted` remembers it. `Fifo` is the promise: a queue of at most
`Capacity` items, sent at one end and received at the other. The refinement mapping reads
the queue off the ring between `rd` and `wr`.

### BusPipe

A pipe topic has one producer, one consumer and no lock; each load and store of a shared
field is an action. A payload has two words, each the number of its message, so a torn
copy is visible. Numbers of messages are exact in the ghosts `pub` and `seen`; `next_seq`,
`expect` and the stamps wrap at `Mod`. `use`, chosen in the initial state, says whether
the pipe overwrites, whether the producer is an interrupt (then the reader does not run
before it ends) and whether the reader may leave and come back. Its specification is
called `PipeSpec` (`PipeInit`, `PipeNext`), since `MCMessaging` extends it next to
`PeriphBus`.

`NoLostNotify` says that a reader about to sleep has a token coming whenever there is a
message it could read. In a ring of one slot that overwrites, `v_bus_cancel` leaves the
last message counted and not readable, and the reader may sleep over that one until the
next publication: the property asks a ring of one slot for a token only when its message
is readable. Nothing is lost by it: the reader could not have read that message.

### Bus

A chain of blocks threaded through `desc[].next` is a sequence. Critical sections are
atomic except that each iteration of a loop inside one is an action during which
everybody else is kept out: by `alloc` in `alloc_msg`, by `giving` in `free_chain`, by
`purging` in the loop of `v_bus_unsubscribe` that frees what nobody is left to read. Copies
are outside critical sections, block by block. The 16-bit epoch of a block is reduced to
what it is compared for: whether the block read was freed since. `use` again names the
application: topics, reservations, number of producers, which readers leave. Its
specification is `BusSpec` (`BusInit`, `BusNext`), since `MCServices` extends it next to
`Mpmc`; for the same reason `BusWorker` has `CbSpec`, `Stream` `StreamSpec` and
`VfsWorker` `VfsSpec`.

### BusWorker

A topic here is what the other two modules promise of one: each subscription has a
sequence of unread messages and a number missed. On top of it: the callback slots with
the worker's scan (`NextSlot`), which drains every slot for one signal; descriptors with
the blocking receive, opened in steps that can each fail; and the snapshotter, which
counts what it wrote, failed to write and missed.

### Spsc and Mpmc

`Spsc` has an action per access to `head`, `tail` and the buffer on either side, also for
the calls that hand out a run in place. `content` is the channel's content; `FifoStep`
says that a step of a dropping fifo is a step of `Fifo`. In `Mpmc` a privileged task
takes one action per system call it makes (take, lock, unlock, give), so any number of
pushes and pops overlap; a descriptor's try or wait is one action.

### PeriphBus and PbusMgr

Two kernel tasks lock the bus, a user task has a handle and a cyclic job comes round. A
locker is preempted between the critical sections of `v_pbus_lock`; the process `Kernel`
stands for interrupts, system calls and teardown, which run `dispatch()` to its end.
`PbusMgr` takes one transfer at a time from the arbiter and runs it by DMA or polled;
the hardware is external and may fail, complete late or never. Transfers are numbered in
turn, modulo `Xfers`. Its specification is `MgrSpec` (`MgrInit`, `MgrNext`), since
`PeriphBusProofs` extends it next to `PeriphBus`.

### VfsWorker

`req` is the table of slots. A call is its caller and a number, so that an answer can be
told from another's. The worker's steps, a privileged task in the file system and the
callers interleave; a task may be killed wherever `KillAt` says. What FatFs answers is a
choice.

### Files, Console, Capture, Stream

`Files` has two tasks with a descriptor table each and every kind of object that counts
its openers. In `Console` and `Stream` the writer task's copy, hardware call and release
are separate actions, and writers, readers and interrupts run between them. The UART
backend of a stream reads the queue and writes the ring by DMA.

### Heap and TaskHeap

Sizes are asked for in bytes and rounded up in a word of `Word` bytes, as the code does
in 32 bits; addresses are integers in units of the alignment. `hdr` holds what every
word would pass for as a header, the stale ones that merging left included, because
`v_free` decides by them. Both free indexes are modelled: `algo` is chosen in the
initial state. `TaskHeap` computes sizes modulo the word size.

### LineEditor, ShellText, ShellExec, LogBuffer, Format

`LineEditor` runs bytes through `shell_poll`; the terminal is a row of cells and a
column, and may only be reached by printing characters and backspaces, as in the code.
`ShellText` and `Format` hold pure algorithms next to reference definitions; a state is
an input, and the tokenizer, which works in place, is a state machine. `ShellExec` has
the shell and its helper as two processes with two queues of one slot. `LogBuffer` has
an action per critical section of `v_log` and `v_log_flush` and per access outside.

## 3. Runs

Passing runs explore the whole state space of their instances. Most invariants are
conjunctions of named parts, each with its own comment in the component's module.

| run | instance | shows |
|---|---|---|
| `kernel_kill` | idle and three tasks of rising priority, a binary semaphore given by tasks and interrupts, a recursive mutex, untimed and 1-tick calls, the lowest task may exit or be killed anywhere | `TypeOK`, `NoLostWakeup`, `MutexOwnership`, `ListsSound`, `LocksSound`, `DeadStaysDead` |
| `kernel_wait` | three tasks, takes of and `v_wait` on two binary semaphores, with and without a timeout, delays of 1 and 2 | `MultiwaitSound`, `NothingOverdue` |
| `progress` | two components; fair | `TimedWaitEnds`, `TopPriorityRuns` (`Kernel`), `RingSound`, `FifoSpec`, `SleeperWakes`, `DataConsumed` (`Upipe`) |
| `messaging` | four components, below | `PipeSound` (`BusPipe`), `ChainsSound` (`Kernel`), `Arbitration`, `TransfersMine` (`PeriphBus`), `TreeSound` (`TaskTree`) |
| `services` | eleven components | `FilesSound`, `OutputSound` (`Console`, `Capture`), `HeapsSound` (`Heap`, `TaskHeap`), `EditorSound`, `TextExact`, `FormatExact`, `MpmcSound`, `BusSound`, `LoansBalance` (`Bus`), `ConsumersServed` (`BusWorker`) |
| `workers` | six components; fair | `RequestsSound`, `FirstSlotServed` (`VfsWorker`), `StreamSound`, `QueueDrains`, `ManagerSound`, `TransferEnds` (`PbusMgr`), `CommandsSound`, `CommandReturns` (`ShellExec`), `LogExact`, `LogProgress`, `SpscIsFifo` |

`MCProgress`, `MCMessaging`, `MCServices` and `MCWorkers` put independent components
into one run. A behaviour runs one of them: `part` is chosen in the initial state and
never changes. The components with theorems are extended and have their own variables,
so that the run checks the very formulas the theorems are about; for the others the
variables `v1`, `v2`, ... are the component's variables in the order of its declaration,
the rest staying 0. (`Kernel` has its own variables in `kernel_kill` and `kernel_wait`,
where its theorems' formulas are the properties of the run; in the other runs it is one
part among several.) So the state space is the sum of the components', and a property
reads "if this is the component, then". The last three do not check for deadlock, since
components with a bound on calls stop there and a system that panics stops for good; all
other passing runs do.

Runs that end in a violation are disagreements between the code and what the repository
says of it; each is a finding of `PROJECT.json` with the line it contradicts.

| run | property | what happens |
|---|---|---|
| `kernel_stale` | `WaitResultNegative` | a timed-out take leaves `wait_sem` set; a later `v_wait` of that task that times out is ejected as a semaphore waiter and returns 0, "a valid ready index" |
| `kernel_undead` | `DeadStaysDead` | a task killed inside a timed `v_wait` keeps `in_multiwait` and its deadline; the tick makes it ready again |
| `pipe_resubscribe` | `ReaderAligned` | a producer task is preempted between `next_seq` and `pipe_wr` while the reader subscribes anew: the reader starts one slot off and never reads again |
| `bus_overrun` | `CopyInRange` | a message of two blocks is evicted while it is copied; the reader follows the `next` of a freed block to `V_BUS_NIL` |
| `tree_top` | `OrphansOnly` | the search for a task by id leaves out the ready list of `MAX_PRIORITY`; when another task exits, a living owner that is ready there is taken for gone and its child is reaped |
| `tree_orphan` | `NoOrphans` | `find_orphan` looks at one task only: a child of a living task that comes first in the walk hides the orphans behind it |

Met while modelling, in the models but without a run of their own. Where a constant
switches the case on, the passing runs leave it off and the constant is named:

* kernel: a task killed after a give woke its `v_wait` and before it disarmed leaves its
  observer nodes linked (`kernel/ipc.c:908` tests `in_multiwait` only; `FdLists` and
  `MayExit` both not empty); killing a task blocked on a mutex it owns itself hands the
  mutex to the dying task (`kernel/ipc.c:871`; `MayRelock` and `MayExit`); a waiter that is
  boosted while queued is not moved, so the head of a wait queue need not be the most
  urgent waiter, as `kernel/ipc.c:258` says it is, and the mutex goes to a less urgent one
  with nothing lent to it: with a fourth task `ChainLent` fails
  (`docs/changelog/2026-05-22-fix-priority-inheritance.md` calls it a known limitation); a
  plain chain of `MAX_PI_DEPTH + 1` owners panics, and `kernel/ipc.c:292` says a deeper
  chain is a cycle;
* tasks: `v_task_spawn` compares the new priority with the caller's boosted one; an
  allocation that fails inside it panics although the call has an error to return
  (`NoFaultPanic` is about faults only); a task spawned or restarted at `MAX_PRIORITY` is
  not found by its id right away (`kernel/task.c:1315`), so it runs without owner and
  policy while the spawner is told that there is no memory, or the fault handler that
  nothing was restarted. `messaging` keeps its tasks below that priority;
* bus: a message linked while `v_bus_subscribe_cb` sets its notify pointer signals nobody
  (`kernel/bus.c:1097`, `SetupRaces`); the snapshotter meets a message wider than its
  buffer and counts it neither as written nor as missed (`kernel/bus.c:980`, `SnapSizes`);
  `alloc_msg` evicts a message, meets a pinned one and gives up, although
  `kernel/bus.c:410` says it "never evicts for a message that still wouldn't fit";
* queues: `mpmc_reset` races with calls in progress and gives no hint
  (`kernel/structure.c:487`, `ResetRaces`); a try through a descriptor can wait for the
  queue's mutex inside a system call (`MeetsLock`, `OneAttemptNoWaiting`); the producer of
  an overwriting fifo moves the tail the consumer copies from (`kernel/structure.c:114`,
  `Races`);
* peripheral bus: a task killed inside `dispatch()` leaves the bus idle with jobs queued
  until the next call (`KillAt`);
* files: a wait that times out frees a slot that the worker still has
  (`kernel/vfs.c:808`, `Timeouts`); a task that dies between the answer and the
  collection leaves its slot, and one that dies while the worker opens for it leaves the
  handle (`kernel/vfs.c:790`, `KillAt`); with no free slot the teardown closes a file
  inline, while the worker may be in the file system (`kernel/vfs.c:770`, `Slot` of
  two); a task that dies while it waits for its own close has the file closed twice,
  since the teardown queues a close of each handle it owns (`kernel/vfs.c:764`) and the
  worker asks only whether the handle is in use: a task that opens a file in between and
  gets that handle has it closed under it; the worker scans from the first slot, so
  later ones can starve; closing the last descriptor of a held mutex frees it
  (`kernel/ipc.c:535`, `CloseLocked`);
* streams: a DMA that completes after `uart_tx` stopped waiting ends the next transfer's
  wait (`portable/armv7e-m/stream_hw.c:64`, `LateDone`); the wait of a reader that left
  bytes behind sleeps on them (`kernel/stream.c:101`, `PartialReads`);
* heaps: `v_malloc` and `v_memalign_off` round the size up to words in 32 bits without a
  test, so that the last sizes of the range become 0 and are granted the smallest block
  (`kernel/memory/memory.c:112` and `:188`). `Need` computes it modulo `Word`; a run whose
  `Asks` holds such a size, 127 with `Word` 128, violates `GrantFits`. The sum that
  `v_memalign_off` reserves can wrap too (`:201`), and what it then writes is outside the
  arena: `HeapBounds` excludes it. A task's own heap rounds the same way (`Sizes`);
* capture: where the buffer cannot be allocated `capture_write` drops the output and
  returns its length (`kernel/devfs.c:467`). There is then nothing to read, the note that
  output was cut included; `Capture` and `ShellExec` have the case in their passing runs,
  and their properties say so;
* log: `v_log_flush` releases `read_lock` before it clears the size
  (`kernel/utils.c:1167`), so a flush in between prints the buffer again, although
  `kernel/task.c:948` calls it "self-gated by its read_lock" (`Interrupted`, `PrintedOnce`).
  A logger that ran out of its 1000 passes clears the lock and the size whatever the
  flusher does (`kernel/utils.c:1038`): that of a flusher kept from the processor for so
  long is cleared in mid print, and its buffer swapped and overwritten (`Starved`, `InOrder`).
  A refused DMA start leaves `read_lock` set until that happens: what is accepted
  meanwhile is not printed, so `LogProgress` excuses waiting while `Stuck`, and only then;
* formatting: a format that ends inside a conversion is read past its end; a lone `%` at
  the end is printed by `vaprint_fmt` and dropped by `printf_fd`, which also goes on
  after a failed write. The formats of the run stay clear of the first.

### Bounds and why they are enough

Kernel and pipe. Three tasks above idle are what inheritance needs to show a chain (low
owns what middle waits for while it owns what high waits for) and what a wait queue
needs for an order of two; two mutexes what a partial unlock needs. One tick is the
shortest timeout and already races every give, since a tick may come at any point; two
are needed for an order of sleepers, and `progress` has delays of both, locks of one
tick and two tasks of the highest priority above a third. Waits on two semaphores at
once (`kernel_wait`) are what it takes to be woken by one while armed on the other; takes
in it wait for ever or not at all, since a timed one leads to `kernel_stale`.
`kernel_kill` kills one task in every state it can be in; with the recursive mutex it
may die between the decrement of the recursion count and the unlock. A ring of two slots
is empty, half full and full, with counters modulo 4 that wrap every second time round.

`messaging`. Pipe: three slots and sequence numbers modulo 20 do not divide, so slot and
number go apart at the wrap if they can; six messages lap a reader of three slots and
catch it again; a task or an interrupt feeds it, overwriting or not. `Kernel`: three
tasks, two mutexes, locks and delays of one tick. Chains of two owners form and are
resolved; a chain that forms behind a second waiter takes a fourth task, and there
`ChainLent` fails, as told above. `PeriphBus`: two lockers of different
priority and as many slots, a handle and a cyclic job, timeouts, and kills everywhere
but inside `dispatch()`. `TaskTree`: five ids, one child per task, restarts up to one,
four uses (kill, faults under changing policies, checkpoints, grants); a spawn asks for
the default policy where no task faults and where policies are set afterwards. All tasks
have priority 1 of 2: at `MAX_PRIORITY` the tree breaks (`tree_top`).

`services`. `Files`: two tasks, two descriptors each, two objects, one name and queue
handles enough for all. `Console`: rings of four and two, chunks of two, texts with and
without newlines. `Capture`: six cells, and a heap that gives the buffer or not. `Heap`:
18 units of four bytes, requests of 10 and 16 bytes that round up to three and four
units, an aligned one: enough to split, merge both ways and leave stale headers, with
TLSF classes that are not exact; a word of 128, which these sizes do not wrap.
`TaskHeap`: 14 units, two sizes, a stack near and far. `LineEditor`: lines of three
characters, one typed ahead; one instance remembers two lines, of letters and what
completion adds, the other types words and remembers one. `ShellText`: lines of five
characters over a letter, a space and both quotes. `Format`: all formats of two pieces
out of fourteen, two argument lists, buffers of five and less. `Mpmc`: two tasks that
call it and one with a descriptor, capacity two, both policies. `Bus`: three blocks hold
a message of two and one more, or the reservations of two topics and one free block;
three uses: two producers (symmetric) and two readers of an overwrite topic, of which
one leaves; reservations on two topics; readers in place. The second or third call finds
the pool exhausted by the ones before. `BusWorker`: two callbacks, a handle and a
recording, queues of one, two messages.

`workers`. `VfsWorker`: two tasks, three slots, one file, one privileged caller.
`Stream`: rings of three and two, both backends. `PbusMgr`: both kinds, two SPI devices,
three transfer numbers. `ShellExec`: four descriptors, a capture of two chunks and
commands of three, so that it fills, or whose buffer is not allocated. `LogBuffer`: two
tasks, buffers of one message, three messages, both consoles, one refused transfer, a
kmsg ring of two; a waiting logger runs out of passes only on a lock that nobody will
release (`Starved` off). `Spsc`: four cells, five values, so that a stale cell shows.

Every other counter is bounded in a guard by a constant that says so in the module.

### Fairness

`Kernel`: strong fairness of `v_kernel_tick` and `PendSV`, because the hardware keeps an
exception pending while a handler runs and takes it when the handler returns; weak
fairness of the steps of a handler, which are loops over finite lists. Nothing is
assumed of tasks: a running task may never call the kernel again, and `TopPriorityRuns`
holds because the tick preempts it.

`Upipe`: weak fairness of the steps inside an operation and of the consumer coming back
for more. The producer may stop; the timeout is never assumed to come, so `SleeperWakes`
is about the kick alone.

`workers`: every task that has something to do gets to run, which the scheduler gives the
worker tasks by their priority; what the application does is never assumed.

* `VfsWorker`: weak fairness of the worker's own steps, of the file system's answers, of
  the privileged task leaving the file system and of the waiting callers; strong fairness of
  the worker taking the mutex, which its queue in priority order gives.
* `Stream`: weak fairness of the writer task and of a running DMA completing.
* `PbusMgr`: weak fairness of the worker's steps and of its deadline; strong fairness of
  taking a transfer back. That a DMA completes is not assumed.
* `ShellExec`: weak fairness of the shell's and the helper's steps.
* `LogBuffer`: weak fairness of a task inside `v_log` or `v_log_flush` and of the
  completion; strong fairness of the guard that clears a stuck `read_lock`.

In `MCWorkers` and `MCProgress` a line of the fairness is the disjunction of one step of
each component. Since `part` never changes, at most one disjunct can occur in a
behaviour, so the line says of each component what that component's own `Fairness` says.

## 4. Proofs

| theorem | statement | for every |
|---|---|---|
| `KernelProofs!TypeCorrect` | `Spec => []TypeOK` | set of tasks, priorities, semaphores, mutexes |
| `KernelProofs!WakeupSafe` | `Spec => []NoLostWakeup` | the same |
| `KernelProofs!MutexSafe` | `Spec => []MutexOwnership` | the same |
| `KernelProofs!ListsSafe` | `Spec => []ListsSound`, `FdLists = {}`, `~MayRelock` | the same |
| `KernelProofs!DeadSafe` | `Spec => DeadStaysDead`, the same hypotheses | the same |
| `KernelProofs!OverdueSafe` | `Spec => []NothingOverdue`, the same hypotheses | the same, delays |
| `KernelProofs!LockResultSafe` | `Spec => []LockResultTrue`, the same hypotheses | the same |
| `KernelProofs!InheritSafe` | `Spec => []Inheritance`, the same hypotheses | the same, caps of the walk |
| `KernelProofs!LocksSafe` | `Spec => []LocksSound`, both | the same |
| `KernelProofs!MultiwaitSafe` | `Spec => []MultiwaitSound`, `MayExit = {}`, `TakeTicks \subseteq {0, V_WAIT_FOREVER}`, `~MayRelock` | the same, lists of descriptors, timeouts of `v_wait` |
| `KernelProofs!WaitListsSafe` | `Spec => []ListsSound`, as `MultiwaitSafe` | the same |
| `ClientProofs!RingSafe` | `Spec => []RingSound` | ring of two slots or more, counter that wraps at a multiple of it, set of items |
| `ClientProofs!RingIsFifo` | `Spec => FifoSpec` | the same |
| `StreamProofs!SpscImplementsFifo` | `Spec => SpscIsFifo`, without `Races` | capacity of two or more |
| `MpmcProofs!MpmcSafe` | `Spec => []MpmcSound`, without `MeetsLock` and `ResetRaces` | capacity, finite sets of privileged and unprivileged tasks |
| `PeriphBusProofs!ArbitrationSafe` | `Spec => []Arbitration`, `"dispatch"` not in `KillAt` | set of tasks, finite set of lock slots, priorities, period |
| `PeriphBusProofs!TransfersSafe` | `Spec => []TransfersMine` | the same, any `KillAt` |
| `PeriphBusProofs!ManagerSafe` | `MgrSpec => []ManagerSound` | set of SPI devices, number of transfer numbers |
| `ClientProofs!AnswersSafe` | `VfsSpec => []P` for `AnswerMine`, `SlotsAccounted`, `FilesAccounted`, `NoForgottenRequest`; `Patient` | set of tasks, number of slots and of handles |
| `ClientProofs!RequestsSafe` | `VfsSpec /\ []SlotsLeft => []RequestsSound`, `Patient` | the same |
| `BusProofs!PipeSafe` | `PipeSpec => []PipeSound`, `StaysSubscribed` | number of slots, first sequence number, even counter range that exceeds twice the messages published and the slots |
| `BusProofs!ConsumersSafe` | `CbSpec => []ConsumersServed`, `Orderly` | finite set of callbacks, set of handles, depth of the queues, number of messages |
| `BusQueueProofs!BusSafe` | `BusSpec => []BusSound` | number of blocks, finite sets of topics and readers, set of publishers, uses |
| `StreamProofs!StreamSafe` | `StreamSpec => []StreamSound`, `Timely` | sizes of the queue and the ring, bytes, sizes of writes |

Each inductive invariant was checked with TLC on an instance before it was proved. The
hypotheses named in the table leave out cases that are listed in section 3 as met while
modelling: there the property does not hold, and the runs leave them out by the
same constants. They are hypotheses of the theorem, not assumptions of the module.

### Kernel

`TypeOK` includes that a semaphore never counts past its limit and that an inheritance
walk is always on behalf of a lock. Assumptions on the constants, all in `Kernel`:
`TaskAssumption` (the idle task is a task and never exits, base priorities are
priorities), `ObjAssumption` (semaphores and mutexes are distinct objects, a semaphore
starts within its limit, `v_wait` is not given the same descriptor twice),
`BoundAssumption` (ticks are naturals or `V_WAIT_FOREVER`), `InitReadyAssumption`
(`main` leaves every task once on the ready list of its base priority). Task sets need
not be finite. TLC evaluates them in each kernel run.

The argument. `NoLostWakeup` and `MutexOwnership` are not inductive alone. That the
unlock of a mutex nobody waits for may set its count needs the tie between count and
owner, since only then is the count 0; that a lock which finds the count positive may
make itself the owner needs that tie again, and that nobody is queued; and both need the
types. The inductive invariant is `IInv == TypeOK /\ NoLostWakeup /\ MutexOwnership`.
Each action has a lemma. Most let nobody join a queue and leave counts, owners and held
lists alone, which `Frame` settles at once; the rest are take, give, lock, hand-over,
unlock, ejection and teardown. The linked lists are sequences, and what the kernel does
to them (append, unlink one, insert by priority, take the head) is described once in
`ListLemmas`: the element sets of the results, that duplicates do not appear, that a
sequence stays a sequence of tasks. `Unlink` and the insertion point are written without
recursion for this reason.

Since the constants are arbitrary, `TypeCorrect`, `WakeupSafe` and `MutexSafe` also cover
what the passing runs keep apart: kills inside `v_wait`, relocks of an own mutex, chains of
any depth. `ListsSafe` to `LocksSafe` have two hypotheses. `FdLists = {}`: no task calls
`v_wait`, since a task killed inside one comes back (`kernel_undead`). `~MayRelock`: no
task locks a mutex it owns, since the teardown of a task queued for its own mutex hands
the mutex to the dead (section 3). Kills, timeouts,
hand-overs, delays and interrupts are all allowed, at any point.

`MultiwaitSafe` and `WaitListsSafe` are about a system that does use `v_wait`, and where
nobody else ends its tasks (`MayExit = {}`), a take or a lock waits for ever or not at
all, `v_wait` having any timeout, and no task locks a mutex it owns. Each of the three is
needed: without the first `kernel_undead` shows the violation, without the second
`kernel_stale` does.

`ListsSafe`. `LInv` says, list by list, who is on it. `Scheduler`: each list links once
each exactly the tasks whose status names it, the one being torn down excepted. `Queues`:
the same for the wait queues and `wait_sem`. That a task which is moved was where the code
takes it from needs more: `RunInv`, that the caller of a system call runs and so is on no
list; `HandlerInv`, that a lock in progress is the running task's and a teardown that of a
task not yet dead; `WaiterInv`, that nobody waits for a mutex he owns, without which a
teardown would wake the task it tears down; `DeadInv`, that the dead hold nothing and wait
for nothing, though a timeout looks at `wait_sem` and not at the status; `NoMultiwait`.
`DeadStaysDead` is a consequence for each step.

`OverdueSafe`. `TimeInv`: the delayed list is in the order of deadlines (`SleepOrder`), so
that the head not being due settles the rest; deadlines of sleepers are ahead, or now
while the tick walks the list; and a blocked task waits for the object its call names, so
that the scan of `blocked_list` passes over none of them.

`LockResultSafe`. `ResultInv`: only a ready task has a result, and the result of a lock
agrees with the owner. It is kept because a mutex is given away by the running task or
by one being torn down, neither of which is a ready task that lives, and given to a task
that is told so in the same step.

`InheritSafe`. The queue of a mutex is not sorted by priority: a task in it may be
boosted later. What is kept is `QueueOrder`: each has at least the base priority of those
behind it. It makes the first waiter fit to own the mutex, and the floor of an unlock,
which looks at first waiters only, high enough. `WalkInv` carries what the first hop did
to the end of the walk, `BaseInv` that nobody runs below its base priority.

`MultiwaitSafe`. `LInv` does without `NoMultiwait` here, and `WInv` comes to it. `TaskOk`:
what a task is inside says where it is parked; in particular `wait_sem` is set only while
it is blocked there, which is what keeps the tick from taking a `v_wait` for a timed take,
and whoever is woken from `v_wait` has a negative result and is in no multi-wait any more.
`NodesOk`: an observer list links, once each, the tasks with a node for its semaphore.
`WatchOk`: none of the semaphores a parked task watches counts, unless its observers are
being woken this very moment; the scan that finds none ready and the arming that follows
are one system call, and a give that leaves the count positive goes on to wake all
observers. `WaitHandler`: no teardown is on, and a lock in progress has the ticks it was
given.

### Upipe

The counters of a pipe are 32 bits wide and its slot count is a power of two
(`include/upipe.h:23`), so they wrap at a multiple of it; `RingAssumption` asks for no
more, and the theorems hold for any such pair. `RingSound` is not inductive: an end
checks the ring, and uses the slot some steps later. `GrantHolds` says why that is
sound: the peer's counter only gives an end more of what it saw. `FlagUp` says that an
end which has not faulted keeps its flag up from before its second look until it is
awake; with it `NoLostKick` follows, since a commit that comes after the look finds the
flag. `IInv == RingSound /\ GrantHolds /\ FlagUp`. For the refinement the committed part
of the ring, from `rd` to `wr`, is the channel's queue: a commit appends, a release
takes the head, every other step leaves it alone, the store into a slot included, since
the slot is outside that part. Faults and restarts are steps like the others.

### Spsc

The element copies and the index stores are separate steps. `ProdInv` says that a write
in progress fits in front of a tail that can only move away, and what it has stored so
far; `ConsInv` that a read in progress takes elements that are there, and what it has
copied so far. `IInv == TypeInv /\ FifoExact /\ ProdInv /\ ConsInv`. An overwriting write
that moves the tail under a reader breaks `ConsInv`; hence `~Races`. A dropping fifo may
be used by both ends at once as the code intends, and the theorem covers it.

### Mpmc

`IInv` has three parts. `QueueInv`: the ring between tail and head is the content, and an
element that is stored and not counted lies under the head. `CallInv`: what each task can
be doing, that the task in the section is the owner and the others are parked once each,
and that a reset is alone. `SemInv`: each semaphore plus the calls in between is the
number of elements, or holes; and, for each hint, a bound that is stronger than
`NoLostHint`: while a reader sleeps the hint is not kept, and there are at least as many
calls on the way (pushes that have yet to give the hint, woken readers that have yet to
look, pops that have yet to take) as there are elements. "At least one" is not inductive:
the one on the way may be the pop that takes one of two elements, and nobody is left for
the other. The counts are cardinalities of sets of tasks; `OneMoves` says how a step of
one task changes one, and `SumsMove` how it changes the four sums, so that each action
only has to say which call became which. The parts of the invariant take the state as
arguments, so one lemma serves all actions that change the state in the same way.

### PeriphBus

`IInv` ties the queue, the states of the jobs, the slots and their owners, the grants,
the hardware and the handle: who has the bus (`BusInv`), that the active job is with the
hardware or with one process that starts it (`WireInv`), how far a slot's job is when its
owner is where it is (`SlotInv`), that a slot which was handed the bus has its semaphore
given until the owner takes it (`GrantInv`), and that the outcome kept for the user task
is that of its last transfer (`HandleInv`, `ResultInv`). `GrantInv` and `SlotInv` are what
settles the race of a timeout with the grant, and a kill at any point of the lock.
`NeverStalled` is inductive on top of `IInv` and is the one part that needs `"dispatch"
\notin KillAt`. That the queue stays sorted rests on a lemma about the insertion behind
the last job of at least the same priority.

`ManagerSafe` is about `PbusMgr`. `MgrInv` says what the worker holds at each of its
steps: from the take of the kick until it finishes, the transfer it works on is the
manager's and the arbiter's, or the DMA has it; a stream runs for the transfer that is on
and, unless the worker is about to stop it, `dma` is set. So the interrupt and the deadline
never both end a transfer, whichever comes first.

### VfsWorker

`VInv` is a conjunction over tasks, slots and handles. `SlotOk`: a slot is free, queued, in
the worker's hand, or answered with an owner who is there; its signal comes after its
answer. `UserOk`: a task between submit and finish has its slot, with its own request, and
no result but its own. `FileOk`: a handle in use has a living owner, or somebody is on the
way to close it or to hand it over. `NoForgottenRequest` is proved next to it and counts:
the semaphore is at least the number of queued requests but for the one the worker is about
to pick, and its limit never loses a give, since there are no more requests than slots. The
teardown queues a close for each file it finds a free slot for, in one step: `Place` gives
the files the free slots in order, and that two files get two slots and which ones
(`PlaceApart`, `PlaceTaken`) carries all parts of the invariant over it.

`Patient` leaves out what section 3 lists: a wait that times out frees a slot the worker
still has, and a task killed while the worker opens for it, or between the answer and the
collection, leaves a handle or a slot. A task is free to die idle, or while it waits for a
read or for a close. `RequestsSafe` adds that the file system has one caller at a time, as
long as a dying task never has more files than there are free slots (`SlotsLeft`);
otherwise the teardown closes inline.

### BusPipe

The proof counts messages exactly (`pub`, `seen`) and derives the wrapped numbers from
the counts: `Number(k)` is the sequence number of message `k`, `Mark(k)` the stamp of
its slot once it is published, `At(k)` that slot, `Held(k)` that the slot carries that
stamp. `PlaceInv` says that `next_seq`, `pipe_wr`, `expect` and `cursor` are those of
`pub` and `seen`. `RingInv`: the ring holds the last messages, as many as it has slots,
but perhaps for the one whose slot is being written or was abandoned by `v_bus_cancel`;
and how far the message being written is. `ReaderInv`: an unread message whose stamp
stands is whole; a pipe that drops has all of them. `ReadInv` is about a read in
progress: there are a message `k` it is at and a message `w` up to which it saw
`next_seq`, all it passed between `seen` and `k` was overwritten, what it copied is of
`k` if the stamp of `k` still stands, and if something was published after `w` the
reader has its token or the producer is about to give it. A reader that found nothing
and is on its way to sleep keeps `Quiet`: no unread message is in the ring, or the
producer is about to tell. That a second look at the stamp is enough is arithmetic: two
stamps agree only if the messages do, as long as the counter does not go half round
between the first message and the last (`PipeAssumption`; `2 * seq` loses one of the 32
bits). For the code's counter the theorem covers any run of 2^31 messages less a ring,
from any sequence number (`FirstSeq`), the wrap included; longer ones it does not.
`StaysSubscribed`: only the reader of a pipe whose producer is an interrupt leaves and
comes back; without it the run `pipe_resubscribe` shows the violation.

### Bus

`BusInv` gives each block one holder. `chains` maps a label (the free list, the chain being
given back, the stash of a topic, the call of a publisher or a reader, or the message a
topic published under a number) to the blocks it holds, and `Owned` says that these chains
are a partition of the pool. A step moves blocks between at most two labels
(`PartitionMove`), so each action only says which two. Messages are named by their number
and not by their place in the queue, so that a dequeue moves none of the others. `QueueOK`:
a queue is the last of what was published, in order and without a gap, each message with
the blocks and the words it was published with. `RefsExact`, one of the parts of
`BusSound`, counts the readers that owe a message; `SubsOK` ties the cursor of a reader to
the first message it has not passed, which is what makes that count move with the cursor.
`ConsOK` is about the copies outside critical sections: as long as the epoch of the first
block stands, what was copied so far is the start of the message under the cursor and the
next block to copy is its next block; once the chain is on its way back to the pool the
epoch tells the reader. A view in place holds a pin, and a pinned message is never evicted.
`TopicsOK` and `ProdOK` say how far a declaration and a call are.

No use is left out: the theorem has no hypothesis but `BusAssumption`, which asks for a
block at least and for finitely many topics and readers. That the loans of the stashes
balance (`LoansBalance`) is a sum and stays with TLC.

### BusWorker

`CallbackOk(i)` is the heart of `CbInv`: if the slot is in use and its topic has
something to hand over then the worker is on its way to it (`Coming`), that is, it walks
and has not passed the slot, or it is awake with a signal that makes it walk again. One
signal for any number of messages and slots is enough because a walk that starts drains
all of them. `HandleOk(h)` says that a subscription belongs to a handle in use from open
to close whichever step of the open failed, `SnapOk` that written, failed, missed and
waiting messages are all that were offered. `Orderly` is `~SetupRaces` and messages that
fit the recorder's buffer, the two cases of section 3.

### Stream

`SendingOk`: what is behind the head and not yet freed is the run being sent and, after it,
the queue; a DMA reads exactly that run, so a write that goes into free slots cannot touch
it. `ContentOk` says what the slots hold. `SleepOk`: the writer task asleep means an empty
queue, and on its way to sleep with a filled one it has its kick; the same for the reader.
`Timely` leaves out a DMA that outlives its wait and a reader that leaves bytes behind.

`ListLemmas` holds what several proofs need: element sets, duplicates, types and order
of the results of list operations, functions on `1..k` as sequences, and the arithmetic
of indices that wrap (`ModUnique`, `ModAdd`, `ModDistinct`, `DivMod`, `CounterNext`,
`CounterDiff`).

### Only model-checked

Liveness (the prover has no support for fairness here) and what recursive operators
compute (`Format`, the text algorithms of the shell), where induction over data would be
needed; the same for sums over topics and chains, hence `LoansBalance` of `Bus`, and over
the texts of the log. `TaskTree`, `Files`, `Console` and `Capture`, the heaps, the shell
and the log.

## 5. Plan

Proofs: `OutputSound` of `Console`, whose rings are those of `Stream`, and `FilesSound`.
`LoansBalance` of `Bus` counts blocks by summing over sets of topics and chains; what such
a sum does when one summand changes is an induction with an operator for parameter, which
the provers cannot use, so it stays with TLC.

Models: a clock that wraps, under `Kernel`'s deadlines; larger instances of `TaskTree`
with sleeping and faulting grandchildren; `Mpmc` with its mutex and semaphores taken from
`Kernel` instead of stated again.

## 6. Running

In this directory, with the community modules and TLAPS on the path:

    tlc -config MCKernel_kill.cfg MCKernel
    tlc -config MCMessaging.cfg MCMessaging
    tlapm KernelProofs.tla

`PROJECT.json` names the module and configuration of each run. No run takes
more than five minutes on two cores; the proofs take about half an hour in all, of which
`KernelProofs` and `BusQueueProofs` take two thirds.

## 7. Not modelled

* The build without SVC, where blocking functions run in thread mode under critical
  sections; the host port, which has no preemption.
* The wrap of the 32-bit tick count: deadlines are absolute and compared with `<`.
* The epoch of a bus block wrapping (65536 frees during one copy).
* Register save and restore, MPU regions, argument checks of the dispatcher, drivers,
  clocks and the test transport: hardware access.
* Performance counters (nothing depends on them) and start-up (straight-line code before
  the scheduler runs); `task_delay_until`.
* Path resolution and mounting in `vfs.c`, the registration of buses and DMA claims, which
  boot code does once; the shell commands that only print system state; string and memory
  helpers.
* FatFs and the vendor HAL, which are not part of this repository.

------------------------------ MODULE BusWorker ------------------------------
(***************************************************************************)
(* What stands between a topic of the bus and those who consume it         *)
(* (kernel/bus.c): the callback worker with its slots and its one          *)
(* semaphore, the descriptors by which a task reads and waits, and the     *)
(* snapshotter that records a topic in a file.  Bus and BusPipe model the  *)
(* topics; here one is what each subscription has not read yet, with       *)
(* messages that fit the reader's buffer and messages wider than it.       *)
(***************************************************************************)
EXTENDS Integers, Sequences, FiniteSets

CONSTANTS
    Callback,       \* the callback slots, 0 .. VAIOS_BUS_MAX_CALLBACKS - 1
    BusHandle,         \* bus_handles[]
    SnapSizes,      \* sizes of the messages published while a recording runs
    Depth,          \* messages a topic holds for a slow reader
    MaxPublish,     \* bound: messages published
    SetupRaces      \* callbacks come and go while messages and the worker run

\* The snapshotter, among the readers, which are numbers.
Snap == -1
Reader == Callback \cup BusHandle \cup {Snap}

VARIABLES
    sub,            \* sub[r]: the subscription of r: joined, armed, unread, lost
    bus_cb_sem,     \* the semaphore every callback subscription arms
    cb_slot,           \* slot[i]: used, cb
    worker,         \* where v_bus_worker_step is: pc, at, stalled
    setup,          \* the task inside v_bus_subscribe_cb or v_bus_unsubscribe_cb
    handle,         \* handle[h]: used, rd, fd, sem, and whether its task waits
    snap,           \* v_bus_snap_t, and a ghost count of what it was offered
    published

bw_vars == <<sub, bus_cb_sem, cb_slot, worker, setup, handle, snap, published>>

\* The callback slots are the elements of an array, and no reader is two of those.
CbBounds ==
    /\ Callback = 0..(Cardinality(Callback) - 1) /\ Cardinality(Callback) \in Nat \ {0}
    /\ BusHandle \cap (Callback \cup {Snap}) = {}
    /\ Depth \in Nat \ {0}

NoSub == [joined |-> FALSE, armed |-> FALSE, unread |-> <<>>, lost |-> 0]
Joined == [joined |-> TRUE, armed |-> FALSE, unread |-> <<>>, lost |-> 0]
NoSetup == [pc |-> "none", at |-> 0]
NoHandle == [used |-> FALSE, rd |-> FALSE, fd |-> FALSE, sem |-> 0, waits |-> FALSE]

CbInit ==
    /\ sub = [r \in Reader |-> NoSub]
    /\ bus_cb_sem = 0
    /\ cb_slot = [i \in Callback |-> [used |-> FALSE, cb |-> FALSE]]
    /\ worker = [pc |-> "idle", at |-> 0]
    /\ setup = NoSetup
    /\ handle = [h \in BusHandle |-> NoHandle]
    /\ snap = [on |-> FALSE, written |-> 0, failed |-> 0, missed |-> 0, offered |-> 0]
    /\ published = 0

\* A subscription is handed a message: the oldest unread one makes room.
Offered(s, size) ==
    IF ~s.joined THEN s
    ELSE IF Len(s.unread) = Depth
         THEN [s EXCEPT !.unread = Append(Tail(@), size), !.lost = @ + 1]
         ELSE [s EXCEPT !.unread = Append(@, size)]

\* notify_sub: whoever armed a semaphore is signalled.
Signalled(r) == sub[r].joined /\ sub[r].armed

\* A message is linked, by a task or an interrupt, and every reader notified.
PublishAll(size) ==
    /\ published < MaxPublish
    /\ ~SetupRaces => setup = NoSetup
    /\ snap.on => size \in SnapSizes
    /\ published' = published + 1
    /\ sub' = [r \in Reader |-> Offered(sub[r], size)]
    /\ LET wakes == \E i \in Callback : Signalled(i)
       IN  /\ bus_cb_sem' = IF wakes /\ worker.pc # "asleep" THEN 1 ELSE bus_cb_sem
           /\ worker' = IF wakes /\ worker.pc = "asleep" THEN [pc |-> "walk", at |-> 0] ELSE worker
    /\ handle' = [h \in BusHandle |->
         IF ~Signalled(h) THEN handle[h]
         ELSE IF handle[h].waits THEN [handle[h] EXCEPT !.waits = FALSE]
         ELSE [handle[h] EXCEPT !.sem = 1]]
    /\ snap' = [snap EXCEPT !.offered = IF snap.on THEN @ + 1 ELSE @]
    /\ UNCHANGED <<cb_slot, setup>>
------------------------------------------------------------------------------
(* Callbacks *)

Unused == {i \in Callback : ~cb_slot[i].used}

\* Without races, callbacks are set up while the worker is not in its walk.
MayStart == setup = NoSetup /\ (SetupRaces \/ worker.pc \in {"idle", "asleep"})

\* v_bus_subscribe_cb: the first unused slot is filled and subscribed...
v_bus_subscribe_cb ==
    \E i \in Unused :
      /\ MayStart /\ \A j \in Unused : i <= j
      /\ cb_slot' = [cb_slot EXCEPT ![i].cb = TRUE]
      /\ sub' = [sub EXCEPT ![i] = Joined]
      /\ setup' = [pc |-> "arm", at |-> i]
      /\ UNCHANGED <<bus_cb_sem, worker, handle, snap, published>>

\* ...then armed, then marked used.
ArmSlot ==
    /\ setup.pc = "arm"
    /\ sub' = [sub EXCEPT ![setup.at].armed = TRUE]
    /\ setup' = [setup EXCEPT !.pc = "use"]
    /\ UNCHANGED <<bus_cb_sem, cb_slot, worker, handle, snap, published>>

UseSlot ==
    /\ setup.pc = "use"
    /\ cb_slot' = [cb_slot EXCEPT ![setup.at].used = TRUE]
    /\ setup' = NoSetup
    /\ UNCHANGED <<sub, bus_cb_sem, worker, handle, snap, published>>

\* v_bus_unsubscribe_cb: disarmed and unsubscribed, then unused.
v_bus_unsubscribe_cb(i) ==
    /\ MayStart /\ cb_slot[i].used
    /\ sub' = [sub EXCEPT ![i] = NoSub]
    /\ setup' = [pc |-> "drop", at |-> i]
    /\ UNCHANGED <<bus_cb_sem, cb_slot, worker, handle, snap, published>>

DropSlot ==
    /\ setup.pc = "drop"
    /\ cb_slot' = [cb_slot EXCEPT ![setup.at] = [used |-> FALSE, cb |-> FALSE]]
    /\ setup' = NoSetup
    /\ UNCHANGED <<sub, bus_cb_sem, worker, handle, snap, published>>

WorkerMayRun == SetupRaces \/ setup = NoSetup

\* v_bus_worker_step: take the signal or sleep for it.
v_bus_worker_step ==
    /\ worker.pc = "idle" /\ WorkerMayRun
    /\ worker' = IF bus_cb_sem = 1 THEN [pc |-> "walk", at |-> 0] ELSE [worker EXCEPT !.pc = "asleep"]
    /\ bus_cb_sem' = 0
    /\ UNCHANGED <<sub, cb_slot, setup, handle, snap, published>>

\* The ticks are over: every slot is looked at all the same.
WorkerTimeout ==
    /\ worker.pc = "asleep" /\ WorkerMayRun
    /\ worker' = [pc |-> "walk", at |-> 0]
    /\ UNCHANGED <<sub, bus_cb_sem, cb_slot, setup, handle, snap, published>>

Poppable(r) == sub[r].joined /\ sub[r].unread # <<>> /\ Head(sub[r].unread) = "fits"
Popped(r) == [sub[r] EXCEPT !.unread = Tail(@), !.lost = 0]

\* MUTANT: a slot whose message is too wide ends the walk.
AfterSlot_Stops(i) ==
    IF i + 1 \in Callback /\ ~(cb_slot[i].used /\ sub[i].unread # <<>>)
    THEN [pc |-> "walk", at |-> i + 1] ELSE [pc |-> "idle", at |-> 0]

AfterSlot(i) == IF i + 1 \in Callback THEN [pc |-> "walk", at |-> i + 1] ELSE [pc |-> "idle", at |-> 0]

\* One v_bus_pop of the walk: a message for the callback, or the slot's turn ends.
WorkerPop ==
    LET i == worker.at IN
    /\ worker.pc = "walk" /\ WorkerMayRun
    /\ IF cb_slot[i].used /\ Poppable(i)
       THEN sub' = [sub EXCEPT ![i] = Popped(i)] /\ worker' = [worker EXCEPT !.pc = "call"]
       ELSE worker' = AfterSlot(i) /\ UNCHANGED sub
    /\ UNCHANGED <<bus_cb_sem, cb_slot, setup, handle, snap, published>>

\* The callback runs; a cleared pointer would be a jump to nowhere.
WorkerCall ==
    /\ worker.pc = "call"
    /\ worker' = [worker EXCEPT !.pc = IF cb_slot[worker.at].cb THEN "walk" ELSE "crashed"]
    /\ UNCHANGED <<sub, bus_cb_sem, cb_slot, setup, handle, snap, published>>
------------------------------------------------------------------------------
(* Descriptors *)

\* v_bus_open, part one: a free handle is claimed.
v_bus_open(h, rd) ==
    /\ ~handle[h].used
    /\ handle' = [handle EXCEPT ![h] = [NoHandle EXCEPT !.used = TRUE, !.rd = rd]]
    /\ UNCHANGED <<sub, bus_cb_sem, cb_slot, worker, setup, snap, published>>

\* MUTANT: the subscription outlives its handle.
Closed_Subscribed(h) == sub[h]

\* bus_fd_close drops the subscription and its claim on unread messages.
Closed(h) == NoSub

\* Part two: a reader subscribes and arms; a topic that refuses frees the handle.
OpenSubscribe(h, refused) ==
    /\ handle[h].used /\ handle[h].rd /\ ~handle[h].fd /\ ~sub[h].joined
    /\ sub' = [sub EXCEPT ![h] = IF refused THEN NoSub ELSE [Joined EXCEPT !.armed = TRUE]]
    /\ handle' = [handle EXCEPT ![h] = IF refused THEN NoHandle ELSE [@ EXCEPT !.sem = 0]]
    /\ UNCHANGED <<bus_cb_sem, cb_slot, worker, setup, snap, published>>

\* Part three: a descriptor, or none is free and the handle is closed again.
OpenFd(h, full) ==
    /\ handle[h].used /\ ~handle[h].fd /\ (handle[h].rd => sub[h].joined)
    /\ handle' = [handle EXCEPT ![h] = IF full THEN NoHandle ELSE [@ EXCEPT !.fd = TRUE]]
    /\ sub' = IF full THEN [sub EXCEPT ![h] = Closed(h)] ELSE sub
    /\ UNCHANGED <<bus_cb_sem, cb_slot, worker, setup, snap, published>>

\* close, or the end of the task that has it open, asleep in v_bus_wait or not.
bus_fd_close(h) ==
    /\ handle[h].fd
    /\ handle' = [handle EXCEPT ![h] = NoHandle]
    /\ sub' = [sub EXCEPT ![h] = Closed(h)]
    /\ UNCHANGED <<bus_cb_sem, cb_slot, worker, setup, snap, published>>

\* v_bus_recv: a message is copied out, or there is none, or it does not fit.
v_bus_recv(h) ==
    /\ handle[h].fd /\ handle[h].rd /\ ~handle[h].waits /\ Poppable(h)
    /\ sub' = [sub EXCEPT ![h] = Popped(h)]
    /\ UNCHANGED <<bus_cb_sem, cb_slot, worker, setup, handle, snap, published>>

\* MUTANT: only the semaphore is asked.
rd_ready_No(h) == FALSE

rd_ready(h) == sub[h].unread # <<>>

\* v_bus_wait: something is there, or a signal is banked, or the task sleeps.
HandleWait(h) ==
    /\ handle[h].fd /\ handle[h].rd /\ ~handle[h].waits /\ ~rd_ready(h)
    /\ handle' = [handle EXCEPT ![h].sem = 0, ![h].waits = (handle[h].sem = 0)]
    /\ UNCHANGED <<sub, bus_cb_sem, cb_slot, worker, setup, snap, published>>

WaitTimeout(h) ==
    /\ handle[h].waits
    /\ handle' = [handle EXCEPT ![h].waits = FALSE]
    /\ UNCHANGED <<sub, bus_cb_sem, cb_slot, worker, setup, snap, published>>
------------------------------------------------------------------------------
(* The snapshotter *)

\* v_bus_snapshot_start: the file is opened, then the topic subscribed; a failure
\* of either leaves nothing behind.
v_bus_snapshot_start ==
    /\ ~snap.on /\ snap.offered = 0
    /\ snap' = [snap EXCEPT !.on = TRUE]
    /\ sub' = [sub EXCEPT ![Snap] = Joined]
    /\ UNCHANGED <<bus_cb_sem, cb_slot, worker, setup, handle, published>>

\* MUTANT: what the bus dropped is not counted.
MissedBy_None == 0

MissedBy == sub[Snap].lost

\* One turn of v_bus_snapshot_pump.  A message that fits is taken and written, or
\* the write fails; one that is too wide is counted and popped into a buffer of the
\* same size, which leaves it where it was and ends the call.
v_bus_snapshot_pump(fails) ==
    /\ snap.on /\ sub[Snap].unread # <<>>
    /\ IF Poppable(Snap)
       THEN /\ sub' = [sub EXCEPT ![Snap] = Popped(Snap)]
            /\ snap' = [snap EXCEPT !.missed = @ + MissedBy,
                                    !.written = IF fails THEN @ ELSE @ + 1,
                                    !.failed = IF fails THEN @ + 1 ELSE @]
       ELSE /\ snap' = [snap EXCEPT !.failed = @ + 1]
            /\ snap.failed <= MaxPublish
            /\ UNCHANGED sub
    /\ UNCHANGED <<bus_cb_sem, cb_slot, worker, setup, handle, published>>

v_bus_snapshot_stop ==
    /\ snap.on
    /\ snap' = [snap EXCEPT !.on = FALSE]
    /\ sub' = [sub EXCEPT ![Snap] = NoSub]
    /\ UNCHANGED <<bus_cb_sem, cb_slot, worker, setup, handle, published>>

CbNext ==
    \/ \E size \in {"fits", "wide"} : PublishAll(size)
    \/ v_bus_subscribe_cb \/ ArmSlot \/ UseSlot \/ DropSlot
    \/ \E i \in Callback : v_bus_unsubscribe_cb(i)
    \/ v_bus_worker_step \/ WorkerTimeout \/ WorkerPop \/ WorkerCall
    \/ \E h \in BusHandle, b \in BOOLEAN : v_bus_open(h, b) \/ OpenSubscribe(h, b) \/ OpenFd(h, b)
    \/ \E h \in BusHandle : bus_fd_close(h) \/ v_bus_recv(h) \/ HandleWait(h) \/ WaitTimeout(h)
    \/ v_bus_snapshot_start \/ v_bus_snapshot_stop
    \/ \E f \in BOOLEAN : v_bus_snapshot_pump(f)

CbSpec == CbInit /\ [][CbNext]_bw_vars
------------------------------------------------------------------------------
(* Properties *)

\* The worker never sleeps on a message it could hand over: one signal stands for
\* any number of publishes because every slot is drained (v_bus_worker_step).
WorkerDrains ==
    worker.pc = "asleep" => \A i \in Callback : cb_slot[i].used => ~Poppable(i)

\* A reader asleep in v_bus_wait has nothing to read.
WaiterHasNothing == \A h \in BusHandle : handle[h].waits => sub[h].unread = <<>>

\* A subscription is a claim on the pool's blocks: each one of a descriptor belongs
\* to a handle in use, whatever failed while it was opened, so a task that is gone
\* holds back no message (v_bus_open, bus_fd_close).
ClaimsOwned == \A h \in BusHandle : sub[h].joined <=> handle[h].used /\ handle[h].rd /\ sub[h].armed

\* Every message offered to a recording is written, counted as failed, counted as
\* missed, or still to be read: each one exactly once (v_bus_snapshot_pump).
SnapAccounts ==
    snap.on => snap.offered = snap.written + snap.failed + snap.missed
                              + sub[Snap].lost + Len(sub[Snap].unread)

\* Nobody who consumes a topic is forgotten: the worker and the readers do not sleep on
\* a message, a dead reader holds none back, and a recording accounts for each
\* (v_bus_worker_step, v_bus_open, v_bus_snapshot_pump).
ConsumersServed == WorkerDrains /\ WaiterHasNothing /\ ClaimsOwned /\ SnapAccounts
==============================================================================

------------------------------ MODULE PeriphBus ------------------------------
(***************************************************************************)
(* The arbiter of one peripheral bus (kernel/periph_bus.c): asynchronous   *)
(* jobs, blocking locks, a cyclic job, and the transfers of a user task    *)
(* through a handle.                                                       *)
(*                                                                         *)
(* A kernel task runs v_pbus_lock and v_pbus_unlock in thread mode, so it  *)
(* is preempted between their critical sections: each section is one       *)
(* action.  Interrupts, system calls and the teardown of a dead task run   *)
(* dispatch() to its end before any task goes on; they are the process     *)
(* Kernel, whose steps exclude every task's.                               *)
(***************************************************************************)
EXTENDS Lists

CONSTANTS
    Locker,         \* kernel tasks that lock the bus
    Slot,           \* lock_slots[]: 1..VAIOS_PBUS_MAX_LOCKERS
    Handle,         \* the job of the user task's handle
    Cyclic,         \* the cyclic job
    Kernel,         \* the process of interrupts and system calls
    NULL,           \* the null pointer
    Prio,           \* v_pbus_job_t.prio of each job; a locker's for its slot
    Period,         \* v_pbus_job_t.period of the cyclic job
    Timeouts,       \* a wait may time out
    KillAt          \* bound: where a kernel task may be when it is killed

Process == Locker \cup {Kernel}
Job == Slot \cup {Handle, Cyclic}

PbusAssumption ==
    /\ Slot \subseteq Nat /\ IsFiniteSet(Slot) /\ Period \in Nat \ {0}
    /\ Prio \in [Locker \cup {Handle, Cyclic} -> Nat] /\ Timeouts \in BOOLEAN
    /\ Handle \notin Slot /\ Cyclic \notin Slot \cup {Handle} /\ Kernel \notin Locker
    /\ NULL \notin Job \cup Locker \cup [job : Job, xfer : {1, 2}]

VARIABLES
    queue, active, locked,        \* v_pbus_t
    state,                        \* v_pbus_job_t.state
    prio,                         \* v_pbus_job_t.prio
    slot_owner, grant,            \* lock_slot_t: owner (NULL when free), the semaphore
    at, slot,                     \* where a process is; the slot it uses; the job it starts
    wire,                         \* the transfer the hardware is working on
    countdown,                    \* the cyclic job; 0 when it is not registered
    used, submitted, orphan, done, rc,  \* pbus_handle_t
    user,                         \* where the user task is
    xfer, result, expired         \* ghost: transfer number, outcome, a wait that timed out

busVars == <<queue, active, locked, state, prio>>
slotVars == <<slot_owner, grant>>
procVars == <<at, slot>>
handleVars == <<used, submitted, orphan, done, rc>>
userVars == <<user, xfer, result, expired>>
vars == <<busVars, slotVars, procVars, wire, countdown, handleVars, userVars>>

NoRc == 0
Init ==
    /\ queue = <<>> /\ active = NULL /\ locked = FALSE
    /\ state = [j \in Job |-> "IDLE"] /\ prio = [j \in Job |-> 0]
    /\ slot_owner = [s \in Slot |-> NULL] /\ grant = [s \in Slot |-> 0]
    /\ at = [p \in Process |-> "idle"] /\ slot = [p \in Process |-> NULL]
    /\ wire = NULL /\ countdown = 0
    /\ used = FALSE /\ submitted = FALSE /\ orphan = FALSE /\ done = 0 /\ rc = NoRc
    /\ user = "closed" /\ xfer = 1 /\ result = "none" /\ expired = FALSE
------------------------------------------------------------------------------
(* The queue *)

\* Behind every job of at least the same priority.
Insert(q, p, j) ==
    LET n == Cardinality({i \in DOMAIN q : p[q[i]] >= p[j]}) IN InsertAt(q, n + 1, j)

enqueue(j, p) ==
    /\ prio' = [prio EXCEPT ![j] = p]
    /\ queue' = Insert(queue, prio', j)
    /\ state' = [state EXCEPT ![j] = "QUEUED"]

unqueue(j) ==
    /\ queue' = Unlink(queue, j)
    /\ state' = [state EXCEPT ![j] = "IDLE"]

\* The task or the kernel process that may take a step.
MayRun(p) == p = Kernel \/ at[Kernel] = "idle"
Goto(p, where) == at' = [at EXCEPT ![p] = where]

\* Where dispatch() returns to: v_pbus_lock waits for its grant.
AfterDispatch(p) == IF p # Kernel /\ slot[p] # NULL THEN "take" ELSE "idle"

\* handle_done: the outcome, then either the closed handle is freed or its
\* waiter is woken.
handle_done(outcome) ==
    /\ rc' = outcome
    /\ IF orphan THEN orphan' = FALSE /\ used' = FALSE /\ UNCHANGED done
       ELSE done' = 1 /\ UNCHANGED <<orphan, used>>
    /\ UNCHANGED submitted

\* Finish the active job, if any, and run its done().
release(outcome) ==
    /\ active' = NULL
    /\ state' = IF active = NULL THEN state ELSE [state EXCEPT ![active] = "IDLE"]
    /\ IF active = Handle THEN handle_done(outcome) ELSE UNCHANGED handleVars
    /\ UNCHANGED <<queue, locked, prio, slotVars>>

\* MUTANT: dispatch() looks at the active job only.
BusFree_Unlocked == active = NULL

BusFree == active = NULL /\ ~locked

\* One critical section of dispatch(): hand an idle bus to the head of the queue.
Dispatch(p) ==
    LET j == Head(queue)
    IN  /\ MayRun(p) /\ at[p] = "dispatch"
        /\ \/ /\ ~BusFree \/ queue = <<>>
              /\ Goto(p, AfterDispatch(p))
              /\ UNCHANGED <<busVars, grant>>
           \/ /\ BusFree /\ queue # <<>>
              /\ queue' = Tail(queue) /\ state' = [state EXCEPT ![j] = "ACTIVE"]
              /\ UNCHANGED prio
              /\ \/ /\ j \in Slot
                    /\ locked' = TRUE /\ grant' = [grant EXCEPT ![j] = 1]
                    /\ Goto(p, AfterDispatch(p)) /\ UNCHANGED active
                 \/ /\ j \notin Slot
                    /\ active' = j /\ Goto(p, "start") /\ UNCHANGED <<locked, grant>>
        /\ UNCHANGED <<slot_owner, slot, wire, countdown, handleVars, userVars>>

\* job->start(): the transfer is in flight, or start failed.
Start(p) ==
    /\ MayRun(p) /\ at[p] = "start"
    /\ \/ wire' = [job |-> active, xfer |-> xfer] /\ Goto(p, AfterDispatch(p))
       \/ Goto(p, "failed") /\ UNCHANGED wire
    /\ UNCHANGED <<busVars, slotVars, slot, countdown, handleVars, userVars>>

\* start() failed: release and go round the loop again.
StartFailed(p) ==
    /\ MayRun(p) /\ at[p] = "failed"
    /\ release(-1)
    /\ Goto(p, "dispatch")
    /\ UNCHANGED <<slot, wire, countdown, userVars>>
------------------------------------------------------------------------------
(* Interrupts *)

\* MUTANT: the completion does not hand the bus on.
Complete_Quiet(outcome) ==
    /\ at[Kernel] = "idle" /\ wire # NULL
    /\ wire' = NULL
    /\ release(outcome)
    /\ UNCHANGED <<procVars, countdown, userVars>>

\* v_pbus_done_isr, the DMA-complete interrupt, or v_pbus_abort_isr, the
\* watchdog's, which has stopped the transfer first.
Complete(outcome) ==
    /\ at[Kernel] = "idle" /\ wire # NULL
    /\ wire' = NULL
    /\ release(outcome)
    /\ Goto(Kernel, "dispatch")
    /\ UNCHANGED <<slot, countdown, userVars>>
v_pbus_done_isr == wire # NULL /\ Complete(wire.xfer)
v_pbus_abort_isr == Complete(-1)

\* v_pbus_cyclic_add and v_pbus_cyclic_remove.
v_pbus_cyclic_add ==
    /\ at[Kernel] = "idle" /\ countdown = 0
    /\ countdown' = Period
    /\ UNCHANGED <<busVars, slotVars, procVars, wire, handleVars, userVars>>
v_pbus_cyclic_remove ==
    /\ at[Kernel] = "idle" /\ countdown # 0
    /\ countdown' = 0
    /\ UNCHANGED <<busVars, slotVars, procVars, wire, handleVars, userVars>>

\* v_pbus_tick_isr: submit the cyclic job when its period is over; one still
\* queued or active is an overrun, which only a counter records.
v_pbus_tick_isr ==
    /\ at[Kernel] = "idle" /\ countdown # 0
    /\ countdown' = IF countdown = 1 THEN Period ELSE countdown - 1
    /\ IF countdown = 1 /\ state[Cyclic] = "IDLE"
       THEN enqueue(Cyclic, Prio[Cyclic]) /\ Goto(Kernel, "dispatch")
       ELSE UNCHANGED <<queue, state, prio, at>>
    /\ UNCHANGED <<active, locked, slotVars, slot, wire, handleVars, userVars>>
------------------------------------------------------------------------------
(* v_pbus_lock and v_pbus_unlock *)

Claim(t) ==
    /\ MayRun(t) /\ at[t] = "idle"
    /\ \E s \in Slot :
         /\ slot_owner[s] = NULL
         /\ \A r \in Slot : slot_owner[r] = NULL => s <= r
         /\ slot_owner' = [slot_owner EXCEPT ![s] = t]
         /\ state' = [state EXCEPT ![s] = "IDLE"]
         /\ slot' = [slot EXCEPT ![t] = s]
    /\ Goto(t, "enqueue")
    /\ UNCHANGED <<queue, active, locked, prio, grant, wire, countdown, handleVars, userVars>>

\* MUTANT: the semaphore of the slot keeps a grant its last user never took.
NewGrant_Stale(s) == UNCHANGED grant

\* The slot's job and semaphore are made anew.
NewGrant(s) == grant' = [grant EXCEPT ![s] = 0]

Enqueue(t) ==
    /\ MayRun(t) /\ at[t] = "enqueue"
    /\ NewGrant(slot[t])
    /\ enqueue(slot[t], Prio[t])
    /\ Goto(t, "dispatch")
    /\ UNCHANGED <<active, locked, slot_owner, slot, wire, countdown, handleVars, userVars>>

\* The take of the grant succeeds, or gives up.
TakeGrant(t) ==
    /\ MayRun(t) /\ at[t] = "take"
    /\ \/ /\ grant[slot[t]] = 1
          /\ grant' = [grant EXCEPT ![slot[t]] = 0]
          /\ Goto(t, "held")
       \/ /\ grant[slot[t]] = 0 /\ Timeouts
          /\ Goto(t, "expired") /\ UNCHANGED grant
    /\ UNCHANGED <<busVars, slot_owner, slot, wire, countdown, handleVars, userVars>>

\* MUTANT: a timed-out lock does not look whether the grant raced in.
GrantRacedIn_Blind(s) == FALSE

GrantRacedIn(s) == state[s] = "ACTIVE"

\* After the timeout: the bus is ours if the grant raced in, or we give up.
Recheck(t) ==
    /\ MayRun(t) /\ at[t] = "expired"
    /\ \/ /\ GrantRacedIn(slot[t])
          /\ Goto(t, "held")
          /\ UNCHANGED <<queue, state, slot, slot_owner>>
       \/ /\ ~GrantRacedIn(slot[t])
          /\ unqueue(slot[t])
          /\ slot_owner' = [slot_owner EXCEPT ![slot[t]] = NULL]
          /\ slot' = [slot EXCEPT ![t] = NULL]
          /\ Goto(t, "idle")
    /\ UNCHANGED <<active, locked, prio, grant, wire, countdown, handleVars, userVars>>

\* Give up a slot: off the queue, or the bus unlocked.
drop_slot(s) ==
    /\ queue' = Unlink(queue, s)
    /\ locked' = (locked /\ state[s] # "ACTIVE")
    /\ state' = [state EXCEPT ![s] = "IDLE"]
    /\ slot_owner' = [slot_owner EXCEPT ![s] = NULL]

v_pbus_unlock(t) ==
    /\ MayRun(t) /\ at[t] = "held"
    /\ drop_slot(slot[t])
    /\ slot' = [slot EXCEPT ![t] = NULL]
    /\ Goto(t, "dispatch")
    /\ UNCHANGED <<active, prio, grant, wire, countdown, handleVars, userVars>>

\* The slots a dead task leaves.
TornDown(t) == {s \in Slot : slot_owner[s] = t}

\* v_pbus_task_teardown for a kernel task killed where KillAt allows: its slot is
\* dropped, and a bus it held is handed on.
v_pbus_task_teardown(t) ==
    /\ at[Kernel] = "idle" /\ at[t] \in KillAt /\ at[t] # "dead"
    /\ at' = [at EXCEPT ![t] = "dead", ![Kernel] =
                IF \E s \in TornDown(t) : state[s] = "ACTIVE" THEN "dispatch" ELSE "idle"]
    /\ slot' = [slot EXCEPT ![t] = NULL]
    /\ \/ \E s \in TornDown(t) : drop_slot(s)
       \/ TornDown(t) = {} /\ UNCHANGED <<queue, locked, state, slot_owner>>
    /\ UNCHANGED <<active, prio, grant, wire, countdown, handleVars, userVars>>
------------------------------------------------------------------------------
(* The user task's handle: system calls *)

v_pbus_open ==
    /\ at[Kernel] = "idle" /\ user = "closed" /\ ~used
    /\ used' = TRUE /\ submitted' = FALSE /\ orphan' = FALSE
    /\ user' = "open" /\ UNCHANGED <<done, rc, xfer, result, expired>>
    /\ UNCHANGED <<busVars, slotVars, procVars, wire, countdown>>

\* MUTANT: the semaphore is not made anew for every transfer.
FreshDone_Stale == UNCHANGED done

\* A fresh semaphore drops the give of a transfer that finished after its time.
FreshDone == done' = 0

v_pbus_xfer_submit ==
    /\ at[Kernel] = "idle" /\ user = "open" /\ ~submitted /\ state[Handle] = "IDLE"
    /\ FreshDone /\ rc' = NoRc /\ submitted' = TRUE
    /\ enqueue(Handle, Prio[Handle])
    /\ Goto(Kernel, "dispatch")
    /\ user' = "wait" /\ xfer' = 3 - xfer /\ expired' = FALSE /\ result' = "none"
    /\ UNCHANGED <<active, locked, slotVars, slot, wire, countdown, used, orphan>>

\* v_pbus_xfer_wait: woken by the completion, or timed out.
v_pbus_xfer_wait ==
    /\ at[Kernel] = "idle" /\ user = "wait"
    /\ \/ done = 1 /\ done' = 0 /\ UNCHANGED expired
       \/ done = 0 /\ Timeouts /\ expired' = TRUE /\ UNCHANGED done
    /\ user' = "finish"
    /\ UNCHANGED <<busVars, slotVars, procVars, wire, countdown, used, submitted, orphan, rc,
                   xfer, result>>

v_pbus_xfer_finish ==
    /\ at[Kernel] = "idle" /\ user = "finish"
    /\ submitted' = FALSE /\ user' = "open"
    /\ IF state[Handle] = "QUEUED" THEN unqueue(Handle) ELSE UNCHANGED <<queue, state>>
    /\ result' = CASE state[Handle] = "QUEUED" -> "ETIMEDOUT"
                   [] state[Handle] = "ACTIVE" -> "EBUSY"
                   [] OTHER -> IF rc = -1 THEN "failed" ELSE IF rc = xfer THEN "mine" ELSE "other"
    /\ UNCHANGED <<active, locked, prio, slotVars, procVars, wire, countdown, used, orphan, done,
                   rc, xfer, expired>>

\* MUTANT: close frees the handle whatever the bus is doing.
KeepsSlot_Never == FALSE

KeepsSlot == state[Handle] = "ACTIVE"

\* handle_close, by v_file_close or the death of the user task, at any moment.
handle_close ==
    /\ at[Kernel] = "idle" /\ user # "closed"
    /\ IF state[Handle] = "QUEUED" THEN unqueue(Handle) ELSE UNCHANGED <<queue, state>>
    /\ submitted' = FALSE
    /\ IF KeepsSlot THEN orphan' = TRUE /\ UNCHANGED used
       ELSE used' = FALSE /\ UNCHANGED orphan
    /\ user' = "closed" /\ result' = "none" /\ expired' = FALSE
    /\ UNCHANGED <<active, locked, prio, slotVars, procVars, wire, countdown, done, rc, xfer>>

Next ==
    \/ \E p \in Process : Dispatch(p) \/ Start(p) \/ StartFailed(p)
    \/ v_pbus_done_isr
    \/ v_pbus_abort_isr
    \/ v_pbus_cyclic_add
    \/ v_pbus_cyclic_remove
    \/ v_pbus_tick_isr
    \/ \E t \in Locker : Claim(t)
    \/ \E t \in Locker : Enqueue(t)
    \/ \E t \in Locker : TakeGrant(t)
    \/ \E t \in Locker : Recheck(t)
    \/ \E t \in Locker : v_pbus_unlock(t)
    \/ \E t \in Locker : v_pbus_task_teardown(t)
    \/ v_pbus_open
    \/ v_pbus_xfer_submit
    \/ v_pbus_xfer_wait
    \/ v_pbus_xfer_finish
    \/ handle_close

Spec == Init /\ [][Next]_vars
------------------------------------------------------------------------------
(* Properties *)

\* The bus has one user: two tasks never both hold it, and while one does no
\* transfer is in flight; what the hardware works on is the active job
\* (dispatch, release, v_pbus_lock).
Exclusive ==
    /\ \A t, u \in Locker : at[t] = "held" /\ at[u] = "held" => t = u
    /\ (\E t \in Locker : at[t] = "held") => locked /\ active = NULL /\ wire = NULL
    /\ wire # NULL => active = wire.job

\* A locked bus has a live task that holds it or has the grant to come: neither a
\* timeout that races the grant nor a kill leaks the lock (v_pbus_lock,
\* v_pbus_task_teardown).
LockNotLeaked ==
    locked => \E s \in Slot :
        /\ state[s] = "ACTIVE" /\ slot_owner[s] # NULL
        /\ at[slot_owner[s]] \in {"dispatch", "start", "failed", "take", "expired", "held"}
        /\ slot[slot_owner[s]] = s
        /\ at[slot_owner[s]] = "take" => grant[s] = 1

\* The queue holds exactly the queued jobs, in order of priority; a free slot or
\* a closed handle is not on it, and no semaphore is left given for the next
\* user of a slot to find.
QueueExact ==
    /\ NoDup(queue) /\ ToSet(queue) = {j \in Job : state[j] = "QUEUED"}
    /\ \A i, j \in DOMAIN queue : i < j => prio[queue[i]] >= prio[queue[j]]
    /\ \A s \in Slot : state[s] = "QUEUED" => slot_owner[s] # NULL /\ grant[s] = 0
    /\ state[Handle] # "IDLE" => used

\* Whenever the bus is idle and jobs are queued, somebody is about to dispatch
\* one: the queue never waits for an event that will not come.
NeverStalled ==
    BusFree /\ queue # <<>> => \E p \in Process : at[p] = "dispatch"

\* v_pbus_xfer_finish reports the transfer it was called for, and a timeout only
\* when the wait did time out: a late completion never answers the next transfer.
ResultOfMine ==
    /\ result # "other"
    /\ result \in {"ETIMEDOUT", "EBUSY"} => expired

\* A transfer on the wire has its buffers: the handle is not given to another
\* opener before the completion has landed.
BuffersHeld == wire # NULL /\ wire.job = Handle => used /\ (user = "closed" => orphan)

\* The bus has one user at a time and always goes on to the next: no timeout, abort,
\* completion or kill leaks it, strands the queue or leaves a grant behind
\* (dispatch, release, v_pbus_lock, v_pbus_task_teardown).
Arbitration == Exclusive /\ LockNotLeaked /\ QueueExact /\ NeverStalled

\* A handle's transfer answers for itself and keeps its buffers until it is over
\* (v_pbus_xfer_finish, handle_close).
TransfersMine == ResultOfMine /\ BuffersHeld
==============================================================================

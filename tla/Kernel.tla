------------------------------- MODULE Kernel --------------------------------
(***************************************************************************)
(* The scheduler and the blocking primitives of vaios: kernel/task.c and   *)
(* kernel/ipc.c, in the build that enters the kernel by SVC                *)
(* (VAIOS_SYSCALL_SVC).                                                    *)
(*                                                                         *)
(* An SVC handler runs at the highest exception priority, so a system call *)
(* is never preempted; a blocking one parks the caller, pends PendSV and   *)
(* leaves the result to whoever wakes it.  Between the end of a system     *)
(* call and PendSV (the lowest priority) the tick and other interrupts may *)
(* run.  The variable handler says which kernel loop is executing: each    *)
(* iteration of a loop of the source is one action, and nothing else runs  *)
(* until the handler is back at "user".                                    *)
(*                                                                         *)
(* Time is relative: delay_ticks[t] is the deadline minus the tick count,  *)
(* NoDeadline for the source's 0, and Past once the deadline is behind.    *)
(***************************************************************************)
EXTENDS Lists

CONSTANTS
    Task,           \* every TCB, Idle included
    Idle,           \* idle_task
    Sem,            \* plain semaphores
    Mutex,          \* rmutex_t objects; their base semaphore has the same name
    NULL,           \* the null pointer
    MaxPriority,    \* MAX_PRIORITY
    BasePriority,   \* TCB.base_priority
    InitReady,      \* the ready lists main() leaves behind
    InitCount,      \* initial count of each semaphore
    Limit,          \* sema_t.limit of each semaphore
    MAX_PI_DEPTH,   \* cap of the priority-inheritance walk
    TakeTicks,      \* ticks_to_wait the tasks pass to take and lock
    WaitTicks,      \* ticks they pass to v_wait
    DelayTicks,     \* ticks they pass to task_delay
    Recursive,      \* the mutexes the tasks also use by the recursive calls
    MaxRecursion,   \* bound: nested v_mutex_lock_recursive calls
    VAIOS_IPC_FD,   \* the build has v_wait
    FdLists,        \* the fds[] arrays v_wait is called with, as lists of Sem
    MayExit,        \* tasks that may exit or be ended by task_exit_request
    MayRelock       \* a task may v_mutex_lock a mutex it already owns

Priority == 0..MaxPriority
Obj == Sem \cup Mutex
V_WAIT_FOREVER == -1
NoDeadline == -2
Past == -1
VA_PASS == 1
VA_FAIL == 0
WAIT_TIMEOUT == -1
V_MWAIT_WOKEN == -2
NoResult == 2

ASSUME TaskAssumption ==
    /\ Idle \in Task /\ NULL \notin Task
    /\ MaxPriority \in Nat
    /\ BasePriority \in [Task -> Priority]
    /\ MayExit \subseteq Task \ {Idle}

ASSUME ObjAssumption ==
    /\ Sem \cap Mutex = {} /\ NULL \notin Obj /\ Recursive \subseteq Mutex
    /\ InitCount \in [Sem -> Nat] /\ Limit \in [Sem -> Nat]
    /\ \A s \in Sem : InitCount[s] <= Limit[s]
    /\ FdLists \subseteq Seq(Sem) /\ \A fds \in FdLists : NoDup(fds)

ASSUME BoundAssumption ==
    /\ TakeTicks \cup WaitTicks \subseteq Nat \cup {V_WAIT_FOREVER}
    /\ DelayTicks \subseteq Nat \ {0}
    /\ MAX_PI_DEPTH \in Nat /\ MaxRecursion \in Nat
    /\ VAIOS_IPC_FD \in BOOLEAN /\ MayRelock \in BOOLEAN

ASSUME InitReadyAssumption ==
    /\ InitReady \in [Priority -> Seq(Task)]
    /\ \A p \in Priority :
         /\ NoDup(InitReady[p])
         /\ ToSet(InitReady[p]) = {t \in Task : BasePriority[t] = p}

VARIABLES
    status, priority, delay_ticks,       \* TCB fields
    ready_lists, blocked_list, delayed_list, current_task,
    wait_sem, wait_mutex, held_mutexes,  \* TCB fields
    count, wait_q,                       \* sema_t
    owner, recursion_count,              \* rmutex_t
    in_multiwait, wnodes, observers,     \* v_wait
    syscall_result,                      \* result a waker left for a blocked call
    call,                                \* the library call each task is inside
    pendsv,                              \* PendSV is pending
    handler                              \* the kernel loop being executed

taskVars  == <<status, priority, delay_ticks>>
listVars  == <<ready_lists, blocked_list, delayed_list>>
waitVars  == <<wait_sem, wait_mutex>>
semVars   == <<count, wait_q>>
mutexVars == <<owner, recursion_count, held_mutexes>>
mwaitVars == <<in_multiwait, wnodes, observers>>
vars == <<taskVars, listVars, current_task, waitVars, semVars, mutexVars,
          mwaitVars, syscall_result, call, pendsv, handler>>

\* The library call a task is inside: the object it takes, locks or unlocks.
NoCall == [op |-> "none", obj |-> NULL]
Call ==
    [op : {"take"}, obj : Sem] \cup [op : {"lock", "unlock"}, obj : Mutex]
      \cup [op : {"none", "wait", "disarm"}, obj : {NULL}]

\* The kernel loop being executed, with its local variables.
UserMode == [at |-> "user", task |-> NULL, obj |-> NULL, depth |-> 0, ticks |-> 0]
Handler ==
    [at : {"inherit", "panic"}, task : Task, obj : Mutex \cup {NULL}, depth : Nat, ticks : Int]
      \cup [at : {"observers"}, task : {NULL}, obj : Sem, depth : {0}, ticks : {0}]
      \cup [at : {"teardown"}, task : Task, obj : {NULL}, depth : {0}, ticks : {0}]
      \cup [at : {"user", "sleepers", "waiters"}, task : {NULL}, obj : {NULL}, depth : {0},
             ticks : {0}]

Init ==
    /\ status = [t \in Task |-> "READY"]
    /\ priority = BasePriority
    /\ delay_ticks = [t \in Task |-> NoDeadline]
    /\ ready_lists = InitReady /\ blocked_list = <<>> /\ delayed_list = <<>>
    /\ current_task = Idle
    /\ wait_sem = [t \in Task |-> NULL] /\ wait_mutex = [t \in Task |-> NULL]
    /\ held_mutexes = [t \in Task |-> <<>>]
    /\ count = [s \in Obj |-> IF s \in Sem THEN InitCount[s] ELSE 1]
    /\ wait_q = [s \in Obj |-> <<>>]
    /\ owner = [m \in Mutex |-> NULL] /\ recursion_count = [m \in Mutex |-> 0]
    /\ in_multiwait = [t \in Task |-> FALSE] /\ wnodes = [t \in Task |-> <<>>]
    /\ observers = [s \in Sem |-> <<>>]
    /\ syscall_result = [t \in Task |-> NoResult]
    /\ call = [t \in Task |-> NoCall]
    /\ pendsv = FALSE /\ handler = UserMode
------------------------------------------------------------------------------
(* List primitives *)

\* MUTANT: the ready list as a stack.
rl_append_Head(lists, t, p) == [lists EXCEPT ![p] = <<t>> \o @]

rl_append(lists, t, p) == [lists EXCEPT ![p] = Append(@, t)]

rl_remove(lists, t, p) == [lists EXCEPT ![p] = Unlink(@, t)]

\* Most urgent first, first come first served among equals.
wait_q_enqueue(q, t) ==
    InsertAt(q, 1 + PrefixLen(q, {w \in Task : priority[w] >= priority[t]}), t)

\* MUTANT: sleepers in order of arrival.
add_to_delayed_list_Fifo(q, t, d) == Append(q, t)

\* Ascending deadline; d is the deadline of t.
add_to_delayed_list(q, t, d) ==
    InsertAt(q, 1 + PrefixLen(q, {w \in Task : delay_ticks[w] <= d}), t)

v_wake_deadline(ticks) == IF ticks = V_WAIT_FOREVER THEN NoDeadline ELSE ticks

\* A parked task t becomes ready, with the result its system call returns.
MakeReady(t, result) ==
    /\ blocked_list' = Unlink(blocked_list, t)
    /\ ready_lists' = rl_append(ready_lists, t, priority[t])
    /\ status' = [status EXCEPT ![t] = "READY"]
    /\ syscall_result' = [syscall_result EXCEPT ![t] = result]

\* The running task c is parked on blocked_list with a timeout.
Park(c, ticks, op, obj) ==
    /\ status' = [status EXCEPT ![c] = "BLOCKED"]
    /\ delay_ticks' = [delay_ticks EXCEPT ![c] = v_wake_deadline(ticks)]
    /\ blocked_list' = Append(blocked_list, c)
    /\ call' = [call EXCEPT ![c] = [op |-> op, obj |-> obj]]
    /\ pendsv' = TRUE

\* Thread mode: task c executes its own code and enters no call yet.
Executing(c) ==
    /\ handler = UserMode /\ ~pendsv
    /\ current_task = c /\ c # Idle
    /\ call[c] = NoCall
------------------------------------------------------------------------------
(* Semaphores *)

\* The running task blocks on s: the tail of semaphore_take_common.
BlockOn(c, s, ticks, op) ==
    /\ Park(c, ticks, op, s)
    /\ wait_sem' = [wait_sem EXCEPT ![c] = s]
    /\ wait_q' = [wait_q EXCEPT ![s] = wait_q_enqueue(@, c)]

v_semaphore_take(c, s, ticks) ==
    /\ Executing(c)
    /\ \/ /\ count[s] > 0
          /\ count' = [count EXCEPT ![s] = @ - 1]
          /\ UNCHANGED <<taskVars, blocked_list, wait_sem, wait_q, call, pendsv>>
       \/ /\ count[s] = 0 /\ ticks # 0
          /\ BlockOn(c, s, ticks, "take")
          /\ UNCHANGED <<priority, count>>
    /\ UNCHANGED <<ready_lists, delayed_list, current_task, wait_mutex,
                   mutexVars, mwaitVars, syscall_result, handler>>

\* MUTANT: the limit is not tested.
semaphore_give_common_NoLimit(s) ==
    /\ wait_q[s] = <<>>
    /\ count' = [count EXCEPT ![s] = @ + 1]
    /\ UNCHANGED <<status, blocked_list, ready_lists, wait_sem, wait_q,
                   syscall_result, handler>>

\* MUTANT: the waiter is woken and the slot counted as well.
semaphore_give_common_Twice(s) ==
    /\ wait_q[s] # <<>> /\ count[s] < Limit[s]
    /\ LET w == Head(wait_q[s]) IN
         /\ wait_q' = [wait_q EXCEPT ![s] = Tail(@)]
         /\ wait_sem' = [wait_sem EXCEPT ![w] = NULL]
         /\ MakeReady(w, VA_PASS)
    /\ count' = [count EXCEPT ![s] = @ + 1]
    /\ UNCHANGED handler

\* Hand the slot to the first waiter, or count it and wake the observers.
semaphore_give_common(s) ==
    \/ /\ wait_q[s] # <<>>
       /\ LET w == Head(wait_q[s]) IN
            /\ wait_q' = [wait_q EXCEPT ![s] = Tail(@)]
            /\ wait_sem' = [wait_sem EXCEPT ![w] = NULL]
            /\ MakeReady(w, VA_PASS)
       /\ UNCHANGED <<count, handler>>
    \/ /\ wait_q[s] = <<>> /\ count[s] < Limit[s]
       /\ count' = [count EXCEPT ![s] = @ + 1]
       /\ handler' = IF VAIOS_IPC_FD
                       THEN [UserMode EXCEPT !.at = "observers", !.obj = s]
                       ELSE handler
       /\ UNCHANGED <<status, blocked_list, ready_lists, wait_sem, wait_q,
                      syscall_result>>

v_semaphore_give(c, s) ==
    /\ Executing(c)
    /\ semaphore_give_common(s)
    /\ UNCHANGED <<priority, delay_ticks, delayed_list, current_task, wait_mutex,
                   mutexVars, mwaitVars, call, pendsv>>

\* An interrupt gives, and asks for a switch when it woke a more urgent task.
v_semaphore_give_from_isr(s) ==
    /\ handler = UserMode
    /\ semaphore_give_common(s)
    /\ pendsv' = \/ pendsv
                 \/ /\ wait_q[s] # <<>>
                    /\ priority[Head(wait_q[s])] > priority[current_task]
    /\ UNCHANGED <<priority, delay_ticks, delayed_list, current_task, wait_mutex,
                   mutexVars, mwaitVars, call>>
------------------------------------------------------------------------------
(* Mutexes *)

\* v_mutex_lock, and v_mutex_lock_recursive by a task that is not the owner.
v_mutex_lock(c, m, ticks) ==
    /\ Executing(c)
    /\ MayRelock \/ owner[m] # c
    /\ handler' = [at |-> "inherit", task |-> c, obj |-> m, depth |-> 0, ticks |-> ticks]
    /\ call' = [call EXCEPT ![c] = [op |-> "lock", obj |-> m]]
    /\ UNCHANGED <<taskVars, listVars, current_task, waitVars, semVars, mutexVars,
                   mwaitVars, syscall_result, pendsv>>

task_change_priority(t, p) ==
    /\ priority' = [priority EXCEPT ![t] = p]
    /\ ready_lists' = IF status[t] = "READY"
                        THEN rl_append(rl_remove(ready_lists, t, priority[t]), t, p)
                        ELSE ready_lists

\* The walk is at a mutex whose owner the caller outranks.
Outranked(m, c) == m # NULL /\ owner[m] # NULL /\ priority[owner[m]] < priority[c]

\* MUTANT: the walk ends after its first hop.
Onward_Never(o) == NULL

\* Where the walk goes from the boosted owner o: to the mutex o is itself blocked on.
Onward(o) == IF status[o] = "BLOCKED" THEN wait_mutex[o] ELSE NULL

\* One hop of the priority-inheritance walk; v_panic halts the machine.
InheritHop ==
    /\ handler.at = "inherit" /\ Outranked(handler.obj, handler.task)
    /\ LET o == owner[handler.obj] IN
         IF handler.depth >= MAX_PI_DEPTH
           THEN /\ handler' = [handler EXCEPT !.at = "panic"]
                /\ UNCHANGED <<priority, ready_lists>>
           ELSE /\ task_change_priority(o, priority[handler.task])
                /\ handler' = [at |-> "inherit", task |-> handler.task,
                     obj |-> Onward(o), depth |-> handler.depth + 1, ticks |-> handler.ticks]
    /\ UNCHANGED <<status, delay_ticks, blocked_list, delayed_list, current_task,
                   waitVars, semVars, mutexVars, mwaitVars, syscall_result, call, pendsv>>

\* MUTANT: the held list is not updated.
Own_Unlisted(m, w, held) ==
    /\ owner' = [owner EXCEPT ![m] = w]
    /\ recursion_count' = [recursion_count EXCEPT ![m] = 1]
    /\ held_mutexes' = held

\* The mutex m goes to task w, with its name pushed on w's held list.
Own(m, w, held) ==
    /\ owner' = [owner EXCEPT ![m] = w]
    /\ recursion_count' = [recursion_count EXCEPT ![m] = 1]
    /\ held_mutexes' = [held EXCEPT ![w] = <<m>> \o @]

\* mutex_lock_common after the walk: take the base semaphore, own on success.
LockTake ==
    /\ handler.at = "inherit" /\ ~Outranked(handler.obj, handler.task)
    /\ handler' = UserMode
    /\ LET c == handler.task
           m == call[c].obj
       IN \/ /\ count[m] > 0
             /\ count' = [count EXCEPT ![m] = @ - 1]
             /\ IF owner[m] # c THEN Own(m, c, held_mutexes) ELSE UNCHANGED mutexVars
             /\ call' = [call EXCEPT ![c] = NoCall]
             /\ UNCHANGED <<taskVars, blocked_list, waitVars, wait_q, pendsv>>
          \/ /\ count[m] = 0 /\ handler.ticks = 0
             /\ call' = [call EXCEPT ![c] = NoCall]
             /\ UNCHANGED <<taskVars, blocked_list, waitVars, semVars, mutexVars, pendsv>>
          \/ /\ count[m] = 0 /\ handler.ticks # 0
             /\ BlockOn(c, m, handler.ticks, "lock")
             /\ wait_mutex' = [wait_mutex EXCEPT ![c] = m]
             /\ UNCHANGED <<priority, count, mutexVars>>
    /\ UNCHANGED <<ready_lists, delayed_list, current_task, mwaitVars, syscall_result>>

\* v_mutex_lock_recursive by the owner.
RecursiveRelock(c, m) ==
    /\ Executing(c)
    /\ m \in Recursive /\ owner[m] = c /\ recursion_count[m] < MaxRecursion
    /\ recursion_count' = [recursion_count EXCEPT ![m] = @ + 1]
    /\ UNCHANGED <<taskVars, listVars, current_task, waitVars, semVars, owner,
                   held_mutexes, mwaitVars, syscall_result, call, pendsv, handler>>

\* v_mutex_unlock_recursive: the decrement is done in thread mode, and at zero
\* the task goes on to v_mutex_unlock by a separate system call.
v_mutex_unlock_recursive(c, m) ==
    /\ Executing(c)
    /\ m \in Recursive /\ owner[m] = c
    /\ recursion_count' = [recursion_count EXCEPT ![m] = @ - 1]
    /\ call' = IF recursion_count[m] = 1
                 THEN [call EXCEPT ![c] = [op |-> "unlock", obj |-> m]] ELSE call
    /\ UNCHANGED <<taskVars, listVars, current_task, waitVars, semVars, owner,
                   held_mutexes, mwaitVars, syscall_result, pendsv, handler>>

mutex_top_waiter_prio(m) ==
    IF wait_q[m] = <<>> THEN 0 ELSE priority[Head(wait_q[m])]

\* MUTANT: an unlock drops the owner to its base priority.
FloorPriority_Base(c, held, p) == p = BasePriority[c]

\* MUTANT: an unlock leaves the priority alone.
FloorPriority_Keep(c, held, p) == p = priority[c]

\* p is base_priority raised to the head waiters of the mutexes of held.
FloorPriority(c, held, p) ==
    LET floors == {BasePriority[c]} \cup {mutex_top_waiter_prio(m) : m \in ToSet(held)}
    IN p \in floors /\ \A q \in floors : q <= p

\* m passes to its first waiter, or is freed when nobody waits.
HandOver(m, held) ==
    \/ /\ wait_q[m] # <<>>
       /\ LET w == Head(wait_q[m]) IN
            /\ wait_q' = [wait_q EXCEPT ![m] = Tail(@)]
            /\ wait_sem' = [wait_sem EXCEPT ![w] = NULL]
            /\ wait_mutex' = [wait_mutex EXCEPT ![w] = NULL]
            /\ MakeReady(w, VA_PASS)
            /\ Own(m, w, held)
       /\ UNCHANGED count
    \/ /\ wait_q[m] = <<>>
       /\ owner' = [owner EXCEPT ![m] = NULL]
       /\ recursion_count' = [recursion_count EXCEPT ![m] = 0]
       /\ held_mutexes' = held
       /\ count' = [count EXCEPT ![m] = @ + 1]
       /\ UNCHANGED <<status, blocked_list, ready_lists, waitVars, wait_q, syscall_result>>

mutex_unlock_common(c, m) ==
    /\ owner[m] = c
    /\ LET held == [held_mutexes EXCEPT ![c] = Unlink(@, m)] IN
         /\ \E p \in Priority : /\ FloorPriority(c, held[c], p)
                                /\ priority' = [priority EXCEPT ![c] = p]
         /\ HandOver(m, held)
    /\ call' = [call EXCEPT ![c] = NoCall]
    /\ UNCHANGED <<delay_ticks, delayed_list, current_task, mwaitVars, pendsv, handler>>

v_mutex_unlock(c, m) ==
    /\ \/ Executing(c)
       \/ /\ handler = UserMode /\ ~pendsv /\ current_task = c
          /\ call[c] = [op |-> "unlock", obj |-> m]
    /\ mutex_unlock_common(c, m)
------------------------------------------------------------------------------
(* v_wait *)

\* MUTANT: no readiness scan before the task parks.
NothingReady_Unscanned(fds) == TRUE

NothingReady(fds) == \A i \in DOMAIN fds : count[fds[i]] = 0

\* SYS_wait with nothing ready: one observer node per fd, then park.
v_wait_block_impl(c, fds, ticks) ==
    /\ VAIOS_IPC_FD /\ Executing(c)
    /\ fds # <<>> /\ ticks # 0
    /\ NothingReady(fds)
    /\ Park(c, ticks, "wait", NULL)
    /\ in_multiwait' = [in_multiwait EXCEPT ![c] = TRUE]
    /\ wnodes' = [wnodes EXCEPT ![c] = fds]
    /\ observers' = [s \in Sem |->
         IF s \in ToSet(fds) THEN <<c>> \o observers[s] ELSE observers[s]]
    /\ UNCHANGED <<priority, ready_lists, delayed_list, current_task, waitVars,
                   semVars, mutexVars, syscall_result, handler>>

\* MUTANT: in_multiwait stays set after the wake.
WakeMultiwaiter_StillArmed(t) ==
    /\ MakeReady(t, V_MWAIT_WOKEN)
    /\ delay_ticks' = [delay_ticks EXCEPT ![t] = NoDeadline]
    /\ UNCHANGED in_multiwait

WakeMultiwaiter(t) ==
    /\ MakeReady(t, V_MWAIT_WOKEN)
    /\ in_multiwait' = [in_multiwait EXCEPT ![t] = FALSE]
    /\ delay_ticks' = [delay_ticks EXCEPT ![t] = NoDeadline]

\* One iteration of mwait_wake_observers: the first observer still waiting.
WakeObserver ==
    /\ handler.at = "observers"
    /\ \E i \in DOMAIN observers[handler.obj] :
         LET t == observers[handler.obj][i] IN
           /\ in_multiwait[t]
           /\ \A j \in 1..(i - 1) : ~in_multiwait[observers[handler.obj][j]]
           /\ WakeMultiwaiter(t)
    /\ UNCHANGED <<priority, delayed_list, current_task, waitVars, semVars, mutexVars,
                   wnodes, observers, call, pendsv, handler>>

ObserversDone ==
    /\ handler.at = "observers"
    /\ \A t \in ToSet(observers[handler.obj]) : ~in_multiwait[t]
    /\ handler' = UserMode
    /\ UNCHANGED <<taskVars, listVars, current_task, waitVars, semVars, mutexVars,
                   mwaitVars, syscall_result, call, pendsv>>

\* The observer lists without the nodes of t.
mwait_disarm(t) ==
    /\ observers' = [s \in Sem |->
         IF s \in ToSet(wnodes[t]) THEN Unlink(observers[s], t) ELSE observers[s]]
    /\ wnodes' = [wnodes EXCEPT ![t] = <<>>]

\* The second half of v_wait, a system call of its own.
v_wait_disarm_impl(c) ==
    /\ handler = UserMode /\ ~pendsv /\ current_task = c
    /\ call[c].op = "disarm"
    /\ mwait_disarm(c)
    /\ call' = [call EXCEPT ![c] = NoCall]
    /\ UNCHANGED <<taskVars, listVars, current_task, waitVars, semVars, mutexVars,
                   in_multiwait, syscall_result, pendsv, handler>>
------------------------------------------------------------------------------
(* Delays and the tick *)

task_delay(c, ticks) ==
    /\ Executing(c) /\ ticks # 0
    /\ delay_ticks' = [delay_ticks EXCEPT ![c] = ticks]
    /\ delayed_list' = add_to_delayed_list(delayed_list, c, ticks)
    /\ status' = [status EXCEPT ![c] = "DELAYED"]
    /\ pendsv' = TRUE
    /\ UNCHANGED <<priority, ready_lists, blocked_list, current_task, waitVars, semVars,
                   mutexVars, mwaitVars, syscall_result, call, handler>>

task_yield(c) ==
    /\ Executing(c)
    /\ pendsv' = TRUE
    /\ UNCHANGED <<taskVars, listVars, current_task, waitVars, semVars, mutexVars,
                   mwaitVars, syscall_result, call, handler>>

\* SysTick: systick_count++ brings every deadline one closer.
v_kernel_tick ==
    /\ handler = UserMode
    /\ delay_ticks' = [t \in Task |->
         IF delay_ticks[t] >= 0 THEN delay_ticks[t] - 1 ELSE delay_ticks[t]]
    /\ handler' = [UserMode EXCEPT !.at = "sleepers"]
    /\ UNCHANGED <<status, priority, listVars, current_task, waitVars, semVars, mutexVars,
                   mwaitVars, syscall_result, call, pendsv>>

SleeperDue == delayed_list # <<>> /\ delay_ticks[Head(delayed_list)] <= 0

WakeSleeper ==
    /\ handler.at = "sleepers" /\ SleeperDue
    /\ LET t == Head(delayed_list) IN
         /\ delayed_list' = Tail(delayed_list)
         /\ ready_lists' = rl_append(ready_lists, t, priority[t])
         /\ status' = [status EXCEPT ![t] = "READY"]
         /\ delay_ticks' = [delay_ticks EXCEPT ![t] = NoDeadline]
    /\ UNCHANGED <<priority, blocked_list, current_task, waitVars, semVars, mutexVars,
                   mwaitVars, syscall_result, call, pendsv, handler>>

SleepersDone ==
    /\ handler.at = "sleepers" /\ ~SleeperDue
    /\ handler' = [UserMode EXCEPT !.at = "waiters"]
    /\ UNCHANGED <<taskVars, listVars, current_task, waitVars, semVars, mutexVars,
                   mwaitVars, syscall_result, call, pendsv>>

\* MUTANT: the scan looks at multi-waiters only.
Expired_NoTake(t) == delay_ticks[t] = Past /\ in_multiwait[t]

\* What the scan of blocked_list acts on: the status is not looked at.
Expired(t) == delay_ticks[t] = Past /\ (wait_sem[t] # NULL \/ in_multiwait[t])

FirstExpired(i) ==
    /\ i \in DOMAIN blocked_list /\ Expired(blocked_list[i])
    /\ \A j \in 1..(i - 1) : ~Expired(blocked_list[j])

\* MUTANT: the task stays on the wait queue.
EjectWaiter_Linked(t) ==
    /\ wait_sem[t] # NULL
    /\ MakeReady(t, VA_FAIL)
    /\ wait_mutex' = [wait_mutex EXCEPT ![t] = NULL]
    /\ UNCHANGED <<wait_q, in_multiwait>>

\* A take or lock that timed out; wait_sem stays set.
EjectWaiter(t) ==
    /\ wait_sem[t] # NULL
    /\ wait_q' = [wait_q EXCEPT ![wait_sem[t]] = Unlink(@, t)]
    /\ MakeReady(t, VA_FAIL)
    /\ wait_mutex' = [wait_mutex EXCEPT ![t] = NULL]
    /\ UNCHANGED in_multiwait

\* MUTANT: the result of a timed-out take.
EjectMultiwaiter_Fail(t) ==
    /\ wait_sem[t] = NULL
    /\ in_multiwait' = [in_multiwait EXCEPT ![t] = FALSE]
    /\ MakeReady(t, VA_FAIL)
    /\ UNCHANGED <<wait_q, wait_mutex>>

\* A v_wait that timed out.
EjectMultiwaiter(t) ==
    /\ wait_sem[t] = NULL
    /\ in_multiwait' = [in_multiwait EXCEPT ![t] = FALSE]
    /\ MakeReady(t, WAIT_TIMEOUT)
    /\ UNCHANGED <<wait_q, wait_mutex>>

Eject ==
    /\ handler.at = "waiters"
    /\ \E i \in DOMAIN blocked_list :
         /\ FirstExpired(i)
         /\ EjectWaiter(blocked_list[i]) \/ EjectMultiwaiter(blocked_list[i])
         /\ delay_ticks' = [delay_ticks EXCEPT ![blocked_list[i]] = NoDeadline]
    /\ UNCHANGED <<priority, delayed_list, current_task, wait_sem, count, mutexVars,
                   wnodes, observers, call, pendsv, handler>>

TickDone ==
    /\ handler.at = "waiters"
    /\ \A t \in ToSet(blocked_list) : ~Expired(t)
    /\ handler' = UserMode /\ pendsv' = TRUE
    /\ UNCHANGED <<taskVars, listVars, current_task, waitVars, semVars, mutexVars,
                   mwaitVars, syscall_result, call>>
------------------------------------------------------------------------------
(* The context switch *)

highest_ready_prio(lists, p) ==
    /\ lists[p] # <<>>
    /\ \A q \in Priority : lists[q] # <<>> => q <= p

\* The head of the highest ready list, or Idle when all are empty.
rl_pop_head(lists, t, rest) ==
    \/ \E p \in Priority :
         /\ highest_ready_prio(lists, p)
         /\ t = Head(lists[p]) /\ rest = [lists EXCEPT ![p] = Tail(@)]
    \/ /\ \A q \in Priority : lists[q] = <<>>
       /\ t = Idle /\ rest = lists

\* What task t does next when its system call returns r.
v_syscall_deliver_result(t, r) ==
    IF r = NoResult THEN call[t]
    ELSE IF call[t].op = "wait" /\ r < 0 THEN [op |-> "disarm", obj |-> NULL]
    ELSE NoCall

\* get_next_task, then the delivery of the result to the incoming task.
PendSV ==
    /\ pendsv /\ handler = UserMode
    /\ LET preempted == status[current_task] = "RUNNING"
           lists == IF preempted
                      THEN rl_append(ready_lists, current_task, priority[current_task])
                      ELSE ready_lists
       IN \E t \in Task :
            /\ rl_pop_head(lists, t, ready_lists')
            /\ current_task' = t
            /\ status' = [x \in Task |->
                 IF x = t THEN "RUNNING"
                 ELSE IF x = current_task /\ preempted THEN "READY" ELSE status[x]]
            /\ call' = [call EXCEPT ![t] = v_syscall_deliver_result(t, syscall_result[t])]
            /\ syscall_result' = [syscall_result EXCEPT ![t] = NoResult]
    /\ pendsv' = FALSE
    /\ UNCHANGED <<priority, delay_ticks, blocked_list, delayed_list, waitVars, semVars,
                   mutexVars, mwaitVars, handler>>
------------------------------------------------------------------------------
(* The end of a task *)

TearDown(t) == handler' = [UserMode EXCEPT !.at = "teardown", !.task = t]

v_task_exit_impl(c) ==
    /\ Executing(c) /\ c \in MayExit
    /\ TearDown(c)
    /\ UNCHANGED <<taskVars, listVars, current_task, waitVars, semVars, mutexVars,
                   mwaitVars, syscall_result, call, pendsv>>

\* get_task_by_id does not look at the ready list of MAX_PRIORITY.
Reachable(t) ==
    /\ status[t] \in {"READY", "DELAYED", "BLOCKED"}
    /\ status[t] = "READY" => priority[t] < MaxPriority

\* MUTANT: a blocked task is not unlinked from blocked_list.
task_exit_request_Linked(c, t) ==
    /\ Executing(c) /\ t # c /\ t \in MayExit
    /\ status[t] = "BLOCKED"
    /\ TearDown(t)
    /\ UNCHANGED <<taskVars, listVars, current_task, waitVars, semVars, mutexVars,
                   mwaitVars, syscall_result, call, pendsv>>

task_exit_request(c, t) ==
    /\ Executing(c) /\ t # c /\ t \in MayExit
    /\ Reachable(t)
    /\ ready_lists' = IF status[t] = "READY"
                        THEN rl_remove(ready_lists, t, priority[t]) ELSE ready_lists
    /\ delayed_list' = IF status[t] = "DELAYED"
                         THEN Unlink(delayed_list, t) ELSE delayed_list
    /\ blocked_list' = IF status[t] = "BLOCKED"
                         THEN Unlink(blocked_list, t) ELSE blocked_list
    /\ TearDown(t)
    /\ UNCHANGED <<taskVars, current_task, waitVars, semVars, mutexVars, mwaitVars,
                   syscall_result, call, pendsv>>

\* MUTANT: the held list is dropped and the mutexes stay locked.
TeardownMutex_Leak ==
    /\ handler.at = "teardown" /\ held_mutexes[handler.task] # <<>>
    /\ held_mutexes' = [held_mutexes EXCEPT ![handler.task] = <<>>]
    /\ UNCHANGED <<taskVars, listVars, current_task, waitVars, semVars, owner,
                   recursion_count, mwaitVars, syscall_result, call, pendsv, handler>>

\* One iteration of the first loop of v_ipc_task_teardown.
TeardownMutex ==
    /\ handler.at = "teardown"
    /\ LET t == handler.task IN
         /\ held_mutexes[t] # <<>>
         /\ HandOver(Head(held_mutexes[t]), [held_mutexes EXCEPT ![t] = Tail(@)])
    /\ UNCHANGED <<priority, delay_ticks, delayed_list, current_task, mwaitVars,
                   call, pendsv, handler>>

\* MUTANT: the dead task keeps its place in the queue.
LeaveWaitQueue_Linked(t) ==
    /\ wait_sem' = [wait_sem EXCEPT ![t] = NULL]
    /\ wait_mutex' = [wait_mutex EXCEPT ![t] = NULL]
    /\ UNCHANGED wait_q

\* MUTANT: wait_sem is left set.
LeaveWaitQueue_Waiting(t) ==
    /\ wait_q' = IF wait_sem[t] = NULL THEN wait_q
                 ELSE [wait_q EXCEPT ![wait_sem[t]] = Unlink(@, t)]
    /\ wait_mutex' = [wait_mutex EXCEPT ![t] = NULL]
    /\ UNCHANGED wait_sem

\* A dying task leaves the queue it is parked on.
LeaveWaitQueue(t) ==
    /\ wait_q' = IF wait_sem[t] = NULL THEN wait_q
                 ELSE [wait_q EXCEPT ![wait_sem[t]] = Unlink(@, t)]
    /\ wait_sem' = [wait_sem EXCEPT ![t] = NULL]
    /\ wait_mutex' = [wait_mutex EXCEPT ![t] = NULL]

\* The rest of the teardown, and the parking of the dead task for the idle GC.
TeardownDone ==
    /\ handler.at = "teardown"
    /\ LET t == handler.task IN
         /\ held_mutexes[t] = <<>>
         /\ LeaveWaitQueue(t)
         /\ IF in_multiwait[t] THEN mwait_disarm(t) ELSE UNCHANGED <<wnodes, observers>>
         /\ status' = [status EXCEPT ![t] = "TERMINATED"]
         /\ blocked_list' = Append(blocked_list, t)
    /\ handler' = UserMode /\ pendsv' = TRUE
    /\ UNCHANGED <<priority, delay_ticks, ready_lists, delayed_list, current_task, count,
                   mutexVars, in_multiwait, syscall_result, call>>

\* One pass of the idle loop: the first dead task of blocked_list is freed.
idle_task_function ==
    /\ handler = UserMode /\ ~pendsv /\ current_task = Idle
    /\ \E i \in DOMAIN blocked_list :
         /\ status[blocked_list[i]] = "TERMINATED"
         /\ \A j \in 1..(i - 1) : status[blocked_list[j]] # "TERMINATED"
         /\ blocked_list' = RemoveAt(blocked_list, i)
         /\ status' = [status EXCEPT ![blocked_list[i]] = "FREED"]
    /\ UNCHANGED <<priority, delay_ticks, ready_lists, delayed_list, current_task, waitVars,
                   semVars, mutexVars, mwaitVars, syscall_result, call, pendsv, handler>>
------------------------------------------------------------------------------
\* What the task that runs asks of the kernel.
Syscall(c) ==
    \/ \E s \in Sem, n \in TakeTicks : v_semaphore_take(c, s, n)
    \/ \E s \in Sem : v_semaphore_give(c, s)
    \/ \E m \in Mutex, n \in TakeTicks : v_mutex_lock(c, m, n)
    \/ \E m \in Mutex : v_mutex_unlock(c, m)
    \/ \E m \in Mutex : RecursiveRelock(c, m)
    \/ \E m \in Mutex : v_mutex_unlock_recursive(c, m)
    \/ \E fds \in FdLists, n \in WaitTicks : v_wait_block_impl(c, fds, n)
    \/ v_wait_disarm_impl(c)
    \/ \E n \in DelayTicks : task_delay(c, n)
    \/ task_yield(c)
    \/ v_task_exit_impl(c)
    \/ \E t \in Task : task_exit_request(c, t)

Interrupt == v_kernel_tick \/ \E s \in Sem : v_semaphore_give_from_isr(s)

HandlerStep ==
    \/ InheritHop \/ LockTake
    \/ WakeObserver \/ ObserversDone
    \/ WakeSleeper \/ SleepersDone \/ Eject \/ TickDone
    \/ TeardownMutex \/ TeardownDone

Next ==
    \/ Syscall(current_task)
    \/ Interrupt
    \/ HandlerStep
    \/ PendSV
    \/ idle_task_function

Spec == Init /\ [][Next]_vars
------------------------------------------------------------------------------
(* Properties *)

Status == {"READY", "RUNNING", "BLOCKED", "DELAYED", "TERMINATED", "FREED"}
Result == {VA_PASS, VA_FAIL, WAIT_TIMEOUT, V_MWAIT_WOKEN, NoResult}

TaskTypeOK ==
    /\ status \in [Task -> Status]
    /\ priority \in [Task -> Priority]
    /\ delay_ticks \in [Task -> Int]
    /\ ready_lists \in [Priority -> Seq(Task)]
    /\ blocked_list \in Seq(Task) /\ delayed_list \in Seq(Task)
    /\ current_task \in Task

ObjTypeOK ==
    /\ wait_sem \in [Task -> Obj \cup {NULL}]
    /\ wait_mutex \in [Task -> Mutex \cup {NULL}]
    /\ count \in [Obj -> Nat] /\ \A s \in Sem : count[s] <= Limit[s]
    /\ wait_q \in [Obj -> Seq(Task)]
    /\ owner \in [Mutex -> Task \cup {NULL}]
    /\ recursion_count \in [Mutex -> Int]
    /\ held_mutexes \in [Task -> Seq(Mutex)]
    /\ in_multiwait \in [Task -> BOOLEAN]
    /\ wnodes \in [Task -> Seq(Sem)] /\ observers \in [Sem -> Seq(Task)]

CallTypeOK ==
    /\ syscall_result \in [Task -> Result]
    /\ call \in [Task -> Call]
    /\ pendsv \in BOOLEAN /\ handler \in Handler
    /\ handler.at = "inherit" => call[handler.task].op = "lock"

\* Every field keeps its type; a semaphore's count never passes its limit
\* (semaphore_give_common's "full" test), and a lock in progress knows its mutex.
TypeOK == TaskTypeOK /\ ObjTypeOK /\ CallTypeOK

\* A parked task is never forgotten: while anyone waits on a semaphore or a
\* mutex, its count is 0, so no give, unlock, timeout or teardown left a slot
\* behind that the waiter should have got (semaphore_give_common, HandOver).
NoLostWakeup == \A s \in Obj : wait_q[s] # <<>> => count[s] = 0

\* Mutual exclusion: a mutex is free exactly when its base count is 1, and it
\* is on the held list of its owner, once, and on no other (mutex_lock_common,
\* mutex_unlock_common, v_ipc_task_teardown).
MutexOwnership ==
    \A m \in Mutex :
      /\ count[m] = IF owner[m] = NULL THEN 1 ELSE 0
      /\ \A t \in Task : m \in ToSet(held_mutexes[t]) <=> owner[m] = t
      /\ \A t \in Task : NoDup(held_mutexes[t])

\* The task whose teardown is under way is on no list.
InTeardown(t) == handler.at = "teardown" /\ handler.task = t

\* A task that is neither dead nor being torn down.
Alive(t) == status[t] \notin {"TERMINATED", "FREED"} /\ ~InTeardown(t)

\* The scheduler lists and the status field agree: a task is linked on the one
\* list its status says and on no other, and only current_task runs (every
\* mover of task.c and ipc.c unlinks before it links).
ListsAgree ==
    /\ \A p \in Priority : NoDup(ready_lists[p])
    /\ NoDup(blocked_list) /\ NoDup(delayed_list)
    /\ \A t \in Task :
         /\ status[t] = "RUNNING" => t = current_task
         /\ \A p \in Priority : t \in ToSet(ready_lists[p]) <=>
              status[t] = "READY" /\ priority[t] = p /\ ~InTeardown(t)
         /\ t \in ToSet(blocked_list) <=>
              status[t] \in {"BLOCKED", "TERMINATED"} /\ ~InTeardown(t)
         /\ t \in ToSet(delayed_list) <=> status[t] = "DELAYED" /\ ~InTeardown(t)

\* A wait queue holds, once each, exactly the blocked tasks whose wait_sem
\* names it, so a give never picks a task that runs, sleeps or is gone
\* (wait_q_enqueue/dequeue/remove against the status field).
WaitQueuesAgree ==
    \A s \in Obj :
      /\ NoDup(wait_q[s])
      /\ \A t \in Task : t \in ToSet(wait_q[s]) <=>
           status[t] = "BLOCKED" /\ wait_sem[t] = s /\ ~in_multiwait[t]

\* A lock that will return VA_PASS already owns its mutex, and one that will
\* return VA_FAIL neither owns it nor waits for it: the deferred result
\* (v_syscall_wake_result) and the ownership hand-over never disagree.
LockResultTrue ==
    \A t \in Task : call[t].op = "lock" /\ Alive(t) =>
      /\ syscall_result[t] = VA_PASS => owner[call[t].obj] = t
      /\ syscall_result[t] = VA_FAIL =>
           owner[call[t].obj] # t /\ t \notin ToSet(wait_q[call[t].obj])

\* No direct priority inversion: the owner of a mutex runs at least at the base
\* priority of every task waiting for it, whatever hand-overs, timeouts, kills
\* and partial unlocks led here (the first hop of mutex_lock_common's walk, the
\* recompute of mutex_unlock_common, and the order of the wait queue together).
InheritedPriority ==
    \A m \in Mutex : \A w \in ToSet(wait_q[m]) :
      priority[owner[m]] >= BasePriority[w]

\* No priority inversion along a chain: while w waits for m and t for a mutex of w's, the
\* owner of m runs at least at the base priority of t, so that "a chain low -> mid ->
\* high resolves end to end" (the hops of mutex_lock_common's walk after the first, and
\* mutex_unlock_common's choice of the next owner).
ChainLent ==
    \A m, n \in Mutex : \A w \in ToSet(wait_q[m]), t \in ToSet(wait_q[n]) :
      owner[n] = w => priority[owner[m]] >= BasePriority[t]

\* A boost does not outlive its cause: a task that owns no mutex runs at its
\* base priority (mutex_unlock_common's recompute).
BoostEnds ==
    \A t \in Task : held_mutexes[t] = <<>> /\ Alive(t) => priority[t] = BasePriority[t]

\* A delay of N ticks ends on the Nth tick and a timeout of N on the tick after
\* it, never later: outside the tick handler nothing overdue is still parked
\* (the head-only walk relies on delayed_list being sorted).
NothingOverdue ==
    handler.at \notin {"sleepers", "waiters"} =>
      /\ \A t \in ToSet(delayed_list) : delay_ticks[t] > 0
      /\ \A t \in ToSet(blocked_list) : status[t] = "BLOCKED" => delay_ticks[t] # Past

\* The end of a task is final: a dead task is freed, never scheduled again.
DeadStaysDead ==
    [][\A t \in Task :
         /\ status[t] = "TERMINATED" => status'[t] \in {"TERMINATED", "FREED"}
         /\ status[t] = "FREED" => status'[t] = "FREED"]_vars

\* Nothing in the kernel points at a freed TCB: "no later give/unlock/wake
\* dereferences its (soon-freed) TCB" (v_ipc_task_teardown).
NoDangling ==
    \A t \in Task : status[t] = "FREED" =>
      /\ \A s \in Obj : t \notin ToSet(wait_q[s])
      /\ \A m \in Mutex : owner[m] # t
      /\ \A s \in Sem : t \notin ToSet(observers[s])
      /\ \A p \in Priority : t \notin ToSet(ready_lists[p])

\* A blocked v_wait is woken with a negative value: VA_FAIL is 0, "a valid ready
\* index" (wake_up_delayed_tasks_isr, step 2b).
WaitResultNegative ==
    \A t \in Task : call[t].op = "wait" /\ syscall_result[t] # NoResult =>
      syscall_result[t] < 0

\* A task parked in v_wait has an observer node on every semaphore it watches,
\* and none of them is ready: no give slips between the readiness scan and the
\* park, and no wake is lost among several waiters.
MultiwaitArmed ==
    \A t \in Task :
      /\ \A s \in Sem : t \in ToSet(observers[s]) <=> s \in ToSet(wnodes[t])
      /\ in_multiwait[t] /\ handler.at # "observers" =>
           /\ status[t] = "BLOCKED" /\ call[t].op = "wait"
           /\ \A s \in ToSet(wnodes[t]) : count[s] = 0
      /\ wnodes[t] # <<>> => call[t].op \in {"wait", "disarm"}

\* Fairness: an interrupt that comes while a handler runs stays pending and is
\* taken when the handler returns, so SysTick and PendSV, which are enabled only
\* between handlers, cannot be passed over for ever; handlers terminate.
Fairness ==
    /\ SF_vars(v_kernel_tick)
    /\ SF_vars(PendSV)
    /\ WF_vars(HandlerStep)

FairSpec == Spec /\ Fairness

\* A timed take, lock or v_wait ends: with a deadline set, a blocked task does
\* not stay blocked for ever, whatever the others do.
TimedWaitEnds ==
    \A t \in Task :
      status[t] = "BLOCKED" /\ delay_ticks[t] # NoDeadline ~> status[t] # "BLOCKED"

\* Round robin: a ready task of the highest priority always gets the processor,
\* however its peers of the same priority behave.
TopPriorityRuns ==
    \A t \in Task : BasePriority[t] = MaxPriority =>
      (status[t] = "READY" ~> status[t] = "RUNNING")

\* What inheritance does for the users of one mutex: its owner runs at least at the base
\* priority of whoever waits for it, and a task that owns nothing keeps no lent priority
\* (mutex_lock_common, mutex_unlock_common).
Inheritance == InheritedPriority /\ BoostEnds

\* What the users of mutexes rely on: a lock returns the truth about who owns the mutex,
\* and its owner runs at least at its waiters' base priority (mutex_lock_common,
\* mutex_unlock_common, v_syscall_wake_result).
LocksSound == LockResultTrue /\ Inheritance

\* The lists, the wait queues and the tasks tell one story, and nothing points at a
\* task that is gone: not across a timeout, a hand-over or a kill in between
\* (block_current_task, wake_up_delayed_tasks_isr, v_ipc_task_teardown).
ListsSound == ListsAgree /\ WaitQueuesAgree /\ NoDangling

\* v_wait misses no give, is woken with a result that says what happened, and leaves
\* every task on one list (v_wait_block_impl, semaphore_give_common,
\* wake_up_delayed_tasks_isr).
MultiwaitSound == ListsAgree /\ MultiwaitArmed /\ WaitResultNegative
==============================================================================

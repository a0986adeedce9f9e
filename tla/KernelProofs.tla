---------------------------- MODULE KernelProofs -----------------------------
(* What holds of Kernel for every number of tasks, semaphores and mutexes. *)
EXTENDS Kernel, ListLemmas, TLAPS

USE DEF Priority, Obj

\* The constants as the proofs use them.
LEMMA Constants ==
    /\ Idle \in Task /\ NULL \notin Task /\ NULL \notin Sem /\ NULL \notin Mutex
    /\ BasePriority \in [Task -> Priority]
    /\ \A s \in Sem : s \notin Mutex
    /\ TakeTicks \subseteq Int /\ WaitTicks \subseteq Int /\ DelayTicks \subseteq Int
    /\ FdLists \subseteq Seq(Sem) /\ Limit \in [Sem -> Nat]
BY TaskAssumption, ObjAssumption, BoundAssumption DEF V_WAIT_FOREVER

\* A handler back in user mode, and the handlers the actions start.
LEMMA HandlerTypes ==
    /\ UserMode \in Handler /\ UserMode.at = "user"
    /\ \A c \in Task, m \in Mutex \cup {NULL}, d \in Nat, n \in Int, k \in {"inherit", "panic"} :
         [at |-> k, task |-> c, obj |-> m, depth |-> d, ticks |-> n] \in Handler
    /\ \A s \in Sem : [UserMode EXCEPT !.at = "observers", !.obj = s] \in Handler
    /\ \A t \in Task : [UserMode EXCEPT !.at = "teardown", !.task = t] \in Handler
    /\ [UserMode EXCEPT !.at = "sleepers"] \in Handler
    /\ [UserMode EXCEPT !.at = "waiters"] \in Handler
BY DEF Handler, UserMode

\* The calls the actions record.
LEMMA CallTypes ==
    /\ NoCall \in Call
    /\ \A s \in Sem : [op |-> "take", obj |-> s] \in Call
    /\ \A m \in Mutex, k \in {"lock", "unlock"} : [op |-> k, obj |-> m] \in Call
    /\ \A k \in {"none", "wait", "disarm"} : [op |-> k, obj |-> NULL] \in Call
BY DEF NoCall, Call

\* The state main() leaves behind is well typed.
LEMMA InitType == Init => TypeOK
<1> SUFFICES ASSUME Init PROVE TypeOK
  OBVIOUS
<1>1. TaskTypeOK
  BY Constants, InitReadyAssumption DEF Init, TaskTypeOK, Status, NoDeadline
<1>2. ObjTypeOK
  BY Constants, ObjAssumption DEF Init, ObjTypeOK
<1>3. CallTypeOK
  BY HandlerTypes, CallTypes DEF Init, CallTypeOK, Result, NoResult
<1>4. QED
  BY <1>1, <1>2, <1>3 DEF TypeOK

\* The ready lists after a task is appended to or taken off one of them.
LEMMA ReadyListType ==
    ASSUME NEW lists \in [Priority -> Seq(Task)], NEW t \in Task, NEW p \in Priority
    PROVE  /\ rl_append(lists, t, p) \in [Priority -> Seq(Task)]
           /\ rl_remove(lists, t, p) \in [Priority -> Seq(Task)]
<1>1. Append(lists[p], t) \in Seq(Task) /\ Unlink(lists[p], t) \in Seq(Task)
  BY AppendRange, UnlinkType
<1>2. QED
  BY <1>1 DEF rl_append, rl_remove

\* The wait queue after t joins it.
LEMMA EnqueueType ==
    ASSUME NEW q \in Seq(Task), NEW t \in Task
    PROVE  wait_q_enqueue(q, t) \in Seq(Task) /\ wait_q_enqueue(q, t) # <<>>
<1> DEFINE S == {w \in Task : priority[w] >= priority[t]}
           i == 1 + PrefixLen(q, S)
<1>1. i \in 1..(Len(q) + 1) /\ Len(q) \in Nat
  BY PrefixLenBound, LenProperties
<1>2. wait_q_enqueue(q, t) = InsertAt(q, i, t)
  BY DEF wait_q_enqueue
<1> HIDE DEF i
<1>3. InsertAt(q, i, t) \in Seq(Task) /\ Len(InsertAt(q, i, t)) = Len(q) + 1
  BY <1>1, InsertAtElem
<1>4. InsertAt(q, i, t) # <<>>
  BY <1>1, <1>3
<1>5. QED
  BY <1>2, <1>3, <1>4

\* The delayed list after t joins it.
LEMMA DelayedType ==
    ASSUME NEW q \in Seq(Task), NEW t \in Task, NEW d
    PROVE  add_to_delayed_list(q, t, d) \in Seq(Task)
<1> DEFINE S == {w \in Task : delay_ticks[w] <= d}
           i == 1 + PrefixLen(q, S)
<1>1. i \in 1..(Len(q) + 1)
  BY PrefixLenBound
<1>2. add_to_delayed_list(q, t, d) = InsertAt(q, i, t)
  BY DEF add_to_delayed_list
<1> HIDE DEF i
<1>3. QED
  BY <1>1, <1>2, InsertAtElem

\* What becomes of a parked task that is made ready.
LEMMA MakeReadyType ==
    ASSUME TypeOK, NEW t \in Task, NEW r \in Result, MakeReady(t, r)
    PROVE  /\ blocked_list' \in Seq(Task)
           /\ ready_lists' \in [Priority -> Seq(Task)]
           /\ status' \in [Task -> Status]
           /\ syscall_result' \in [Task -> Result]
<1>1. /\ status \in [Task -> Status] /\ priority[t] \in Priority
      /\ ready_lists \in [Priority -> Seq(Task)] /\ blocked_list \in Seq(Task)
      /\ syscall_result \in [Task -> Result]
  BY DEF TypeOK, TaskTypeOK, CallTypeOK
<1>2. Unlink(blocked_list, t) \in Seq(Task)
  BY <1>1, UnlinkType
<1>3. rl_append(ready_lists, t, priority[t]) \in [Priority -> Seq(Task)]
  BY <1>1, ReadyListType
<1>4. QED
  BY <1>1, <1>2, <1>3 DEF MakeReady, Status

\* What becomes of a running task that parks.
LEMMA ParkType ==
    ASSUME TypeOK, NEW c \in Task, NEW n \in Int, NEW op, NEW obj,
           [op |-> op, obj |-> obj] \in Call, Park(c, n, op, obj)
    PROVE  /\ status' \in [Task -> Status] /\ delay_ticks' \in [Task -> Int]
           /\ blocked_list' \in Seq(Task) /\ call' \in [Task -> Call]
           /\ pendsv' \in BOOLEAN
<1>1. /\ status \in [Task -> Status] /\ delay_ticks \in [Task -> Int]
      /\ blocked_list \in Seq(Task) /\ call \in [Task -> Call]
  BY DEF TypeOK, TaskTypeOK, CallTypeOK
<1>2. Append(blocked_list, c) \in Seq(Task)
  BY <1>1, AppendRange
<1>3. v_wake_deadline(n) \in Int
  BY DEF v_wake_deadline, NoDeadline
<1>4. QED
  BY <1>1, <1>2, <1>3 DEF Park, Status

\* Parking on a semaphore or a mutex.
LEMMA BlockOnType ==
    ASSUME TypeOK, NEW c \in Task, NEW s \in Obj, NEW n \in Int, NEW op,
           [op |-> op, obj |-> s] \in Call, BlockOn(c, s, n, op)
    PROVE  /\ status' \in [Task -> Status] /\ delay_ticks' \in [Task -> Int]
           /\ blocked_list' \in Seq(Task) /\ call' \in [Task -> Call]
           /\ pendsv' \in BOOLEAN
           /\ wait_sem' \in [Task -> Obj \cup {NULL}] /\ wait_q' \in [Obj -> Seq(Task)]
<1>1. Park(c, n, op, s)
  BY DEF BlockOn
<1>2. wait_sem \in [Task -> Obj \cup {NULL}] /\ wait_q \in [Obj -> Seq(Task)]
  BY DEF TypeOK, ObjTypeOK
<1>3. wait_q_enqueue(wait_q[s], c) \in Seq(Task)
  BY <1>2, EnqueueType
<1>4. wait_sem' \in [Task -> Obj \cup {NULL}] /\ wait_q' \in [Obj -> Seq(Task)]
  BY <1>2, <1>3 DEF BlockOn
<1>5. QED
  BY <1>1, <1>4, ParkType

\* Giving a mutex to a task.
LEMMA OwnType ==
    ASSUME TypeOK, NEW m \in Mutex, NEW w \in Task,
           NEW held \in [Task -> Seq(Mutex)], Own(m, w, held)
    PROVE  /\ owner' \in [Mutex -> Task \cup {NULL}]
           /\ recursion_count' \in [Mutex -> Int]
           /\ held_mutexes' \in [Task -> Seq(Mutex)]
<1>1. owner \in [Mutex -> Task \cup {NULL}] /\ recursion_count \in [Mutex -> Int]
  BY DEF TypeOK, ObjTypeOK
<1>2. <<m>> \o held[w] \in Seq(Mutex)
  BY PushRange
<1>3. QED
  BY <1>1, <1>2 DEF Own

\* Handing a mutex over, or freeing it.
LEMMA HandOverType ==
    ASSUME TypeOK, NEW m \in Mutex, NEW held \in [Task -> Seq(Mutex)], HandOver(m, held)
    PROVE  /\ blocked_list' \in Seq(Task)
           /\ ready_lists' \in [Priority -> Seq(Task)]
           /\ status' \in [Task -> Status]
           /\ syscall_result' \in [Task -> Result]
           /\ wait_sem' \in [Task -> Obj \cup {NULL}]
           /\ wait_mutex' \in [Task -> Mutex \cup {NULL}]
           /\ count' \in [Obj -> Nat] /\ \A s \in Sem : count'[s] <= Limit[s]
           /\ wait_q' \in [Obj -> Seq(Task)]
           /\ owner' \in [Mutex -> Task \cup {NULL}]
           /\ recursion_count' \in [Mutex -> Int]
           /\ held_mutexes' \in [Task -> Seq(Mutex)]
<1>1. CASE wait_q[m] # <<>>
  <2> DEFINE w == Head(wait_q[m])
  <2>1. w \in Task /\ Tail(wait_q[m]) \in Seq(Task)
    BY <1>1, TailRange DEF TypeOK, ObjTypeOK
  <2>2. MakeReady(w, VA_PASS) /\ VA_PASS \in Result /\ Own(m, w, held) /\ count' = count
        /\ wait_q' = [wait_q EXCEPT ![m] = Tail(@)]
        /\ wait_sem' = [wait_sem EXCEPT ![w] = NULL]
        /\ wait_mutex' = [wait_mutex EXCEPT ![w] = NULL]
    BY <1>1 DEF HandOver, Result
  <2> HIDE DEF w
  <2>3. /\ blocked_list' \in Seq(Task) /\ ready_lists' \in [Priority -> Seq(Task)]
        /\ status' \in [Task -> Status] /\ syscall_result' \in [Task -> Result]
    BY <2>1, <2>2, MakeReadyType
  <2>4. /\ owner' \in [Mutex -> Task \cup {NULL}] /\ recursion_count' \in [Mutex -> Int]
        /\ held_mutexes' \in [Task -> Seq(Mutex)]
    BY <2>1, <2>2, OwnType
  <2>5. /\ wait_sem' \in [Task -> Obj \cup {NULL}] /\ wait_mutex' \in [Task -> Mutex \cup {NULL}]
        /\ count' \in [Obj -> Nat] /\ \A s \in Sem : count'[s] <= Limit[s]
        /\ wait_q' \in [Obj -> Seq(Task)]
    BY <2>1, <2>2 DEF TypeOK, ObjTypeOK
  <2>6. QED
    BY <2>3, <2>4, <2>5
<1>2. CASE wait_q[m] = <<>>
  <2>1. /\ owner' = [owner EXCEPT ![m] = NULL]
        /\ recursion_count' = [recursion_count EXCEPT ![m] = 0]
        /\ held_mutexes' = held /\ count' = [count EXCEPT ![m] = @ + 1]
        /\ UNCHANGED <<status, blocked_list, ready_lists, waitVars, wait_q, syscall_result>>
    BY <1>2 DEF HandOver
  <2>2. count' \in [Obj -> Nat] /\ \A s \in Sem : count'[s] = count[s]
    <3>1. count \in [Obj -> Nat]
      BY DEF TypeOK, ObjTypeOK
    <3>2. QED
      BY <2>1, <3>1, Constants
  <2>3. owner' \in [Mutex -> Task \cup {NULL}] /\ recursion_count' \in [Mutex -> Int]
    BY <2>1 DEF TypeOK, ObjTypeOK
  <2>4. /\ blocked_list' \in Seq(Task) /\ ready_lists' \in [Priority -> Seq(Task)]
        /\ status' \in [Task -> Status] /\ syscall_result' \in [Task -> Result]
    BY <2>1 DEF TypeOK, TaskTypeOK, CallTypeOK
  <2>5. /\ wait_sem' \in [Task -> Obj \cup {NULL}] /\ wait_mutex' \in [Task -> Mutex \cup {NULL}]
        /\ wait_q' \in [Obj -> Seq(Task)] /\ \A s \in Sem : count[s] <= Limit[s]
    BY <2>1 DEF waitVars, TypeOK, ObjTypeOK
  <2>6. QED
    BY <2>1, <2>2, <2>3, <2>4, <2>5
<1>3. QED
  BY <1>1, <1>2

\* The tuples of UNCHANGED.
USE DEF taskVars, listVars, waitVars, semVars, mutexVars, mwaitVars

\* v_semaphore_take.
LEMMA TakeType ==
    ASSUME TypeOK, NEW c \in Task, NEW s \in Sem, NEW n \in TakeTicks,
           v_semaphore_take(c, s, n)
    PROVE  TypeOK'
<1>1. [op |-> "take", obj |-> s] \in Call /\ n \in Int /\ s \in Obj
  BY CallTypes, Constants
<1>2. handler = UserMode /\ handler.at = "user"
  BY HandlerTypes DEF v_semaphore_take, Executing
<1>3. CASE count[s] > 0
  <2>1. /\ count' = [count EXCEPT ![s] = @ - 1]
        /\ UNCHANGED <<taskVars, listVars, current_task, waitVars, wait_q, mutexVars,
                       mwaitVars, syscall_result, call, pendsv, handler>>
    BY <1>3 DEF v_semaphore_take
  <2>2. TaskTypeOK' /\ CallTypeOK'
    BY <2>1 DEF TypeOK, TaskTypeOK, CallTypeOK
  <2>3. count \in [Obj -> Nat] /\ \A x \in Sem : count[x] <= Limit[x]
    BY DEF TypeOK, ObjTypeOK
  <2>4. count' \in [Obj -> Nat] /\ \A x \in Sem : count'[x] <= Limit[x]
    BY <1>3, <2>1, <2>3, Constants
  <2>5. ObjTypeOK'
    BY <2>1, <2>4 DEF TypeOK, ObjTypeOK
  <2>6. QED
    BY <2>2, <2>5 DEF TypeOK
<1>4. CASE count[s] = 0
  <2>1. BlockOn(c, s, n, "take")
    BY <1>4 DEF v_semaphore_take
  <2>2. /\ status' \in [Task -> Status] /\ delay_ticks' \in [Task -> Int]
        /\ blocked_list' \in Seq(Task) /\ call' \in [Task -> Call] /\ pendsv' \in BOOLEAN
        /\ wait_sem' \in [Task -> Obj \cup {NULL}] /\ wait_q' \in [Obj -> Seq(Task)]
    BY <2>1, <1>1, BlockOnType
  <2>3. UNCHANGED <<priority, ready_lists, delayed_list, current_task, wait_mutex, count,
                    mutexVars, mwaitVars, syscall_result, handler>>
    BY <1>4 DEF v_semaphore_take
  <2>4. TaskTypeOK'
    BY <2>2, <2>3 DEF TypeOK, TaskTypeOK
  <2>5. ObjTypeOK'
    BY <2>2, <2>3 DEF TypeOK, ObjTypeOK
  <2>6. CallTypeOK'
    BY <1>2, <2>2, <2>3 DEF TypeOK, CallTypeOK
  <2>7. QED
    BY <2>4, <2>5, <2>6 DEF TypeOK
<1>5. count[s] > 0 \/ count[s] = 0
  BY DEF TypeOK, ObjTypeOK
<1>6. QED
  BY <1>3, <1>4, <1>5

\* What both kinds of give change.
LEMMA GiveCommonType ==
    ASSUME TypeOK, NEW s \in Sem, handler = UserMode, semaphore_give_common(s)
    PROVE  /\ blocked_list' \in Seq(Task)
           /\ ready_lists' \in [Priority -> Seq(Task)]
           /\ status' \in [Task -> Status]
           /\ syscall_result' \in [Task -> Result]
           /\ wait_sem' \in [Task -> Obj \cup {NULL}]
           /\ count' \in [Obj -> Nat] /\ \A x \in Sem : count'[x] <= Limit[x]
           /\ wait_q' \in [Obj -> Seq(Task)]
           /\ handler' \in Handler /\ handler'.at # "inherit"
<1>1. CASE wait_q[s] # <<>>
  <2> DEFINE w == Head(wait_q[s])
  <2>1. w \in Task /\ Tail(wait_q[s]) \in Seq(Task)
    BY <1>1, TailRange DEF TypeOK, ObjTypeOK
  <2>2. MakeReady(w, VA_PASS) /\ VA_PASS \in Result
        /\ wait_q' = [wait_q EXCEPT ![s] = Tail(@)]
        /\ wait_sem' = [wait_sem EXCEPT ![w] = NULL]
        /\ count' = count /\ handler' = handler
    BY <1>1 DEF semaphore_give_common, Result
  <2> HIDE DEF w
  <2>3. /\ blocked_list' \in Seq(Task) /\ ready_lists' \in [Priority -> Seq(Task)]
        /\ status' \in [Task -> Status] /\ syscall_result' \in [Task -> Result]
    BY <2>1, <2>2, MakeReadyType
  <2>4. QED
    BY <2>1, <2>2, <2>3, HandlerTypes DEF TypeOK, ObjTypeOK
<1>2. CASE wait_q[s] = <<>>
  <2>1. handler' \in Handler /\ handler'.at # "inherit"
    BY <1>2, HandlerTypes DEF semaphore_give_common, UserMode
  <2>2. /\ count[s] < Limit[s] /\ count' = [count EXCEPT ![s] = @ + 1]
        /\ UNCHANGED <<status, blocked_list, ready_lists, wait_sem, wait_q, syscall_result>>
    BY <1>2 DEF semaphore_give_common
  <2>3. count' \in [Obj -> Nat] /\ \A x \in Sem : count'[x] <= Limit[x]
    BY <2>2, Constants, SMTT(30) DEF TypeOK, ObjTypeOK
  <2>4. QED
    BY <2>1, <2>2, <2>3 DEF TypeOK, TaskTypeOK, ObjTypeOK, CallTypeOK
<1>3. QED
  BY <1>1, <1>2

\* v_semaphore_give, from a task and from an interrupt.
LEMMA GiveType ==
    ASSUME TypeOK, NEW s \in Sem,
           \/ \E c \in Task : v_semaphore_give(c, s)
           \/ v_semaphore_give_from_isr(s)
    PROVE  TypeOK'
<1>1. handler = UserMode /\ semaphore_give_common(s)
  BY DEF v_semaphore_give, v_semaphore_give_from_isr, Executing
<1>2. /\ pendsv' \in BOOLEAN
      /\ UNCHANGED <<priority, delay_ticks, delayed_list, current_task, wait_mutex,
                     mutexVars, mwaitVars, call>>
  BY DEF v_semaphore_give, v_semaphore_give_from_isr, TypeOK, CallTypeOK
<1>3. TaskTypeOK'
  BY <1>1, <1>2, GiveCommonType DEF TypeOK, TaskTypeOK
<1>4. ObjTypeOK'
  BY <1>1, <1>2, GiveCommonType DEF TypeOK, ObjTypeOK
<1>5. CallTypeOK'
  BY <1>1, <1>2, GiveCommonType DEF TypeOK, CallTypeOK
<1>6. QED
  BY <1>3, <1>4, <1>5 DEF TypeOK

\* The entry of v_mutex_lock.
LEMMA LockType ==
    ASSUME TypeOK, NEW c \in Task, NEW m \in Mutex, NEW n \in TakeTicks, v_mutex_lock(c, m, n)
    PROVE  TypeOK'
<1>1. n \in Int /\ [op |-> "lock", obj |-> m] \in Call
  BY Constants, CallTypes
<1>2. /\ handler' = [at |-> "inherit", task |-> c, obj |-> m, depth |-> 0, ticks |-> n]
      /\ handler' \in Handler
  BY <1>1, HandlerTypes DEF v_mutex_lock
<1>3. CallTypeOK'
  BY <1>1, <1>2 DEF v_mutex_lock, TypeOK, CallTypeOK
<1>4. TaskTypeOK' /\ ObjTypeOK'
  BY DEF v_mutex_lock, TypeOK, TaskTypeOK, ObjTypeOK
<1>5. QED
  BY <1>3, <1>4 DEF TypeOK

\* The local variables of the inheritance walk.
LEMMA InheritFacts ==
    ASSUME TypeOK, handler.at = "inherit"
    PROVE  /\ handler.task \in Task /\ handler.obj \in Mutex \cup {NULL}
           /\ handler.depth \in Nat /\ handler.ticks \in Int
           /\ handler = [at |-> "inherit", task |-> handler.task, obj |-> handler.obj,
                         depth |-> handler.depth, ticks |-> handler.ticks]
           /\ call[handler.task].obj \in Mutex
<1>1. handler \in Handler /\ call \in [Task -> Call] /\ call[handler.task].op = "lock"
  BY DEF TypeOK, CallTypeOK
<1>2. /\ handler.task \in Task /\ handler.obj \in Mutex \cup {NULL}
      /\ handler.depth \in Nat /\ handler.ticks \in Int
      /\ handler = [at |-> "inherit", task |-> handler.task, obj |-> handler.obj,
                    depth |-> handler.depth, ticks |-> handler.ticks]
  BY <1>1 DEF Handler
<1>3. call[handler.task].obj \in Mutex
  BY <1>1, <1>2 DEF Call
<1>4. QED
  BY <1>2, <1>3

\* One hop of the walk.
LEMMA InheritHopType ==
    ASSUME TypeOK, InheritHop
    PROVE  TypeOK'
<1> DEFINE o == owner[handler.obj]
           c == handler.task
           nxt == IF status[o] = "BLOCKED" THEN wait_mutex[o] ELSE NULL
<1>1. /\ handler.at = "inherit" /\ handler.obj # NULL /\ owner[handler.obj] # NULL
  BY DEF InheritHop, Outranked
<1>2. /\ c \in Task /\ handler.obj \in Mutex /\ handler.depth \in Nat /\ handler.ticks \in Int
      /\ handler = [at |-> "inherit", task |-> c, obj |-> handler.obj,
                    depth |-> handler.depth, ticks |-> handler.ticks]
      /\ call[c].op = "lock"
  BY <1>1, InheritFacts DEF TypeOK, CallTypeOK
<1>3. o \in Task /\ priority[c] \in Priority /\ priority[o] \in Priority
      /\ nxt \in Mutex \cup {NULL}
  BY <1>1, <1>2 DEF TypeOK, TaskTypeOK, ObjTypeOK
<1>4. CASE handler.depth >= MAX_PI_DEPTH
  <2>1. /\ handler' = [handler EXCEPT !.at = "panic"]
        /\ UNCHANGED <<priority, ready_lists>>
    BY <1>4 DEF InheritHop
  <2>2. handler' = [at |-> "panic", task |-> c, obj |-> handler.obj,
                    depth |-> handler.depth, ticks |-> handler.ticks]
    BY <2>1, <1>2
  <2>3. handler' \in Handler /\ handler'.at = "panic"
    BY <2>2, <1>2, HandlerTypes
  <2>4. QED
    BY <2>1, <2>3 DEF InheritHop, TypeOK, TaskTypeOK, ObjTypeOK, CallTypeOK
<1>5. CASE ~(handler.depth >= MAX_PI_DEPTH)
  <2>1. /\ task_change_priority(o, priority[c])
        /\ handler' = [at |-> "inherit", task |-> c, obj |-> nxt,
                       depth |-> handler.depth + 1, ticks |-> handler.ticks]
    BY <1>5 DEF InheritHop, Onward
  <2>3. handler' \in Handler /\ handler'.task = c
    <3>1. handler.depth + 1 \in Nat
      BY <1>2
    <3> HIDE DEF nxt, c, o
    <3>2. QED
      BY <2>1, <3>1, <1>2, <1>3, HandlerTypes
  <2>4. priority' \in [Task -> Priority] /\ ready_lists' \in [Priority -> Seq(Task)]
    <3>1. rl_remove(ready_lists, o, priority[o]) \in [Priority -> Seq(Task)]
      BY <1>3, ReadyListType DEF TypeOK, TaskTypeOK
    <3>2. rl_append(rl_remove(ready_lists, o, priority[o]), o, priority[c])
            \in [Priority -> Seq(Task)]
      BY <1>3, <3>1, ReadyListType
    <3>3. QED
      BY <2>1, <1>3, <3>2 DEF task_change_priority, TypeOK, TaskTypeOK
  <2>5. QED
    BY <1>2, <2>3, <2>4 DEF InheritHop, TypeOK, TaskTypeOK, ObjTypeOK, CallTypeOK
<1>6. QED
  BY <1>4, <1>5

\* The lock after the walk.
LEMMA LockTakeType ==
    ASSUME TypeOK, LockTake
    PROVE  TypeOK'
<1> DEFINE c == handler.task
           m == call[c].obj
<1>1. handler.at = "inherit" /\ handler' = UserMode
  BY DEF LockTake
<1>2. c \in Task /\ m \in Mutex /\ handler.ticks \in Int
  BY <1>1, InheritFacts
<1>3. /\ UNCHANGED <<ready_lists, delayed_list, current_task, mwaitVars, syscall_result>>
      /\ handler' \in Handler /\ handler'.at = "user"
  BY <1>1, HandlerTypes DEF LockTake
<1>4. CASE count[m] > 0
  <2>1. /\ count' = [count EXCEPT ![m] = @ - 1]
        /\ IF owner[m] # c THEN Own(m, c, held_mutexes) ELSE UNCHANGED mutexVars
        /\ call' = [call EXCEPT ![c] = NoCall]
        /\ UNCHANGED <<taskVars, blocked_list, waitVars, wait_q, pendsv>>
    BY <1>2, <1>4 DEF LockTake, TypeOK, ObjTypeOK
  <2> HIDE DEF c, m
  <2>2. /\ owner' \in [Mutex -> Task \cup {NULL}] /\ recursion_count' \in [Mutex -> Int]
        /\ held_mutexes' \in [Task -> Seq(Mutex)]
    <3>1. CASE owner[m] # c
      BY <2>1, <3>1, <1>2, OwnType DEF TypeOK, ObjTypeOK
    <3>2. CASE owner[m] = c
      BY <2>1, <3>2 DEF TypeOK, ObjTypeOK
    <3>3. QED
      BY <3>1, <3>2
  <2>3. count' \in [Obj -> Nat] /\ \A s \in Sem : count'[s] = count[s]
    <3>1. count \in [Obj -> Nat]
      BY DEF TypeOK, ObjTypeOK
    <3>2. QED
      BY <3>1, <2>1, <1>2, <1>4, Constants
  <2>4. TaskTypeOK'
    BY <1>3, <2>1 DEF TypeOK, TaskTypeOK
  <2>5. ObjTypeOK'
    BY <1>3, <2>1, <2>2, <2>3 DEF TypeOK, ObjTypeOK
  <2>6. CallTypeOK'
    BY <1>2, <1>3, <2>1, CallTypes DEF TypeOK, CallTypeOK
  <2>7. QED
    BY <2>4, <2>5, <2>6 DEF TypeOK
<1>5. CASE count[m] = 0 /\ handler.ticks = 0
  <2>1. /\ call' = [call EXCEPT ![c] = NoCall]
        /\ UNCHANGED <<taskVars, blocked_list, waitVars, semVars, mutexVars, pendsv>>
    BY <1>2, <1>5 DEF LockTake
  <2> HIDE DEF c, m
  <2>2. TaskTypeOK'
    BY <1>3, <2>1 DEF TypeOK, TaskTypeOK
  <2>3. ObjTypeOK'
    BY <1>3, <2>1 DEF TypeOK, ObjTypeOK
  <2>4. CallTypeOK'
    BY <1>2, <1>3, <2>1, CallTypes DEF TypeOK, CallTypeOK
  <2>5. QED
    BY <2>2, <2>3, <2>4 DEF TypeOK
<1>6. CASE count[m] = 0 /\ handler.ticks # 0
  <2>1. /\ BlockOn(c, m, handler.ticks, "lock")
        /\ wait_mutex' = [wait_mutex EXCEPT ![c] = m]
        /\ UNCHANGED <<priority, count, mutexVars>>
    BY <1>2, <1>6 DEF LockTake
  <2> HIDE DEF c, m
  <2>2. [op |-> "lock", obj |-> m] \in Call /\ m \in Obj
    BY <1>2, CallTypes
  <2>3. /\ status' \in [Task -> Status] /\ delay_ticks' \in [Task -> Int]
        /\ blocked_list' \in Seq(Task) /\ call' \in [Task -> Call] /\ pendsv' \in BOOLEAN
        /\ wait_sem' \in [Task -> Obj \cup {NULL}] /\ wait_q' \in [Obj -> Seq(Task)]
    BY <1>2, <2>1, <2>2, BlockOnType
  <2>4. TaskTypeOK'
    BY <1>3, <2>1, <2>3 DEF TypeOK, TaskTypeOK
  <2>5. ObjTypeOK'
    BY <1>2, <1>3, <2>1, <2>3 DEF TypeOK, ObjTypeOK
  <2>6. CallTypeOK'
    BY <1>3, <2>1, <2>3 DEF TypeOK, CallTypeOK
  <2>7. QED
    BY <2>4, <2>5, <2>6 DEF TypeOK
<1>7. count[m] > 0 \/ count[m] = 0
  BY <1>2 DEF TypeOK, ObjTypeOK
<1>8. QED
  BY <1>4, <1>5, <1>6, <1>7

\* The recursive lock and unlock.
LEMMA RecursiveType ==
    ASSUME TypeOK, NEW c \in Task, NEW m \in Mutex,
           RecursiveRelock(c, m) \/ v_mutex_unlock_recursive(c, m)
    PROVE  TypeOK'
<1>1. /\ \/ recursion_count' = [recursion_count EXCEPT ![m] = @ + 1]
         \/ recursion_count' = [recursion_count EXCEPT ![m] = @ - 1]
      /\ call' = call \/ call' = [call EXCEPT ![c] = [op |-> "unlock", obj |-> m]]
      /\ handler' = UserMode
      /\ UNCHANGED <<taskVars, listVars, current_task, waitVars, semVars, owner,
                     held_mutexes, mwaitVars, syscall_result, pendsv>>
  BY DEF RecursiveRelock, v_mutex_unlock_recursive, Executing
<1>2. TaskTypeOK'
  BY <1>1 DEF TypeOK, TaskTypeOK
<1>3. ObjTypeOK'
  <2>1. recursion_count' \in [Mutex -> Int]
    BY <1>1 DEF TypeOK, ObjTypeOK
  <2>2. QED
    BY <1>1, <2>1 DEF TypeOK, ObjTypeOK
<1>4. CallTypeOK'
  <2>1. call' \in [Task -> Call]
    BY <1>1, CallTypes DEF TypeOK, CallTypeOK
  <2>2. QED
    BY <1>1, <2>1, HandlerTypes DEF TypeOK, CallTypeOK
<1>5. QED
  BY <1>2, <1>3, <1>4 DEF TypeOK

\* v_mutex_unlock.
LEMMA UnlockType ==
    ASSUME TypeOK, NEW c \in Task, NEW m \in Mutex, v_mutex_unlock(c, m)
    PROVE  TypeOK'
<1> DEFINE held == [held_mutexes EXCEPT ![c] = Unlink(@, m)]
<1>1. /\ handler' = UserMode /\ HandOver(m, held)
      /\ \E p \in Priority : priority' = [priority EXCEPT ![c] = p]
      /\ call' = [call EXCEPT ![c] = NoCall]
      /\ UNCHANGED <<delay_ticks, delayed_list, current_task, mwaitVars, pendsv>>
  BY DEF v_mutex_unlock, mutex_unlock_common, Executing
<1>2. held \in [Task -> Seq(Mutex)]
  <2>1. held_mutexes \in [Task -> Seq(Mutex)]
    BY DEF TypeOK, ObjTypeOK
  <2>2. Unlink(held_mutexes[c], m) \in Seq(Mutex)
    BY <2>1, UnlinkType
  <2>3. QED
    BY <2>1, <2>2
<1> HIDE DEF held
<1>3. priority' \in [Task -> Priority]
  BY <1>1 DEF TypeOK, TaskTypeOK
<1>4. TaskTypeOK'
  BY <1>1, <1>2, <1>3, HandOverType DEF TypeOK, TaskTypeOK
<1>5. ObjTypeOK'
  BY <1>1, <1>2, HandOverType DEF TypeOK, ObjTypeOK
<1>6. CallTypeOK'
  BY <1>1, <1>2, HandOverType, HandlerTypes, CallTypes DEF TypeOK, CallTypeOK
<1>7. QED
  BY <1>4, <1>5, <1>6 DEF TypeOK

\* The park of v_wait.
LEMMA WaitBlockType ==
    ASSUME TypeOK, NEW c \in Task, NEW fds \in FdLists, NEW n \in WaitTicks,
           v_wait_block_impl(c, fds, n)
    PROVE  TypeOK'
<1>1. /\ fds \in Seq(Sem) /\ n \in Int /\ [op |-> "wait", obj |-> NULL] \in Call
  BY Constants, CallTypes
<1>2. /\ Park(c, n, "wait", NULL) /\ handler = UserMode
      /\ in_multiwait' = [in_multiwait EXCEPT ![c] = TRUE]
      /\ wnodes' = [wnodes EXCEPT ![c] = fds]
      /\ observers' = [s \in Sem |->
           IF s \in ToSet(fds) THEN <<c>> \o observers[s] ELSE observers[s]]
      /\ UNCHANGED <<priority, ready_lists, delayed_list, current_task, waitVars,
                     semVars, mutexVars, syscall_result, handler>>
  BY DEF v_wait_block_impl, Executing
<1>3. observers' \in [Sem -> Seq(Task)]
  <2>1. observers \in [Sem -> Seq(Task)]
    BY DEF TypeOK, ObjTypeOK
  <2>2. \A s \in Sem : <<c>> \o observers[s] \in Seq(Task)
    BY <2>1, PushRange
  <2>3. QED
    BY <1>2, <2>1, <2>2
<1>4. TaskTypeOK'
  BY <1>1, <1>2, ParkType DEF TypeOK, TaskTypeOK
<1>5. ObjTypeOK'
  BY <1>1, <1>2, <1>3 DEF TypeOK, ObjTypeOK
<1>6. CallTypeOK'
  BY <1>1, <1>2, ParkType, HandlerTypes DEF TypeOK, CallTypeOK
<1>7. QED
  BY <1>4, <1>5, <1>6 DEF TypeOK

\* The wake of one observer.
LEMMA WakeObserverType ==
    ASSUME TypeOK, WakeObserver
    PROVE  TypeOK'
<1>1. handler.at = "observers" /\ handler.obj \in Sem
  <2>1. handler \in Handler /\ handler.at = "observers"
    BY DEF WakeObserver, TypeOK, CallTypeOK
  <2>2. QED
    BY <2>1 DEF Handler
<1>2. PICK i \in DOMAIN observers[handler.obj] : WakeMultiwaiter(observers[handler.obj][i])
  BY DEF WakeObserver
<1> DEFINE t == observers[handler.obj][i]
<1>3. t \in Task
  <2>1. observers[handler.obj] \in Seq(Task)
    BY <1>1 DEF TypeOK, ObjTypeOK
  <2>2. QED
    BY <1>2, <2>1, ElementOfSeq
<1>4. /\ MakeReady(t, V_MWAIT_WOKEN) /\ V_MWAIT_WOKEN \in Result
      /\ in_multiwait' = [in_multiwait EXCEPT ![t] = FALSE]
      /\ delay_ticks' = [delay_ticks EXCEPT ![t] = NoDeadline]
  BY <1>2 DEF WakeMultiwaiter, Result
<1>5. UNCHANGED <<priority, delayed_list, current_task, waitVars, semVars, mutexVars,
                  wnodes, observers, call, pendsv, handler>>
  BY DEF WakeObserver
<1> HIDE DEF t
<1>6. /\ blocked_list' \in Seq(Task) /\ ready_lists' \in [Priority -> Seq(Task)]
      /\ status' \in [Task -> Status] /\ syscall_result' \in [Task -> Result]
  BY <1>3, <1>4, MakeReadyType
<1>7. TaskTypeOK'
  <2>1. delay_ticks' \in [Task -> Int]
    BY <1>3, <1>4 DEF TypeOK, TaskTypeOK, NoDeadline
  <2>2. QED
    BY <2>1, <1>5, <1>6 DEF TypeOK, TaskTypeOK
<1>8. ObjTypeOK'
  BY <1>4, <1>5 DEF TypeOK, ObjTypeOK
<1>9. CallTypeOK'
  BY <1>5, <1>6 DEF TypeOK, CallTypeOK
<1>10. QED
  BY <1>7, <1>8, <1>9 DEF TypeOK

\* The unlinking of the observer nodes of a task.
LEMMA DisarmType ==
    ASSUME TypeOK, NEW t \in Task, mwait_disarm(t)
    PROVE  wnodes' \in [Task -> Seq(Sem)] /\ observers' \in [Sem -> Seq(Task)]
<1>1. wnodes \in [Task -> Seq(Sem)] /\ observers \in [Sem -> Seq(Task)]
  BY DEF TypeOK, ObjTypeOK
<1>2. \A s \in Sem : Unlink(observers[s], t) \in Seq(Task)
  BY <1>1, UnlinkType
<1>3. <<>> \in Seq(Sem)
  OBVIOUS
<1>4. QED
  BY <1>1, <1>2, <1>3 DEF mwait_disarm

\* The second half of v_wait.
LEMMA WaitDisarmType ==
    ASSUME TypeOK, NEW c \in Task, v_wait_disarm_impl(c)
    PROVE  TypeOK'
<1>1. /\ mwait_disarm(c) /\ handler = UserMode
      /\ call' = [call EXCEPT ![c] = NoCall]
      /\ UNCHANGED <<taskVars, listVars, current_task, waitVars, semVars, mutexVars,
                     in_multiwait, syscall_result, pendsv, handler>>
  BY DEF v_wait_disarm_impl
<1>2. TaskTypeOK'
  BY <1>1 DEF TypeOK, TaskTypeOK
<1>3. ObjTypeOK'
  BY <1>1, DisarmType DEF TypeOK, ObjTypeOK
<1>4. CallTypeOK'
  BY <1>1, CallTypes, HandlerTypes DEF TypeOK, CallTypeOK
<1>5. QED
  BY <1>2, <1>3, <1>4 DEF TypeOK

\* task_delay.
LEMMA DelayType ==
    ASSUME TypeOK, NEW c \in Task, NEW n \in DelayTicks, task_delay(c, n)
    PROVE  TypeOK'
<1>1. n \in Int
  BY Constants
<1>2. add_to_delayed_list(delayed_list, c, n) \in Seq(Task)
  BY DelayedType DEF TypeOK, TaskTypeOK
<1>3. /\ delay_ticks' = [delay_ticks EXCEPT ![c] = n]
      /\ delayed_list' = add_to_delayed_list(delayed_list, c, n)
      /\ status' = [status EXCEPT ![c] = "DELAYED"] /\ pendsv' = TRUE
      /\ UNCHANGED <<priority, ready_lists, blocked_list, current_task, waitVars, semVars,
                     mutexVars, mwaitVars, syscall_result, call, handler>>
  BY DEF task_delay
<1>4. TaskTypeOK'
  BY <1>1, <1>2, <1>3 DEF TypeOK, TaskTypeOK, Status
<1>5. ObjTypeOK' /\ CallTypeOK'
  BY <1>3 DEF TypeOK, ObjTypeOK, CallTypeOK
<1>6. QED
  BY <1>4, <1>5 DEF TypeOK

\* Steps that only move the processor between handlers.
LEMMA ControlType ==
    ASSUME TypeOK,
           \/ \E c \in Task : task_yield(c) \/ v_task_exit_impl(c)
           \/ ObserversDone \/ SleepersDone \/ TickDone
    PROVE  TypeOK'
<1>1. /\ handler' \in Handler /\ handler'.at # "inherit" /\ pendsv' \in BOOLEAN
      /\ UNCHANGED <<taskVars, listVars, current_task, waitVars, semVars, mutexVars,
                     mwaitVars, syscall_result, call>>
  <2>1. ASSUME NEW c \in Task, task_yield(c) PROVE <1>1!:
    BY <2>1, HandlerTypes DEF task_yield, Executing
  <2>2. ASSUME NEW c \in Task, v_task_exit_impl(c) PROVE <1>1!:
    BY <2>2, HandlerTypes DEF v_task_exit_impl, TearDown, UserMode, TypeOK, CallTypeOK
  <2>3. CASE ObserversDone
    BY <2>3, HandlerTypes DEF ObserversDone, TypeOK, CallTypeOK
  <2>4. CASE SleepersDone
    BY <2>4, HandlerTypes DEF SleepersDone, UserMode, TypeOK, CallTypeOK
  <2>5. CASE TickDone
    BY <2>5, HandlerTypes DEF TickDone
  <2>6. QED
    BY <2>1, <2>2, <2>3, <2>4, <2>5
<1>2. TaskTypeOK'
  BY <1>1 DEF TypeOK, TaskTypeOK
<1>3. ObjTypeOK'
  BY <1>1 DEF TypeOK, ObjTypeOK
<1>4. CallTypeOK'
  BY <1>1 DEF TypeOK, CallTypeOK
<1>5. QED
  BY <1>2, <1>3, <1>4 DEF TypeOK

\* v_kernel_tick.
LEMMA TickType ==
    ASSUME TypeOK, v_kernel_tick
    PROVE  TypeOK'
<1>1. /\ delay_ticks' = [t \in Task |->
           IF delay_ticks[t] >= 0 THEN delay_ticks[t] - 1 ELSE delay_ticks[t]]
      /\ handler' = [UserMode EXCEPT !.at = "sleepers"]
      /\ UNCHANGED <<status, priority, listVars, current_task, waitVars, semVars, mutexVars,
                     mwaitVars, syscall_result, call, pendsv>>
  BY DEF v_kernel_tick
<1>2. delay_ticks' \in [Task -> Int]
  BY <1>1 DEF TypeOK, TaskTypeOK
<1>3. handler' \in Handler /\ handler'.at # "inherit"
  BY <1>1, HandlerTypes DEF UserMode
<1>4. TaskTypeOK'
  BY <1>1, <1>2 DEF TypeOK, TaskTypeOK
<1>5. ObjTypeOK'
  BY <1>1 DEF TypeOK, ObjTypeOK
<1>6. CallTypeOK'
  BY <1>1, <1>3 DEF TypeOK, CallTypeOK
<1>7. QED
  BY <1>4, <1>5, <1>6 DEF TypeOK

\* The wake of one sleeper.
LEMMA WakeSleeperType ==
    ASSUME TypeOK, WakeSleeper
    PROVE  TypeOK'
<1> DEFINE t == Head(delayed_list)
<1>1. /\ delayed_list' = Tail(delayed_list)
      /\ ready_lists' = rl_append(ready_lists, t, priority[t])
      /\ status' = [status EXCEPT ![t] = "READY"]
      /\ delay_ticks' = [delay_ticks EXCEPT ![t] = NoDeadline]
      /\ UNCHANGED <<priority, blocked_list, current_task, waitVars, semVars, mutexVars,
                     mwaitVars, syscall_result, call, pendsv, handler>>
  BY DEF WakeSleeper
<1>2. t \in Task /\ delayed_list' \in Seq(Task)
  <2>1. delayed_list # <<>> /\ delayed_list \in Seq(Task)
    BY DEF WakeSleeper, SleeperDue, TypeOK, TaskTypeOK
  <2>2. QED
    BY <1>1, <2>1, TailRange
<1> HIDE DEF t
<1>3. ready_lists' \in [Priority -> Seq(Task)]
  BY <1>1, <1>2, ReadyListType DEF TypeOK, TaskTypeOK
<1>4. delay_ticks' \in [Task -> Int] /\ status' \in [Task -> Status]
  <2>1. delay_ticks \in [Task -> Int] /\ status \in [Task -> Status]
    BY DEF TypeOK, TaskTypeOK
  <2>2. delay_ticks' \in [Task -> Int]
    BY <1>1, <1>2, <2>1 DEF NoDeadline
  <2>3. status' \in [Task -> Status]
    BY <1>1, <1>2, <2>1 DEF Status
  <2>4. QED
    BY <2>2, <2>3
<1>5. TaskTypeOK'
  BY <1>1, <1>2, <1>3, <1>4 DEF TypeOK, TaskTypeOK
<1>6. ObjTypeOK'
  BY <1>1 DEF TypeOK, ObjTypeOK
<1>7. CallTypeOK'
  BY <1>1 DEF TypeOK, CallTypeOK
<1>8. QED
  BY <1>5, <1>6, <1>7 DEF TypeOK

\* The ejection of one expired waiter.
LEMMA EjectType ==
    ASSUME TypeOK, Eject
    PROVE  TypeOK'
<1>1. PICK i \in DOMAIN blocked_list :
        /\ EjectWaiter(blocked_list[i]) \/ EjectMultiwaiter(blocked_list[i])
        /\ delay_ticks' = [delay_ticks EXCEPT ![blocked_list[i]] = NoDeadline]
  BY DEF Eject
<1> DEFINE t == blocked_list[i]
<1>2. t \in Task
  <2>1. blocked_list \in Seq(Task)
    BY DEF TypeOK, TaskTypeOK
  <2>2. QED
    BY <1>1, <2>1, ElementOfSeq
<1>3. UNCHANGED <<priority, delayed_list, current_task, wait_sem, count, mutexVars,
                  wnodes, observers, call, pendsv, handler>>
  BY DEF Eject
<1>4. /\ EjectWaiter(t) \/ EjectMultiwaiter(t)
      /\ delay_ticks' = [delay_ticks EXCEPT ![t] = NoDeadline]
  BY <1>1
<1> HIDE DEF t
<1>5. PICK r \in Result : MakeReady(t, r)
  BY <1>4 DEF EjectWaiter, EjectMultiwaiter, Result
<1>6. /\ wait_q' \in [Obj -> Seq(Task)] /\ wait_mutex' \in [Task -> Mutex \cup {NULL}]
      /\ in_multiwait' \in [Task -> BOOLEAN]
  <2>1. CASE EjectWaiter(t)
    <3>1. wait_sem[t] \in Obj
      BY <1>2, <2>1 DEF EjectWaiter, TypeOK, ObjTypeOK
    <3>2. Unlink(wait_q[wait_sem[t]], t) \in Seq(Task)
      BY <3>1, UnlinkType DEF TypeOK, ObjTypeOK
    <3>3. QED
      BY <1>2, <2>1, <3>1, <3>2 DEF EjectWaiter, TypeOK, ObjTypeOK
  <2>2. CASE EjectMultiwaiter(t)
    BY <1>2, <2>2 DEF EjectMultiwaiter, TypeOK, ObjTypeOK
  <2>3. QED
    BY <1>4, <2>1, <2>2
<1>7. /\ blocked_list' \in Seq(Task) /\ ready_lists' \in [Priority -> Seq(Task)]
      /\ status' \in [Task -> Status] /\ syscall_result' \in [Task -> Result]
  BY <1>2, <1>5, MakeReadyType
<1>8. delay_ticks' \in [Task -> Int]
  BY <1>2, <1>4 DEF TypeOK, TaskTypeOK, NoDeadline
<1>9. TaskTypeOK'
  BY <1>3, <1>7, <1>8 DEF TypeOK, TaskTypeOK
<1>10. ObjTypeOK'
  BY <1>3, <1>6 DEF TypeOK, ObjTypeOK
<1>11. CallTypeOK'
  BY <1>3, <1>7 DEF TypeOK, CallTypeOK
<1>12. QED
  BY <1>9, <1>10, <1>11 DEF TypeOK

\* The head of the highest ready list and the lists without it.
LEMMA PopType ==
    ASSUME NEW lists \in [Priority -> Seq(Task)], NEW t \in Task, NEW rest,
           rl_pop_head(lists, t, rest)
    PROVE  rest \in [Priority -> Seq(Task)]
<1>1. CASE rest = lists
  BY <1>1
<1>2. ASSUME NEW p \in Priority, highest_ready_prio(lists, p),
             rest = [lists EXCEPT ![p] = Tail(@)]
      PROVE  rest \in [Priority -> Seq(Task)]
  <2>1. lists[p] # <<>> /\ lists[p] \in Seq(Task)
    BY <1>2 DEF highest_ready_prio
  <2>2. Tail(lists[p]) \in Seq(Task)
    BY <2>1, TailRange
  <2>3. QED
    BY <1>2, <2>2
<1>3. QED
  BY <1>1, <1>2 DEF rl_pop_head

\* The context switch.
LEMMA PendSVType ==
    ASSUME TypeOK, PendSV
    PROVE  TypeOK'
<1> DEFINE preempted == status[current_task] = "RUNNING"
           lists == IF preempted
                      THEN rl_append(ready_lists, current_task, priority[current_task])
                      ELSE ready_lists
<1>1. PICK t \in Task :
        /\ rl_pop_head(lists, t, ready_lists') /\ current_task' = t
        /\ status' = [x \in Task |->
             IF x = t THEN "RUNNING"
             ELSE IF x = current_task /\ preempted THEN "READY" ELSE status[x]]
        /\ call' = [call EXCEPT ![t] = v_syscall_deliver_result(t, syscall_result[t])]
        /\ syscall_result' = [syscall_result EXCEPT ![t] = NoResult]
  BY DEF PendSV
<1>2. /\ handler = UserMode /\ pendsv' = FALSE
      /\ UNCHANGED <<priority, delay_ticks, blocked_list, delayed_list, waitVars, semVars,
                     mutexVars, mwaitVars, handler>>
  BY DEF PendSV
<1>3. lists \in [Priority -> Seq(Task)]
  BY ReadyListType DEF TypeOK, TaskTypeOK
<1> HIDE DEF lists
<1>4. ready_lists' \in [Priority -> Seq(Task)]
  BY <1>1, <1>3, PopType
<1>5. status' \in [Task -> Status]
  BY <1>1 DEF TypeOK, TaskTypeOK, Status
<1>6. v_syscall_deliver_result(t, syscall_result[t]) \in Call
  BY CallTypes DEF v_syscall_deliver_result, TypeOK, CallTypeOK
<1>7. call' \in [Task -> Call] /\ syscall_result' \in [Task -> Result]
  BY <1>1, <1>6 DEF TypeOK, CallTypeOK, Result
<1>8. TaskTypeOK'
  BY <1>1, <1>2, <1>4, <1>5 DEF TypeOK, TaskTypeOK
<1>9. ObjTypeOK'
  BY <1>2 DEF TypeOK, ObjTypeOK
<1>10. CallTypeOK'
  BY <1>2, <1>7, HandlerTypes DEF TypeOK, CallTypeOK
<1>11. QED
  BY <1>8, <1>9, <1>10 DEF TypeOK

\* task_exit_request.
LEMMA ExitRequestType ==
    ASSUME TypeOK, NEW c \in Task, NEW t \in Task, task_exit_request(c, t)
    PROVE  TypeOK'
<1>1. /\ ready_lists' = IF status[t] = "READY"
                          THEN rl_remove(ready_lists, t, priority[t]) ELSE ready_lists
      /\ delayed_list' = IF status[t] = "DELAYED"
                           THEN Unlink(delayed_list, t) ELSE delayed_list
      /\ blocked_list' = IF status[t] = "BLOCKED"
                           THEN Unlink(blocked_list, t) ELSE blocked_list
      /\ handler' = [UserMode EXCEPT !.at = "teardown", !.task = t]
      /\ UNCHANGED <<taskVars, current_task, waitVars, semVars, mutexVars, mwaitVars,
                     syscall_result, call, pendsv>>
  BY DEF task_exit_request, TearDown
<1>2. rl_remove(ready_lists, t, priority[t]) \in [Priority -> Seq(Task)]
  BY ReadyListType DEF TypeOK, TaskTypeOK
<1>3. Unlink(delayed_list, t) \in Seq(Task) /\ Unlink(blocked_list, t) \in Seq(Task)
  BY UnlinkType DEF TypeOK, TaskTypeOK
<1>4. handler' \in Handler /\ handler'.at # "inherit"
  BY <1>1, HandlerTypes DEF UserMode
<1>5. TaskTypeOK'
  BY <1>1, <1>2, <1>3 DEF TypeOK, TaskTypeOK
<1>6. ObjTypeOK'
  BY <1>1 DEF TypeOK, ObjTypeOK
<1>7. CallTypeOK'
  BY <1>1, <1>4 DEF TypeOK, CallTypeOK
<1>8. QED
  BY <1>5, <1>6, <1>7 DEF TypeOK

\* The task a teardown is about.
LEMMA TeardownTask ==
    ASSUME TypeOK, handler.at = "teardown"
    PROVE  handler.task \in Task
<1>1. handler \in Handler
  BY DEF TypeOK, CallTypeOK
<1>2. QED
  BY <1>1 DEF Handler

\* The end of a teardown.
LEMMA TeardownDoneType ==
    ASSUME TypeOK, TeardownDone
    PROVE  TypeOK'
<1> DEFINE t == handler.task
<1>1. t \in Task
  BY TeardownTask DEF TeardownDone
<1>2. /\ LeaveWaitQueue(t)
      /\ IF in_multiwait[t] THEN mwait_disarm(t) ELSE UNCHANGED <<wnodes, observers>>
      /\ status' = [status EXCEPT ![t] = "TERMINATED"]
      /\ blocked_list' = Append(blocked_list, t)
      /\ handler' = UserMode /\ pendsv' = TRUE
      /\ UNCHANGED <<priority, delay_ticks, ready_lists, delayed_list, current_task, count,
                     mutexVars, in_multiwait, syscall_result, call>>
  BY DEF TeardownDone
<1> HIDE DEF t
<1>3. /\ wait_q' \in [Obj -> Seq(Task)] /\ wait_sem' \in [Task -> Obj \cup {NULL}]
      /\ wait_mutex' \in [Task -> Mutex \cup {NULL}]
  <2>1. wait_sem[t] # NULL => Unlink(wait_q[wait_sem[t]], t) \in Seq(Task)
    BY <1>1, UnlinkType DEF TypeOK, ObjTypeOK
  <2>2. QED
    BY <1>1, <1>2, <2>1 DEF LeaveWaitQueue, TypeOK, ObjTypeOK
<1>4. wnodes' \in [Task -> Seq(Sem)] /\ observers' \in [Sem -> Seq(Task)]
  BY <1>1, <1>2, DisarmType DEF TypeOK, ObjTypeOK
<1>5. blocked_list' \in Seq(Task) /\ status' \in [Task -> Status]
  BY <1>1, <1>2, AppendRange DEF TypeOK, TaskTypeOK, Status
<1>6. TaskTypeOK'
  BY <1>2, <1>5 DEF TypeOK, TaskTypeOK
<1>7. ObjTypeOK'
  BY <1>2, <1>3, <1>4 DEF TypeOK, ObjTypeOK
<1>8. CallTypeOK'
  BY <1>2, HandlerTypes DEF TypeOK, CallTypeOK
<1>9. QED
  BY <1>6, <1>7, <1>8 DEF TypeOK

\* The collection of a dead task.
LEMMA IdleType ==
    ASSUME TypeOK, idle_task_function
    PROVE  TypeOK'
<1>1. PICK i \in DOMAIN blocked_list :
        /\ blocked_list' = RemoveAt(blocked_list, i)
        /\ status' = [status EXCEPT ![blocked_list[i]] = "FREED"]
  BY DEF idle_task_function
<1>2. UNCHANGED <<priority, delay_ticks, ready_lists, delayed_list, current_task, waitVars,
                  semVars, mutexVars, mwaitVars, syscall_result, call, pendsv, handler>>
  BY DEF idle_task_function
<1>3. blocked_list' \in Seq(Task)
  <2>1. blocked_list \in Seq(Task) /\ i \in 1..Len(blocked_list)
    BY <1>1, LenProperties DEF TypeOK, TaskTypeOK
  <2>2. QED
    BY <1>1, <2>1, RemoveAtElem
<1>4. status' \in [Task -> Status]
  BY <1>1 DEF TypeOK, TaskTypeOK, Status
<1>5. TaskTypeOK'
  BY <1>2, <1>3, <1>4 DEF TypeOK, TaskTypeOK
<1>6. ObjTypeOK' /\ CallTypeOK'
  BY <1>2 DEF TypeOK, ObjTypeOK, CallTypeOK
<1>7. QED
  BY <1>5, <1>6 DEF TypeOK

\* The release of one mutex of a dying task.
LEMMA TeardownMutexType ==
    ASSUME TypeOK, TeardownMutex
    PROVE  TypeOK'
<1> DEFINE t == handler.task
           m == Head(held_mutexes[t])
           held == [held_mutexes EXCEPT ![t] = Tail(@)]
<1>1. handler.at = "teardown" /\ t \in Task
  BY TeardownTask DEF TeardownMutex
<1>2. /\ held_mutexes[t] # <<>> /\ HandOver(m, held)
      /\ UNCHANGED <<priority, delay_ticks, delayed_list, current_task, mwaitVars,
                     call, pendsv, handler>>
  BY DEF TeardownMutex
<1>3. m \in Mutex /\ held \in [Task -> Seq(Mutex)]
  <2>1. held_mutexes \in [Task -> Seq(Mutex)]
    BY DEF TypeOK, ObjTypeOK
  <2>2. m \in Mutex /\ Tail(held_mutexes[t]) \in Seq(Mutex)
    BY <1>1, <1>2, <2>1, TailRange
  <2>3. QED
    BY <2>1, <2>2
<1> HIDE DEF m, held, t
<1>4. /\ blocked_list' \in Seq(Task) /\ ready_lists' \in [Priority -> Seq(Task)]
      /\ status' \in [Task -> Status] /\ syscall_result' \in [Task -> Result]
      /\ wait_sem' \in [Task -> Obj \cup {NULL}]
      /\ wait_mutex' \in [Task -> Mutex \cup {NULL}]
      /\ count' \in [Obj -> Nat] /\ \A s \in Sem : count'[s] <= Limit[s]
      /\ wait_q' \in [Obj -> Seq(Task)] /\ owner' \in [Mutex -> Task \cup {NULL}]
      /\ recursion_count' \in [Mutex -> Int] /\ held_mutexes' \in [Task -> Seq(Mutex)]
  BY <1>2, <1>3, HandOverType
<1>5. TaskTypeOK'
  BY <1>2, <1>4 DEF TypeOK, TaskTypeOK
<1>6. ObjTypeOK'
  BY <1>2, <1>4 DEF TypeOK, ObjTypeOK
<1>7. CallTypeOK'
  BY <1>1, <1>2, <1>4 DEF TypeOK, CallTypeOK
<1>8. QED
  BY <1>5, <1>6, <1>7 DEF TypeOK

\* Every step keeps every type.
LEMMA StepType == TypeOK /\ [Next]_vars => TypeOK'
<1> SUFFICES ASSUME TypeOK, [Next]_vars PROVE TypeOK'
  OBVIOUS
<1>1. ASSUME NEW c \in Task, Syscall(c) PROVE TypeOK'
  <2>1. ASSUME NEW s \in Sem, NEW n \in TakeTicks, v_semaphore_take(c, s, n) PROVE TypeOK'
    BY <2>1, TakeType
  <2>2. ASSUME NEW s \in Sem, v_semaphore_give(c, s) PROVE TypeOK'
    BY <2>2, GiveType
  <2>3. ASSUME NEW m \in Mutex, NEW n \in TakeTicks, v_mutex_lock(c, m, n) PROVE TypeOK'
    BY <2>3, LockType
  <2>4. ASSUME NEW m \in Mutex, v_mutex_unlock(c, m) PROVE TypeOK'
    BY <2>4, UnlockType
  <2>5. ASSUME NEW m \in Mutex, RecursiveRelock(c, m) \/ v_mutex_unlock_recursive(c, m)
        PROVE  TypeOK'
    BY <2>5, RecursiveType
  <2>6. ASSUME NEW fds \in FdLists, NEW n \in WaitTicks, v_wait_block_impl(c, fds, n)
        PROVE  TypeOK'
    BY <2>6, WaitBlockType
  <2>7. CASE v_wait_disarm_impl(c)
    BY <2>7, WaitDisarmType
  <2>8. ASSUME NEW n \in DelayTicks, task_delay(c, n) PROVE TypeOK'
    BY <2>8, DelayType
  <2>9. CASE task_yield(c) \/ v_task_exit_impl(c)
    BY <2>9, ControlType
  <2>10. ASSUME NEW t \in Task, task_exit_request(c, t) PROVE TypeOK'
    BY <2>10, ExitRequestType
  <2>11. QED
    BY <1>1, <2>1, <2>2, <2>3, <2>4, <2>5, <2>6, <2>7, <2>8, <2>9, <2>10 DEF Syscall
<1>2. CASE Interrupt
  BY <1>2, TickType, GiveType DEF Interrupt
<1>3. CASE HandlerStep
  BY <1>3, InheritHopType, LockTakeType, WakeObserverType, ControlType, WakeSleeperType,
     EjectType, TeardownMutexType, TeardownDoneType DEF HandlerStep
<1>4. CASE PendSV
  BY <1>4, PendSVType
<1>5. CASE idle_task_function
  BY <1>5, IdleType
<1>6. CASE UNCHANGED vars
  BY <1>6 DEF vars, TypeOK, TaskTypeOK, ObjTypeOK, CallTypeOK
<1>7. current_task \in Task
  BY DEF TypeOK, TaskTypeOK
<1>8. QED
  BY <1>1, <1>2, <1>3, <1>4, <1>5, <1>6, <1>7 DEF Next

\* Type correctness, for any number of tasks, semaphores and mutexes: no path
\* through take, give, lock, unlock, v_wait, the tick, a kill or the context
\* switch counts a semaphore past its limit, dequeues from an empty list or
\* lets a mutex handler work on an object that is not its own.
THEOREM TypeCorrect == Spec => []TypeOK
<1>1. Init => TypeOK
  BY InitType
<1>2. TypeOK /\ [Next]_vars => TypeOK'
  BY StepType
<1>3. QED
  BY <1>1, <1>2, PTL DEF Spec
------------------------------------------------------------------------------
(***************************************************************************)
(* No lost wakeup and mutual exclusion.  Neither is inductive alone: that  *)
(* a successful lock finds nobody on the wait queue needs NoLostWakeup,    *)
(* that it finds no owner needs the tie of MutexOwnership between count    *)
(* and owner, and both need the types.  Their conjunction is inductive.    *)
(***************************************************************************)

\* The inductive invariant.
IInv == TypeOK /\ NoLostWakeup /\ MutexOwnership

\* A step that lets nobody join a wait queue and leaves counts, owners and held
\* lists alone keeps both invariants.
LEMMA Frame ==
    ASSUME NoLostWakeup, MutexOwnership,
           UNCHANGED <<count, owner, held_mutexes>>,
           \A s \in Obj : wait_q'[s] # <<>> => wait_q[s] # <<>>
    PROVE  NoLostWakeup' /\ MutexOwnership'
<1>1. NoLostWakeup'
  BY DEF NoLostWakeup
<1>2. MutexOwnership'
  BY DEF MutexOwnership
<1>3. QED
  BY <1>1, <1>2

\* Nothing is owned and nobody waits at the start.
LEMMA InitSafe == Init => IInv
<1> SUFFICES ASSUME Init PROVE IInv
  OBVIOUS
<1>1. NoLostWakeup
  BY DEF Init, NoLostWakeup
<1>2. MutexOwnership
  BY Constants, EmptyRange, ObjAssumption DEF Init, MutexOwnership
<1>3. QED
  BY <1>1, <1>2, InitType DEF IInv

\* A take that succeeds finds nobody waiting; one that blocks finds count 0.
LEMMA TakeSafe ==
    ASSUME IInv, NEW c \in Task, NEW s \in Sem, NEW n \in TakeTicks,
           v_semaphore_take(c, s, n)
    PROVE  NoLostWakeup' /\ MutexOwnership'
<1>1. /\ count \in [Obj -> Nat] /\ wait_q \in [Obj -> Seq(Task)]
      /\ NoLostWakeup /\ MutexOwnership /\ s \notin Mutex
  BY Constants DEF IInv, TypeOK, ObjTypeOK
<1>2. UNCHANGED <<owner, held_mutexes>>
  BY DEF v_semaphore_take
<1>3. \A m \in Mutex : count'[m] = count[m]
  BY <1>1 DEF v_semaphore_take
<1>4. MutexOwnership'
  BY <1>1, <1>2, <1>3 DEF MutexOwnership
<1>5. NoLostWakeup'
  <2>1. CASE count[s] > 0 /\ count' = [count EXCEPT ![s] = @ - 1] /\ UNCHANGED wait_q
    BY <1>1, <2>1 DEF NoLostWakeup
  <2>2. CASE count[s] = 0 /\ UNCHANGED count /\ BlockOn(c, s, n, "take")
    <3>1. \A x \in Obj : x # s => wait_q'[x] = wait_q[x]
      BY <1>1, <2>2 DEF BlockOn
    <3>2. QED
      BY <1>1, <2>2, <3>1 DEF NoLostWakeup
  <2>3. QED
    BY <2>1, <2>2 DEF v_semaphore_take
<1>6. QED
  BY <1>4, <1>5

\* A give hands the slot over or counts it, never both.
LEMMA GiveSafe ==
    ASSUME IInv, NEW s \in Sem,
           \/ \E c \in Task : v_semaphore_give(c, s)
           \/ v_semaphore_give_from_isr(s)
    PROVE  NoLostWakeup' /\ MutexOwnership'
<1>1. /\ count \in [Obj -> Nat] /\ wait_q \in [Obj -> Seq(Task)]
      /\ NoLostWakeup /\ MutexOwnership /\ s \notin Mutex
  BY Constants DEF IInv, TypeOK, ObjTypeOK
<1>2. semaphore_give_common(s) /\ UNCHANGED <<owner, held_mutexes>>
  BY DEF v_semaphore_give, v_semaphore_give_from_isr
<1>3. \A m \in Mutex : count'[m] = count[m]
  BY <1>1, <1>2 DEF semaphore_give_common
<1>4. MutexOwnership'
  BY <1>1, <1>2, <1>3 DEF MutexOwnership
<1>5. NoLostWakeup'
  <2>1. CASE /\ wait_q[s] # <<>> /\ wait_q' = [wait_q EXCEPT ![s] = Tail(@)]
             /\ UNCHANGED count
    BY <1>1, <2>1 DEF NoLostWakeup
  <2>2. CASE /\ wait_q[s] = <<>> /\ count' = [count EXCEPT ![s] = @ + 1]
             /\ UNCHANGED wait_q
    BY <1>1, <2>2 DEF NoLostWakeup
  <2>3. QED
    BY <1>2, <2>1, <2>2 DEF semaphore_give_common
<1>6. QED
  BY <1>4, <1>5

\* A mutex that changes hands, once it is off its owner's held list.
LEMMA HandOverSafe ==
    ASSUME IInv, NEW m \in Mutex, owner[m] # NULL,
           NEW held \in [Task -> Seq(Mutex)],
           \A t \in Task : NoDup(held[t]),
           \A t \in Task : ToSet(held[t]) = ToSet(held_mutexes[t]) \ {m},
           HandOver(m, held)
    PROVE  NoLostWakeup' /\ MutexOwnership'
<1>1. /\ count \in [Obj -> Nat] /\ wait_q \in [Obj -> Seq(Task)]
      /\ owner \in [Mutex -> Task \cup {NULL}]
      /\ NoLostWakeup /\ MutexOwnership /\ NULL \notin Task
  BY Constants DEF IInv, TypeOK, ObjTypeOK
<1>2. count[m] = 0
  BY <1>1 DEF MutexOwnership
<1>3. \A x \in Mutex, t \in Task : x # m =>
        /\ count[x] = IF owner[x] = NULL THEN 1 ELSE 0
        /\ x \in ToSet(held[t]) <=> owner[x] = t
  BY <1>1 DEF MutexOwnership
<1>4. CASE wait_q[m] # <<>>
  <2> DEFINE w == Head(wait_q[m])
  <2>1. w \in Task
    BY <1>1, <1>4, TailRange
  <2>2. /\ wait_q' = [wait_q EXCEPT ![m] = Tail(@)] /\ UNCHANGED count
        /\ owner' = [owner EXCEPT ![m] = w]
        /\ held_mutexes' = [held EXCEPT ![w] = <<m>> \o @]
    BY <1>4 DEF HandOver, Own
  <2> HIDE DEF w
  <2>3. ToSet(<<m>> \o held[w]) = ToSet(held[w]) \cup {m} /\ NoDup(<<m>> \o held[w])
    <3>1. held[w] \in Seq(Mutex) /\ NoDup(held[w]) /\ m \notin ToSet(held[w])
      BY <2>1
    <3>2. QED
      BY <3>1, PushRange
  <2>4. NoLostWakeup'
    BY <1>1, <1>2, <2>2 DEF NoLostWakeup
  <2>5. \A t \in Task : NoDup(held_mutexes'[t])
    BY <2>2, <2>3
  <2>6. \A x \in Mutex : count'[x] = IF owner'[x] = NULL THEN 1 ELSE 0
    BY <1>1, <1>2, <1>3, <2>1, <2>2
  <2>7. ASSUME NEW x \in Mutex, NEW t \in Task
        PROVE  x \in ToSet(held_mutexes'[t]) <=> owner'[x] = t
    <3>1. CASE t = w
      <4>1. ToSet(held_mutexes'[t]) = ToSet(held[t]) \cup {m}
        BY <2>1, <2>2, <2>3, <3>1
      <4>2. QED
        BY <1>1, <1>3, <2>1, <2>2, <3>1, <4>1
    <3>2. CASE t # w
      <4>1. ToSet(held_mutexes'[t]) = ToSet(held[t]) /\ m \notin ToSet(held[t])
        BY <2>2, <3>2
      <4>2. QED
        BY <1>1, <1>3, <2>2, <3>2, <4>1
    <3>3. QED
      BY <3>1, <3>2
  <2>8. QED
    BY <2>4, <2>5, <2>6, <2>7 DEF MutexOwnership
<1>5. CASE wait_q[m] = <<>>
  <2>1. /\ owner' = [owner EXCEPT ![m] = NULL] /\ held_mutexes' = held
        /\ count' = [count EXCEPT ![m] = @ + 1] /\ UNCHANGED wait_q
    BY <1>5 DEF HandOver
  <2>2. NoLostWakeup'
    BY <1>1, <1>5, <2>1 DEF NoLostWakeup
  <2>3. \A x \in Mutex : count'[x] = IF owner'[x] = NULL THEN 1 ELSE 0
    BY <1>1, <1>2, <1>3, <2>1
  <2>4. ASSUME NEW x \in Mutex, NEW t \in Task
        PROVE  x \in ToSet(held_mutexes'[t]) <=> owner'[x] = t
    BY <1>1, <1>3, <2>1
  <2>5. QED
    BY <2>1, <2>2, <2>3, <2>4 DEF MutexOwnership
<1>6. QED
  BY <1>4, <1>5

\* An unlock passes its mutex on.
LEMMA UnlockSafe ==
    ASSUME IInv, NEW c \in Task, NEW m \in Mutex, v_mutex_unlock(c, m)
    PROVE  NoLostWakeup' /\ MutexOwnership'
<1> DEFINE held == [held_mutexes EXCEPT ![c] = Unlink(@, m)]
<1>1. owner[m] = c /\ c # NULL /\ HandOver(m, held)
  BY Constants DEF v_mutex_unlock, mutex_unlock_common
<1>2. held_mutexes \in [Task -> Seq(Mutex)] /\ MutexOwnership
  BY DEF IInv, TypeOK, ObjTypeOK
<1>3. /\ Unlink(held_mutexes[c], m) \in Seq(Mutex)
      /\ NoDup(Unlink(held_mutexes[c], m))
      /\ ToSet(Unlink(held_mutexes[c], m)) = ToSet(held_mutexes[c]) \ {m}
  <2>1. held_mutexes[c] \in Seq(Mutex) /\ NoDup(held_mutexes[c])
    BY <1>2 DEF MutexOwnership
  <2>2. QED
    BY <2>1, UnlinkType, UnlinkRange
<1>4. held \in [Task -> Seq(Mutex)]
  BY <1>2, <1>3
<1>5. \A t \in Task : NoDup(held[t])
  BY <1>2, <1>3 DEF MutexOwnership
<1>6. \A t \in Task : ToSet(held[t]) = ToSet(held_mutexes[t]) \ {m}
  <2>1. \A t \in Task : t # c => m \notin ToSet(held_mutexes[t])
    BY <1>1, <1>2 DEF MutexOwnership
  <2>2. QED
    BY <1>2, <1>3, <2>1
<1> HIDE DEF held
<1>7. QED
  BY <1>1, <1>4, <1>5, <1>6, HandOverSafe

\* A teardown passes the mutexes of the dying task on, one at a time.
LEMMA TeardownMutexSafe ==
    ASSUME IInv, TeardownMutex
    PROVE  NoLostWakeup' /\ MutexOwnership'
<1> DEFINE c == handler.task
           q == held_mutexes[c]
           m == Head(q)
           held == [held_mutexes EXCEPT ![c] = Tail(@)]
<1>1. c \in Task
  BY TeardownTask DEF TeardownMutex, IInv
<1>2. held_mutexes \in [Task -> Seq(Mutex)] /\ MutexOwnership
  BY DEF IInv, TypeOK, ObjTypeOK
<1>3. q # <<>> /\ HandOver(m, held)
  BY DEF TeardownMutex
<1>4. q \in Seq(Mutex) /\ NoDup(q)
  <2>1. \A x \in Mutex : NoDup(held_mutexes[c])
    BY <1>1, <1>2 DEF MutexOwnership
  <2>2. q \in Seq(Mutex)
    BY <1>1, <1>2
  <2>3. m \in Mutex
    BY <1>3, <2>2, TailRange
  <2>4. QED
    BY <2>1, <2>2, <2>3
<1>5. /\ m \in Mutex /\ m \in ToSet(q) /\ Tail(q) \in Seq(Mutex)
      /\ NoDup(Tail(q)) /\ ToSet(Tail(q)) = ToSet(q) \ {m}
  BY <1>3, <1>4, TailRange
<1>6. owner[m] = c /\ owner[m] # NULL
  BY <1>1, <1>2, <1>5, Constants DEF MutexOwnership
<1>7. held \in [Task -> Seq(Mutex)]
  BY <1>2, <1>5
<1>8. \A t \in Task : NoDup(held[t])
  BY <1>2, <1>5 DEF MutexOwnership
<1>9. \A t \in Task : ToSet(held[t]) = ToSet(held_mutexes[t]) \ {m}
  <2>1. \A t \in Task : t # c => m \notin ToSet(held_mutexes[t])
    BY <1>1, <1>2, <1>5, <1>6 DEF MutexOwnership
  <2>2. QED
    BY <1>2, <1>5, <2>1
<1> HIDE DEF held, m, q, c
<1>10. QED
  BY <1>3, <1>5, <1>6, <1>7, <1>8, <1>9, HandOverSafe

\* A lock owns the mutex only when the base semaphore says it is free.
LEMMA LockTakeSafe ==
    ASSUME IInv, LockTake
    PROVE  NoLostWakeup' /\ MutexOwnership'
<1> DEFINE c == handler.task
           m == call[c].obj
<1>1. /\ count \in [Obj -> Nat] /\ wait_q \in [Obj -> Seq(Task)]
      /\ owner \in [Mutex -> Task \cup {NULL}]
      /\ held_mutexes \in [Task -> Seq(Mutex)]
      /\ NoLostWakeup /\ MutexOwnership /\ NULL \notin Task
  BY Constants DEF IInv, TypeOK, ObjTypeOK
<1>2. c \in Task /\ m \in Mutex
  BY InheritFacts DEF LockTake, IInv
<1>3. CASE /\ count[m] > 0 /\ count' = [count EXCEPT ![m] = @ - 1] /\ UNCHANGED wait_q
           /\ IF owner[m] # c THEN Own(m, c, held_mutexes) ELSE UNCHANGED mutexVars
  <2>1. owner[m] = NULL /\ count[m] = 1 /\ owner[m] # c
    BY <1>1, <1>2, <1>3 DEF MutexOwnership
  <2>2. /\ owner' = [owner EXCEPT ![m] = c]
        /\ held_mutexes' = [held_mutexes EXCEPT ![c] = <<m>> \o @]
    BY <1>3, <2>1 DEF Own
  <2>3. \A t \in Task : m \notin ToSet(held_mutexes[t]) /\ NoDup(held_mutexes[t])
    BY <1>1, <1>2, <2>1 DEF MutexOwnership
  <2>4. /\ ToSet(<<m>> \o held_mutexes[c]) = ToSet(held_mutexes[c]) \cup {m}
        /\ NoDup(<<m>> \o held_mutexes[c])
    <3>1. held_mutexes[c] \in Seq(Mutex)
      BY <1>1, <1>2
    <3>2. QED
      BY <1>2, <2>3, <3>1, PushRange
  <2>5. NoLostWakeup'
    BY <1>1, <1>3 DEF NoLostWakeup
  <2>6. \A x \in Mutex : count'[x] = IF owner'[x] = NULL THEN 1 ELSE 0
    BY <1>1, <1>2, <1>3, <2>1, <2>2 DEF MutexOwnership
  <2>7. \A t \in Task : NoDup(held_mutexes'[t])
    BY <1>1, <2>2, <2>3, <2>4
  <2>8. ASSUME NEW x \in Mutex, NEW t \in Task
        PROVE  x \in ToSet(held_mutexes'[t]) <=> owner'[x] = t
    <3>1. x \in ToSet(held_mutexes[t]) <=> owner[x] = t
      BY <1>1 DEF MutexOwnership
    <3>2. CASE t = c
      <4>1. ToSet(held_mutexes'[t]) = ToSet(held_mutexes[t]) \cup {m}
        BY <1>1, <1>2, <2>2, <2>4, <3>2
      <4>2. QED
        BY <1>1, <1>2, <2>1, <2>2, <3>1, <3>2, <4>1
    <3>3. CASE t # c
      <4>1. held_mutexes'[t] = held_mutexes[t]
        BY <1>1, <2>2, <3>3
      <4>2. QED
        BY <1>1, <2>2, <2>3, <3>1, <3>3, <4>1
    <3>4. QED
      BY <3>2, <3>3
  <2>9. QED
    BY <2>5, <2>6, <2>7, <2>8 DEF MutexOwnership
<1>4. CASE UNCHANGED <<semVars, mutexVars>>
  BY <1>1, <1>4, Frame
<1>5. CASE /\ count[m] = 0 /\ BlockOn(c, m, handler.ticks, "lock")
           /\ UNCHANGED <<count, mutexVars>>
  <2>1. \A x \in Obj : x # m => wait_q'[x] = wait_q[x]
    BY <1>1, <1>5 DEF BlockOn
  <2>2. NoLostWakeup'
    BY <1>1, <1>5, <2>1 DEF NoLostWakeup
  <2>3. MutexOwnership'
    BY <1>1, <1>5 DEF MutexOwnership
  <2>4. QED
    BY <2>2, <2>3
<1>6. QED
  BY <1>3, <1>4, <1>5 DEF LockTake

\* A timeout and a kill only take a task off a wait queue.
LEMMA LeaveSafe ==
    ASSUME IInv, Eject \/ TeardownDone
    PROVE  NoLostWakeup' /\ MutexOwnership'
<1>1. wait_q \in [Obj -> Seq(Task)] /\ wait_sem \in [Task -> Obj \cup {NULL}]
  BY DEF IInv, TypeOK, ObjTypeOK
<1>2. UNCHANGED <<count, owner, held_mutexes>>
  BY DEF Eject, TeardownDone
<1>3. \E t, s : wait_q' = wait_q \/ wait_q' = [wait_q EXCEPT ![s] = Unlink(@, t)]
  BY DEF Eject, EjectWaiter, EjectMultiwaiter, TeardownDone, LeaveWaitQueue
<1>4. ASSUME NEW s \in Obj, wait_q'[s] # <<>> PROVE wait_q[s] # <<>>
  <2>1. \A t : Unlink(wait_q[s], t) # <<>> => wait_q[s] # <<>>
    BY <1>1, UnlinkType
  <2>2. QED
    BY <1>1, <1>3, <1>4, <2>1
<1>5. QED
  BY <1>2, <1>4, Frame DEF IInv

\* The steps that touch no count, owner, held list or wait queue.
LEMMA OtherSafe ==
    ASSUME IInv, UNCHANGED <<count, owner, held_mutexes, wait_q>>
    PROVE  NoLostWakeup' /\ MutexOwnership'
BY Frame DEF IInv

\* Every step keeps the inductive invariant.
LEMMA StepSafe == IInv /\ [Next]_vars => IInv'
<1> SUFFICES ASSUME IInv, [Next]_vars PROVE NoLostWakeup' /\ MutexOwnership'
  BY StepType DEF IInv
<1>1. ASSUME NEW c \in Task, Syscall(c) PROVE NoLostWakeup' /\ MutexOwnership'
  <2>1. ASSUME NEW s \in Sem, NEW n \in TakeTicks, v_semaphore_take(c, s, n)
        PROVE  NoLostWakeup' /\ MutexOwnership'
    BY <2>1, TakeSafe
  <2>2. ASSUME NEW s \in Sem, v_semaphore_give(c, s) PROVE NoLostWakeup' /\ MutexOwnership'
    BY <2>2, GiveSafe
  <2>3. ASSUME NEW m \in Mutex, v_mutex_unlock(c, m) PROVE NoLostWakeup' /\ MutexOwnership'
    BY <2>3, UnlockSafe
  <2>4. ASSUME \/ \E m \in Mutex, n \in TakeTicks : v_mutex_lock(c, m, n)
               \/ \E m \in Mutex : RecursiveRelock(c, m) \/ v_mutex_unlock_recursive(c, m)
               \/ v_wait_disarm_impl(c) \/ \E n \in DelayTicks : task_delay(c, n)
               \/ \E fds \in FdLists, n \in WaitTicks : v_wait_block_impl(c, fds, n)
               \/ task_yield(c) \/ v_task_exit_impl(c)
               \/ \E t \in Task : task_exit_request(c, t)
        PROVE  NoLostWakeup' /\ MutexOwnership'
    <3>1. UNCHANGED <<count, owner, held_mutexes, wait_q>>
      BY <2>4 DEF v_mutex_lock, RecursiveRelock, v_mutex_unlock_recursive, v_wait_disarm_impl,
                  task_delay, v_wait_block_impl, task_yield, v_task_exit_impl,
                  task_exit_request
    <3>2. QED
      BY <3>1, OtherSafe
  <2>5. QED
    BY <1>1, <2>1, <2>2, <2>3, <2>4 DEF Syscall
<1>2. CASE v_kernel_tick
  BY <1>2, OtherSafe DEF v_kernel_tick
<1>3. ASSUME NEW s \in Sem, v_semaphore_give_from_isr(s)
      PROVE  NoLostWakeup' /\ MutexOwnership'
  BY <1>3, GiveSafe
<1>4. CASE HandlerStep
  <2>1. CASE InheritHop \/ WakeObserver \/ ObserversDone \/ WakeSleeper \/ SleepersDone
             \/ TickDone
    <3>1. UNCHANGED <<count, owner, held_mutexes, wait_q>>
      BY <2>1 DEF InheritHop, WakeObserver, ObserversDone, WakeSleeper, SleepersDone, TickDone
    <3>2. QED
      BY <3>1, OtherSafe
  <2>2. QED
    BY <1>4, <2>1, LockTakeSafe, LeaveSafe, TeardownMutexSafe DEF HandlerStep
<1>5. CASE PendSV \/ idle_task_function
  BY <1>5, OtherSafe DEF PendSV, idle_task_function
<1>6. CASE UNCHANGED vars
  BY <1>6, OtherSafe DEF vars
<1>7. current_task \in Task
  BY DEF IInv, TypeOK, TaskTypeOK
<1>8. QED
  BY <1>1, <1>2, <1>3, <1>4, <1>5, <1>6, <1>7 DEF Next, Interrupt

\* The inductive invariant holds of every reachable state.
THEOREM Inductive == Spec => []IInv
<1>1. QED
  BY InitSafe, StepSafe, PTL DEF Spec

\* No lost wakeup, for any number of tasks and objects: whatever interleaving of
\* gives, interrupts, timeouts, hand-overs and kills, a semaphore or mutex with
\* a waiter has count 0, so no slot lies unused beside a parked task.
THEOREM WakeupSafe == Spec => []NoLostWakeup
<1>1. IInv => NoLostWakeup
  BY DEF IInv
<1>2. QED
  BY <1>1, Inductive, PTL

\* Mutual exclusion, for any number of tasks and mutexes: the base count and the
\* owner agree, and a mutex is on its owner's held list and on no other, through
\* lock, hand-over, timeout and the teardown of a dying owner.
THEOREM MutexSafe == Spec => []MutexOwnership
<1>1. IInv => MutexOwnership
  BY DEF IInv
<1>2. QED
  BY <1>1, Inductive, PTL
------------------------------------------------------------------------------
(***************************************************************************)
(* The scheduler's lists, the wait queues and the status fields tell one   *)
(* story, for any number of tasks, semaphores and mutexes, in a system     *)
(* whose tasks do not lock what they hold and do not call v_wait, or call  *)
(* it where nobody is killed or times out on a semaphore: kernel_undead    *)
(* and kernel_stale show what else can happen.                             *)
(***************************************************************************)

HIDE DEF Priority, Obj
USE DEF taskVars, listVars, waitVars, semVars, mutexVars, mwaitVars

\* The task whose teardown is under way, or NULL.
Dying == IF handler.at = "teardown" THEN handler.task ELSE NULL

Dead == {"TERMINATED", "FREED"}

\* The list q links, once each, the tasks of S.
Listed(q, S) == NoDup(q) /\ \A t \in Task : t \in ToSet(q) <=> t \in S

\* Who belongs on a list, by the status field st; x is on none.
ReadyAt(st, pr, x, p) == {t \in Task : st[t] = "READY" /\ pr[t] = p /\ t # x}
Parked(st, x) == {t \in Task : st[t] \in {"BLOCKED", "TERMINATED"} /\ t # x}
Sleeping(st, x) == {t \in Task : st[t] = "DELAYED" /\ t # x}
Waiting(st, ws, s) == {t \in Task : st[t] = "BLOCKED" /\ ws[t] = s}

ReadyOk(st, pr, lists, x) == \A p \in Priority : Listed(lists[p], ReadyAt(st, pr, x, p))
QueuesOk(st, ws, wq) == \A s \in Obj : Listed(wq[s], Waiting(st, ws, s))

\* The tasks of T are ready, or not, as before, at the same priority, and they wait for
\* what they waited for.
ReadyAsBefore(st, pr, x, st2, pr2, x2, T) ==
    \A t \in T : /\ st2[t] = "READY" /\ t # x2 <=> st[t] = "READY" /\ t # x
                 /\ st[t] = "READY" => pr2[t] = pr[t]
WaitAsBefore(st, ws, st2, ws2, T) ==
    \A t \in T : /\ st2[t] = "BLOCKED" <=> st[t] = "BLOCKED"
                 /\ st[t] = "BLOCKED" => ws2[t] = ws[t]

Scheduler ==
    /\ ReadyOk(status, priority, ready_lists, Dying)
    /\ Listed(blocked_list, Parked(status, Dying))
    /\ Listed(delayed_list, Sleeping(status, Dying))

Queues == QueuesOk(status, wait_sem, wait_q)

NoMultiwait ==
    (\A t \in Task : ~in_multiwait[t]) /\ (\A s \in Sem : observers[s] = <<>>)

\* Who runs: until a switch is pending, the current task, unless it is the idle task
\* main() started in; the idle task makes no calls.
RunInv ==
    /\ \A t \in Task : status[t] = "RUNNING" => t = current_task
    /\ ~pendsv /\ current_task # Idle => status[current_task] = "RUNNING"
    /\ status[Idle] \in {"READY", "RUNNING"} /\ call[Idle] = NoCall

\* Whose handler runs: a lock is the running task's, for a mutex it does not own; a
\* teardown is of a task that is not yet dead.
HandlerInv ==
    /\ handler.at = "inherit" =>
         /\ ~pendsv /\ handler.task = current_task /\ current_task # Idle
         /\ owner[call[handler.task].obj] # handler.task
    /\ handler.at = "teardown" =>
         handler.task # Idle /\ status[handler.task] \notin Dead

\* The dead wait for nothing and hold nothing.
DeadInv ==
    \A t \in Task : status[t] \in Dead => wait_sem[t] = NULL /\ held_mutexes[t] = <<>>

\* Nobody waits for a mutex he owns.
WaiterInv ==
    \A m \in Mutex, t \in Task : status[t] = "BLOCKED" /\ wait_sem[t] = m => owner[m] # t

\* The end of a task is final: what DeadStaysDead says of one step.
StayDead ==
    \A t \in Task :
      /\ status[t] = "TERMINATED" => status'[t] \in {"TERMINATED", "FREED"}
      /\ status[t] = "FREED" => status'[t] = "FREED"

LInv == Scheduler /\ Queues /\ RunInv /\ HandlerInv /\ DeadInv /\ WaiterInv
------------------------------------------------------------------------------
(* What an operation on a list does to the tasks it links *)

\* A task that was not on the list is linked at its end.
LEMMA ListAppend ==
    ASSUME NEW q \in Seq(Task), NEW S, Listed(q, S), NEW t \in Task, t \notin S
    PROVE  Listed(Append(q, t), S \cup {t})
<1>1. t \notin ToSet(q) /\ NoDup(q)
  BY DEF Listed
<1>2. NoDup(Append(q, t)) /\ ToSet(Append(q, t)) = ToSet(q) \cup {t}
  BY <1>1, AppendRange
<1>3. QED
  BY <1>2 DEF Listed

\* A task is unlinked, if it was linked.
LEMMA ListUnlink ==
    ASSUME NEW q \in Seq(Task), NEW S, Listed(q, S), NEW t
    PROVE  Listed(Unlink(q, t), S \ {t})
<1>1. NoDup(q)
  BY DEF Listed
<1>2. NoDup(Unlink(q, t)) /\ ToSet(Unlink(q, t)) = ToSet(q) \ {t}
  BY <1>1, UnlinkRange
<1>3. QED
  BY <1>2 DEF Listed

\* The head leaves.
LEMMA ListTail ==
    ASSUME NEW q \in Seq(Task), NEW S, Listed(q, S), q # <<>>
    PROVE  /\ Head(q) \in Task /\ Head(q) \in S
           /\ Listed(Tail(q), S \ {Head(q)})
<1>1. NoDup(q)
  BY DEF Listed
<1>2. /\ Head(q) \in Task /\ Head(q) \in ToSet(q)
      /\ NoDup(Tail(q)) /\ ToSet(Tail(q)) = ToSet(q) \ {Head(q)}
  BY <1>1, TailRange
<1>3. QED
  BY <1>2 DEF Listed

\* A task that was not on the list is linked after the longest prefix in T.
LEMMA ListInsert ==
    ASSUME NEW q \in Seq(Task), NEW S, Listed(q, S), NEW t \in Task, t \notin S, NEW T
    PROVE  Listed(InsertAt(q, 1 + PrefixLen(q, T), t), S \cup {t})
<1> DEFINE i == 1 + PrefixLen(q, T)
<1>1. t \notin ToSet(q) /\ NoDup(q)
  BY DEF Listed
<1>2. i \in 1..(Len(q) + 1)
  BY PrefixLenBound
<1> HIDE DEF i
<1>3. NoDup(InsertAt(q, i, t)) /\ ToSet(InsertAt(q, i, t)) = ToSet(q) \cup {t}
  BY <1>1, <1>2, InsertAtRange
<1>4. Listed(InsertAt(q, i, t), S \cup {t})
  BY <1>3 DEF Listed
<1>5. QED
  BY <1>4 DEF i

\* The task at a position is unlinked.
LEMMA ListRemoveAt ==
    ASSUME NEW q \in Seq(Task), NEW S, Listed(q, S), NEW i \in DOMAIN q
    PROVE  q[i] \in Task /\ q[i] \in S /\ Listed(RemoveAt(q, i), S \ {q[i]})
<1>1. q[i] \in Task /\ q[i] \in ToSet(q) /\ q[i] \in S
  BY LenProperties DEF Listed, ToSet
<1>2. (CHOOSE j \in DOMAIN q : q[j] = q[i]) = i
  BY DEF Listed, NoDup
<1>3. Unlink(q, q[i]) = RemoveAt(q, i)
  BY <1>1, <1>2 DEF Unlink
<1>4. QED
  BY <1>1, <1>3, ListUnlink

\* The ready lists when nobody becomes ready or stops being it, and the priorities of
\* the ready stay.
LEMMA ReadySame ==
    ASSUME NEW lists, NEW st, NEW pr, NEW x, ReadyOk(st, pr, lists, x),
           NEW st2, NEW pr2, NEW x2,
           ReadyAsBefore(st, pr, x, st2, pr2, x2, Task)
    PROVE  ReadyOk(st2, pr2, lists, x2)
<1> SUFFICES ASSUME NEW p \in Priority PROVE Listed(lists[p], ReadyAt(st2, pr2, x2, p))
  BY DEF ReadyOk
<1>1. ReadyAt(st2, pr2, x2, p) = ReadyAt(st, pr, x, p)
  BY DEF ReadyAt, ReadyAsBefore
<1>2. QED
  BY <1>1 DEF ReadyOk

\* Task t becomes ready.
LEMMA ReadyJoin ==
    ASSUME NEW lists \in [Priority -> Seq(Task)], NEW st, NEW pr, NEW x,
           ReadyOk(st, pr, lists, x), NEW st2, NEW pr2, NEW x2,
           NEW t \in Task, NEW p \in Priority, pr2[t] = p,
           ~(st[t] = "READY" /\ t # x), st2[t] = "READY", t # x2,
           ReadyAsBefore(st, pr, x, st2, pr2, x2, Task \ {t})
    PROVE  ReadyOk(st2, pr2, rl_append(lists, t, p), x2)
<1> SUFFICES ASSUME NEW r \in Priority
             PROVE  Listed(rl_append(lists, t, p)[r], ReadyAt(st2, pr2, x2, r))
  BY DEF ReadyOk
<1>0. lists[r] \in Seq(Task) /\ Listed(lists[r], ReadyAt(st, pr, x, r))
  BY DEF ReadyOk
<1>1. CASE r = p
  <2>1. rl_append(lists, t, p)[r] = Append(lists[r], t)
    BY <1>1 DEF rl_append
  <2>2. t \notin ReadyAt(st, pr, x, r)
    BY DEF ReadyAt, ReadyAsBefore
  <2>3. ReadyAt(st2, pr2, x2, r) = ReadyAt(st, pr, x, r) \cup {t}
    BY <1>1 DEF ReadyAt, ReadyAsBefore
  <2>4. QED
    BY <1>0, <2>1, <2>2, <2>3, ListAppend
<1>2. CASE r # p
  <2>1. rl_append(lists, t, p)[r] = lists[r]
    BY <1>2 DEF rl_append
  <2>2. ReadyAt(st2, pr2, x2, r) = ReadyAt(st, pr, x, r)
    BY <1>2 DEF ReadyAt, ReadyAsBefore
  <2>3. QED
    BY <1>0, <2>1, <2>2
<1>3. QED
  BY <1>1, <1>2

\* Task t is taken off its ready list.
LEMMA ReadyLeave ==
    ASSUME NEW lists \in [Priority -> Seq(Task)], NEW st, NEW pr, NEW x,
           ReadyOk(st, pr, lists, x), NEW st2, NEW x2,
           NEW t \in Task, pr[t] \in Priority, st[t] = "READY", t # x,
           ~(st2[t] = "READY" /\ t # x2),
           ReadyAsBefore(st, pr, x, st2, pr, x2, Task \ {t})
    PROVE  ReadyOk(st2, pr, rl_remove(lists, t, pr[t]), x2)
<1> SUFFICES ASSUME NEW r \in Priority
             PROVE  Listed(rl_remove(lists, t, pr[t])[r], ReadyAt(st2, pr, x2, r))
  BY DEF ReadyOk
<1>0. lists[r] \in Seq(Task) /\ Listed(lists[r], ReadyAt(st, pr, x, r))
  BY DEF ReadyOk
<1>1. CASE r = pr[t]
  <2>1. rl_remove(lists, t, pr[t])[r] = Unlink(lists[r], t)
    BY <1>1 DEF rl_remove
  <2>2. ReadyAt(st2, pr, x2, r) = ReadyAt(st, pr, x, r) \ {t}
    BY <1>1 DEF ReadyAt, ReadyAsBefore
  <2>3. QED
    BY <1>0, <2>1, <2>2, ListUnlink
<1>2. CASE r # pr[t]
  <2>1. rl_remove(lists, t, pr[t])[r] = lists[r]
    BY <1>2 DEF rl_remove
  <2>2. ReadyAt(st2, pr, x2, r) = ReadyAt(st, pr, x, r)
    BY <1>2 DEF ReadyAt, ReadyAsBefore
  <2>3. QED
    BY <1>0, <2>1, <2>2
<1>3. QED
  BY <1>1, <1>2

\* The wait queues when nobody joins or leaves one.
LEMMA QueuesSame ==
    ASSUME NEW st, NEW ws, NEW wq, QueuesOk(st, ws, wq), NEW st2, NEW ws2,
           WaitAsBefore(st, ws, st2, ws2, Task)
    PROVE  QueuesOk(st2, ws2, wq)
<1> SUFFICES ASSUME NEW s \in Obj PROVE Listed(wq[s], Waiting(st2, ws2, s))
  BY DEF QueuesOk
<1>1. Waiting(st2, ws2, s) = Waiting(st, ws, s)
  BY DEF Waiting, WaitAsBefore
<1>2. QED
  BY <1>1 DEF QueuesOk

\* Task t joins the queue of s.
LEMMA QueuesJoin ==
    ASSUME NEW wq \in [Obj -> Seq(Task)], NEW st \in [Task -> Status], NEW ws,
           ws \in [Task -> Obj \cup {NULL}], QueuesOk(st, ws, wq),
           NEW t \in Task, NEW s \in Obj, st[t] # "BLOCKED"
    PROVE  QueuesOk([st EXCEPT ![t] = "BLOCKED"], [ws EXCEPT ![t] = s],
                    [wq EXCEPT ![s] = wait_q_enqueue(@, t)])
<1> DEFINE st2 == [st EXCEPT ![t] = "BLOCKED"]
           ws2 == [ws EXCEPT ![t] = s]
           wq2 == [wq EXCEPT ![s] = wait_q_enqueue(@, t)]
<1> SUFFICES ASSUME NEW r \in Obj PROVE Listed(wq2[r], Waiting(st2, ws2, r))
  BY DEF QueuesOk
<1>0. wq[r] \in Seq(Task) /\ Listed(wq[r], Waiting(st, ws, r)) /\ t \notin Waiting(st, ws, r)
  BY DEF QueuesOk, Waiting
<1>1. CASE r = s
  <2>1. wq2[r] = wait_q_enqueue(wq[r], t)
    BY <1>1
  <2>2. Waiting(st2, ws2, r) = Waiting(st, ws, r) \cup {t}
    BY <1>1 DEF Waiting, WaitAsBefore
  <2> HIDE DEF wq2, st2, ws2
  <2>3. Listed(wait_q_enqueue(wq[r], t), Waiting(st, ws, r) \cup {t})
    BY <1>0, ListInsert DEF wait_q_enqueue
  <2>4. QED
    BY <2>1, <2>2, <2>3
<1>2. CASE r # s
  <2>1. wq2[r] = wq[r]
    BY <1>2
  <2>2. Waiting(st2, ws2, r) = Waiting(st, ws, r)
    BY <1>2 DEF Waiting, WaitAsBefore
  <2>3. QED
    BY <1>0, <2>1, <2>2
<1>3. QED
  BY <1>1, <1>2

\* Task t, blocked on s, leaves its queue by q and is blocked no more.
LEMMA QueuesLeave ==
    ASSUME NEW wq \in [Obj -> Seq(Task)], NEW st, NEW ws, QueuesOk(st, ws, wq),
           NEW t \in Task, NEW s \in Obj, st[t] = "BLOCKED", ws[t] = s,
           NEW q, Listed(q, Waiting(st, ws, s) \ {t}), NEW st2, NEW ws2, st2[t] # "BLOCKED",
           WaitAsBefore(st, ws, st2, ws2, Task \ {t})
    PROVE  QueuesOk(st2, ws2, [wq EXCEPT ![s] = q])
<1> SUFFICES ASSUME NEW r \in Obj
             PROVE  Listed([wq EXCEPT ![s] = q][r], Waiting(st2, ws2, r))
  BY DEF QueuesOk
<1>1. CASE r = s
  <2>1. Waiting(st2, ws2, r) = Waiting(st, ws, s) \ {t}
    BY <1>1 DEF Waiting, WaitAsBefore
  <2>2. QED
    BY <1>1, <2>1
<1>2. CASE r # s
  <2>1. Waiting(st2, ws2, r) = Waiting(st, ws, r)
    BY <1>2 DEF Waiting, WaitAsBefore
  <2>2. QED
    BY <1>2, <2>1 DEF QueuesOk
<1>3. QED
  BY <1>1, <1>2

\* The wait queues without task t.
Dropped(wq, ws, t) == [r \in Obj |-> IF ws[t] = r THEN Unlink(wq[r], t) ELSE wq[r]]

\* Task t, which is blocked no more, is unlinked from the queue its wait_sem names,
\* whether it is still on it or not.
LEMMA QueuesDrop ==
    ASSUME NEW wq \in [Obj -> Seq(Task)], NEW st, NEW ws, QueuesOk(st, ws, wq),
           NEW t \in Task, NEW st2, NEW ws2, st2[t] # "BLOCKED",
           WaitAsBefore(st, ws, st2, ws2, Task \ {t})
    PROVE  QueuesOk(st2, ws2, Dropped(wq, ws, t))
<1> DEFINE wq2 == Dropped(wq, ws, t)
<1>0. \A r \in Obj : wq2[r] = IF ws[t] = r THEN Unlink(wq[r], t) ELSE wq[r]
  BY DEF Dropped
<1> HIDE DEF wq2
<1> SUFFICES ASSUME NEW r \in Obj PROVE Listed(wq2[r], Waiting(st2, ws2, r))
  BY DEF QueuesOk, wq2
<1>1. wq[r] \in Seq(Task) /\ Listed(wq[r], Waiting(st, ws, r))
  BY DEF QueuesOk
<1>2. Waiting(st2, ws2, r) = Waiting(st, ws, r) \ {t}
  BY DEF Waiting, WaitAsBefore
<1>3. CASE ws[t] = r
  <2>1. Listed(Unlink(wq[r], t), Waiting(st, ws, r) \ {t})
    BY <1>1, ListUnlink
  <2>2. QED
    BY <1>0, <1>2, <1>3, <2>1 DEF Listed
<1>4. CASE ws[t] # r
  <2>1. t \notin Waiting(st, ws, r) /\ wq2[r] = wq[r]
    BY <1>0, <1>4 DEF Waiting
  <2>2. QED
    BY <1>1, <1>2, <2>1 DEF Listed
<1>5. QED
  BY <1>3, <1>4

\* The ready lists without the head of one.
Popped(lists, p) == [lists EXCEPT ![p] = Tail(@)]

\* The head of a ready list leaves it to run.
LEMMA ReadyPop ==
    ASSUME NEW lists \in [Priority -> Seq(Task)], NEW st, NEW pr, NEW x,
           ReadyOk(st, pr, lists, x), NEW p \in Priority, lists[p] # <<>>,
           NEW t, t = Head(lists[p]), NEW st2, st2[t] # "READY",
           ReadyAsBefore(st, pr, x, st2, pr, x, Task \ {t})
    PROVE  /\ t \in Task /\ st[t] = "READY" /\ pr[t] = p
           /\ ReadyOk(st2, pr, Popped(lists, p), x)
<1>1. /\ t \in Task /\ t \in ReadyAt(st, pr, x, p)
      /\ Listed(Tail(lists[p]), ReadyAt(st, pr, x, p) \ {t})
  <2>1. lists[p] \in Seq(Task) /\ Listed(lists[p], ReadyAt(st, pr, x, p))
    BY DEF ReadyOk
  <2>2. QED
    BY <2>1, ListTail
<1>2. st[t] = "READY" /\ pr[t] = p
  BY <1>1 DEF ReadyAt
<1>3. ASSUME NEW r \in Priority
      PROVE  Listed(Popped(lists, p)[r], ReadyAt(st2, pr, x, r))
  <2>1. CASE r = p
    <3>1. Popped(lists, p)[r] = Tail(lists[p])
      BY <2>1 DEF Popped
    <3>2. ReadyAt(st2, pr, x, r) = ReadyAt(st, pr, x, p) \ {t}
      BY <1>2, <2>1 DEF ReadyAt, ReadyAsBefore
    <3>3. QED
      BY <1>1, <3>1, <3>2 DEF Listed
  <2>2. CASE r # p
    <3>1. Popped(lists, p)[r] = lists[r]
      BY <2>2 DEF Popped
    <3>2. ReadyAt(st2, pr, x, r) = ReadyAt(st, pr, x, r)
      BY <1>2, <2>2 DEF ReadyAt, ReadyAsBefore
    <3>3. QED
      BY <3>1, <3>2 DEF ReadyOk
  <2>3. QED
    BY <2>1, <2>2
<1>4. QED
  BY <1>1, <1>2, <1>3 DEF ReadyOk
------------------------------------------------------------------------------
(* The steps *)

\* The types the steps use.
LEMMA Types ==
    ASSUME IInv
    PROVE  /\ status \in [Task -> Status] /\ priority \in [Task -> Priority]
           /\ ready_lists \in [Priority -> Seq(Task)] /\ current_task \in Task
           /\ blocked_list \in Seq(Task) /\ delayed_list \in Seq(Task)
           /\ wait_sem \in [Task -> Obj \cup {NULL}] /\ wait_q \in [Obj -> Seq(Task)]
           /\ owner \in [Mutex -> Task \cup {NULL}] /\ held_mutexes \in [Task -> Seq(Mutex)]
           /\ call \in [Task -> Call] /\ Idle \in Task /\ NULL \notin Task
           /\ Sem \subseteq Obj /\ Mutex \subseteq Obj /\ Sem \cap Mutex = {} /\ NULL \notin Obj
BY Constants, ObjAssumption DEF IInv, TypeOK, TaskTypeOK, ObjTypeOK, CallTypeOK, Obj

\* Outside a teardown nobody is left out of the lists.
LEMMA NobodyDying ==
    ASSUME handler.at # "teardown"
    PROVE  Dying = NULL
BY DEF Dying

\* In thread mode nobody is being torn down.
LEMMA User == UserMode.at = "user" /\ (handler = UserMode => Dying = NULL)
BY DEF UserMode, Dying

\* Back from the two handlers that name a task.
LEMMA NeitherAfter == handler'.at \notin {"inherit", "teardown"} => Dying' = NULL /\ HandlerInv'
BY DEF Dying, HandlerInv

\* Back in thread mode.
LEMMA UserAfter == handler' = UserMode => Dying' = NULL /\ HandlerInv'
BY NeitherAfter DEF UserMode

\* A step that moves nobody, though a free mutex may change hands and who is not ready
\* change priority.
LEMMA Quiet ==
    ASSUME LInv, UNCHANGED <<status, ready_lists, blocked_list, delayed_list>>,
           \A u \in Task : status[u] = "READY" => priority'[u] = priority[u],
           UNCHANGED <<current_task, wait_sem, wait_q>>,
           Dying' = Dying, pendsv' \/ ~pendsv, call'[Idle] = NoCall,
           HandlerInv', DeadInv', WaiterInv'
    PROVE  LInv' /\ StayDead
<1>1. ReadyOk(status, priority', ready_lists, Dying)
  <2>1. ReadyAsBefore(status, priority, Dying, status, priority', Dying, Task)
    BY DEF ReadyAsBefore
  <2>2. ReadyOk(status, priority, ready_lists, Dying)
    BY DEF LInv, Scheduler
  <2>3. QED
    BY <2>1, <2>2, ReadySame
<1>2. Scheduler' /\ Queues'
  BY <1>1 DEF LInv, Scheduler, Queues
<1>3. StayDead
  BY DEF StayDead
<1>4. RunInv'
  BY DEF LInv, RunInv
<1>5. QED
  BY <1>2, <1>3, <1>4 DEF LInv

\* A step that moves neither a task nor a mutex.
LEMMA Still ==
    ASSUME LInv, UNCHANGED <<status, priority, ready_lists, blocked_list, delayed_list>>,
           UNCHANGED <<current_task, wait_sem, wait_q>>,
           UNCHANGED <<owner, held_mutexes>>,
           Dying' = Dying, pendsv' \/ ~pendsv, call'[Idle] = NoCall, HandlerInv'
    PROVE  LInv' /\ StayDead
<1>1. DeadInv' /\ WaiterInv'
  BY DEF LInv, DeadInv, WaiterInv
<1>2. QED
  BY <1>1, Quiet

\* The task that makes a system call is running and on no list.
LEMMA Caller ==
    ASSUME IInv, LInv, NEW c \in Task, Executing(c)
    PROVE  /\ status[c] = "RUNNING" /\ c # Idle /\ c = current_task /\ ~pendsv
           /\ handler = UserMode /\ handler.at = "user" /\ Dying = NULL
BY User DEF Executing, LInv, RunInv

\* The running task is parked.
LEMMA ParkStep ==
    ASSUME IInv, LInv, NEW c \in Task, status[c] = "RUNNING", c # Idle, Dying = NULL,
           NEW n, NEW op, NEW obj, Park(c, n, op, obj),
           \A u \in Task \ {c} : wait_sem'[u] = wait_sem[u],
           UNCHANGED <<priority, ready_lists, delayed_list, current_task, held_mutexes>>,
           handler' = UserMode, Queues', WaiterInv'
    PROVE  LInv' /\ StayDead
<1>1. /\ status' = [status EXCEPT ![c] = "BLOCKED"]
      /\ blocked_list' = Append(blocked_list, c)
      /\ call' = [call EXCEPT ![c] = [op |-> op, obj |-> obj]] /\ pendsv' = TRUE
  BY DEF Park
<1>2. Dying' = NULL /\ HandlerInv'
  BY UserAfter
<1>3. status'[c] = "BLOCKED" /\ \A u \in Task \ {c} : status'[u] = status[u]
  BY <1>1, Types
<1>4. ReadyOk(status', priority', ready_lists', Dying')
  <2>1. ReadyAsBefore(status, priority, NULL, status', priority, NULL, Task)
    BY <1>3 DEF ReadyAsBefore
  <2>2. ReadyOk(status, priority, ready_lists, NULL)
    BY DEF LInv, Scheduler
  <2>3. ReadyOk(status', priority, ready_lists, NULL)
    BY <2>1, <2>2, ReadySame
  <2>4. QED
    BY <1>2, <2>3
<1>5. Listed(blocked_list', Parked(status', Dying'))
  <2>1. Parked(status', NULL) = Parked(status, NULL) \cup {c} /\ c \notin Parked(status, NULL)
    BY <1>3, Types DEF Parked
  <2>2. Listed(blocked_list, Parked(status, NULL)) /\ blocked_list \in Seq(Task)
    BY Types DEF LInv, Scheduler
  <2>3. Listed(Append(blocked_list, c), Parked(status, NULL) \cup {c})
    BY <2>1, <2>2, ListAppend
  <2>4. QED
    BY <1>1, <1>2, <2>1, <2>3 DEF Listed
<1>6. Listed(delayed_list', Sleeping(status', Dying'))
  <2>1. Sleeping(status', NULL) = Sleeping(status, NULL)
    BY <1>3 DEF Sleeping
  <2>2. QED
    BY <1>2, <2>1 DEF LInv, Scheduler
<1>7. DeadInv'
  BY <1>3 DEF LInv, DeadInv, Dead
<1>8. RunInv'
  BY <1>1, <1>3, Types DEF LInv, RunInv
<1>9. StayDead
  BY <1>3 DEF StayDead
<1>10. QED
  BY <1>2, <1>4, <1>5, <1>6, <1>7, <1>8, <1>9 DEF LInv, Scheduler

\* The running task blocks on s.
LEMMA BlockStep ==
    ASSUME IInv, LInv, NEW c \in Task, status[c] = "RUNNING", c # Idle, Dying = NULL,
           NEW s \in Obj, s \in Mutex => owner[s] # c, NEW n, NEW op, BlockOn(c, s, n, op),
           UNCHANGED <<priority, ready_lists, delayed_list, current_task, owner>>,
           UNCHANGED held_mutexes, handler' = UserMode
    PROVE  LInv' /\ StayDead
<1>1. /\ Park(c, n, op, s) /\ status' = [status EXCEPT ![c] = "BLOCKED"]
      /\ wait_sem' = [wait_sem EXCEPT ![c] = s]
      /\ wait_q' = [wait_q EXCEPT ![s] = wait_q_enqueue(@, c)]
  BY DEF BlockOn, Park
<1>2. /\ \A u \in Task \ {c} : status'[u] = status[u] /\ wait_sem'[u] = wait_sem[u]
      /\ status'[c] = "BLOCKED" /\ wait_sem'[c] = s
  BY <1>1, Types
<1>3. Queues'
  <2>1. status[c] # "BLOCKED" /\ QueuesOk(status, wait_sem, wait_q)
    BY DEF LInv, Queues
  <2>2. QueuesOk([status EXCEPT ![c] = "BLOCKED"], [wait_sem EXCEPT ![c] = s],
                 [wait_q EXCEPT ![s] = wait_q_enqueue(@, c)])
    BY <2>1, Types, QueuesJoin
  <2>3. QED
    BY <1>1, <2>2 DEF Queues
<1>4. WaiterInv'
  BY <1>2 DEF LInv, WaiterInv
<1>5. QED
  BY <1>1, <1>2, <1>3, <1>4, ParkStep

\* A blocked task w becomes ready.
LEMMA ReadyStep ==
    ASSUME IInv, LInv, NEW w \in Task, status[w] = "BLOCKED",
           w # Dying, status'[w] = "READY", \A u \in Task \ {w} : status'[u] = status[u],
           blocked_list' = Unlink(blocked_list, w),
           ready_lists' = rl_append(ready_lists, w, priority[w]),
           priority'[w] = priority[w],
           \A u \in Task : status[u] = "READY" => priority'[u] = priority[u],
           UNCHANGED <<delayed_list, current_task>>,
           Dying' = Dying, pendsv' \/ ~pendsv, call'[Idle] = NoCall,
           Queues', HandlerInv', DeadInv', WaiterInv'
    PROVE  LInv' /\ StayDead
<1>1. ReadyOk(status', priority', ready_lists', Dying')
  <2>1. ReadyAsBefore(status, priority, Dying, status', priority', Dying', Task \ {w})
    BY DEF ReadyAsBefore
  <2>2. /\ ready_lists \in [Priority -> Seq(Task)] /\ priority[w] \in Priority
        /\ ReadyOk(status, priority, ready_lists, Dying)
    BY Types DEF LInv, Scheduler
  <2>3. ~(status[w] = "READY" /\ w # Dying) /\ w # Dying' /\ priority'[w] = priority[w]
    OBVIOUS
  <2>4. ReadyOk(status', priority', rl_append(ready_lists, w, priority[w]), Dying')
    BY <2>1, <2>2, <2>3, ReadyJoin
  <2>5. QED
    BY <2>4
<1>2. Listed(blocked_list', Parked(status', Dying'))
  <2>1. Parked(status', Dying') = Parked(status, Dying) \ {w}
    BY DEF Parked
  <2>2. Listed(blocked_list, Parked(status, Dying)) /\ blocked_list \in Seq(Task)
    BY Types DEF LInv, Scheduler
  <2>3. Listed(Unlink(blocked_list, w), Parked(status, Dying) \ {w})
    BY <2>2, ListUnlink
  <2>4. QED
    BY <2>1, <2>3 DEF Listed
<1>3. Listed(delayed_list', Sleeping(status', Dying'))
  <2>1. Sleeping(status', Dying') = Sleeping(status, Dying)
    BY DEF Sleeping
  <2>2. QED
    BY <2>1 DEF LInv, Scheduler
<1>4. RunInv'
  <2>1. w # current_task \/ pendsv \/ current_task = Idle
    BY DEF LInv, RunInv
  <2>2. w # Idle
    BY DEF LInv, RunInv
  <2>3. QED
    BY <2>1, <2>2, Types DEF LInv, RunInv
<1>5. StayDead
  BY DEF StayDead
<1>6. QED
  BY <1>1, <1>2, <1>3, <1>4, <1>5 DEF LInv, Scheduler

\* A task w blocked on s leaves the queue and becomes ready.
LEMMA WakeStep ==
    ASSUME IInv, LInv, NEW w \in Task, NEW s \in Obj, status[w] = "BLOCKED", wait_sem[w] = s,
           w # Dying, status'[w] = "READY", \A u \in Task \ {w} : status'[u] = status[u],
           blocked_list' = Unlink(blocked_list, w),
           ready_lists' = rl_append(ready_lists, w, priority[w]),
           NEW q, Listed(q, Waiting(status, wait_sem, s) \ {w}),
           wait_q' = [wait_q EXCEPT ![s] = q],
           \A u \in Task \ {w} : wait_sem'[u] = wait_sem[u],
           priority'[w] = priority[w],
           \A u \in Task : status[u] = "READY" => priority'[u] = priority[u],
           UNCHANGED <<delayed_list, current_task>>,
           Dying' = Dying, pendsv' \/ ~pendsv, call'[Idle] = NoCall,
           HandlerInv', DeadInv', WaiterInv'
    PROVE  LInv' /\ StayDead
<1>1. Queues'
  <2>1. QueuesOk(status, wait_sem, wait_q) /\ wait_q \in [Obj -> Seq(Task)]
    BY Types DEF LInv, Queues
  <2>2. /\ status'[w] # "BLOCKED"
        /\ WaitAsBefore(status, wait_sem, status', wait_sem', Task \ {w})
    BY DEF WaitAsBefore
  <2>3. QueuesOk(status', wait_sem', [wait_q EXCEPT ![s] = q])
    BY <2>1, <2>2, QueuesLeave
  <2>4. QED
    BY <2>3 DEF Queues
<1>2. QED
  BY <1>1, ReadyStep

\* The head of a wait queue is blocked on it.
LEMMA FirstWaiter ==
    ASSUME IInv, LInv, NEW s \in Obj, wait_q[s] # <<>>
    PROVE  /\ Head(wait_q[s]) \in Task /\ status[Head(wait_q[s])] = "BLOCKED"
           /\ wait_sem[Head(wait_q[s])] = s
           /\ Listed(Tail(wait_q[s]), Waiting(status, wait_sem, s) \ {Head(wait_q[s])})
<1>1. wait_q[s] \in Seq(Task) /\ Listed(wait_q[s], Waiting(status, wait_sem, s))
  BY Types DEF LInv, Queues, QueuesOk
<1>2. /\ Head(wait_q[s]) \in Task /\ Head(wait_q[s]) \in Waiting(status, wait_sem, s)
      /\ Listed(Tail(wait_q[s]), Waiting(status, wait_sem, s) \ {Head(wait_q[s])})
  BY <1>1, ListTail
<1>3. QED
  BY <1>2 DEF Waiting

\* A take succeeds, fails at once or blocks the caller.
LEMMA TakeLists ==
    ASSUME IInv, LInv, NEW c \in Task, NEW s \in Sem, NEW n \in TakeTicks,
           v_semaphore_take(c, s, n)
    PROVE  LInv' /\ StayDead
<1>1. /\ status[c] = "RUNNING" /\ c # Idle /\ Dying = NULL /\ ~pendsv
      /\ handler' = UserMode /\ s \in Obj /\ s \notin Mutex
  BY Caller, Types DEF v_semaphore_take
<1>2. Dying' = NULL /\ HandlerInv'
  BY <1>1, UserAfter
<1>3. CASE UNCHANGED <<taskVars, blocked_list, wait_sem, wait_q, call, pendsv>>
  <2>1. call'[Idle] = NoCall
    BY <1>3 DEF LInv, RunInv
  <2>2. QED
    BY <1>1, <1>2, <1>3, <2>1, Still DEF v_semaphore_take
<1>4. CASE BlockOn(c, s, n, "take") /\ UNCHANGED priority
  BY <1>1, <1>4, BlockStep DEF v_semaphore_take
<1>5. QED
  BY <1>3, <1>4 DEF v_semaphore_take

\* A give, by a task or an interrupt: the first waiter moves, or nobody.
LEMMA GiveLists ==
    ASSUME IInv, LInv, NEW s \in Sem, handler = UserMode, semaphore_give_common(s),
           UNCHANGED <<priority, delayed_list, current_task, owner, held_mutexes>>,
           UNCHANGED call, pendsv' \/ ~pendsv
    PROVE  LInv' /\ StayDead
<1>1. Dying = NULL /\ call'[Idle] = NoCall /\ s \in Obj
  BY User, Types DEF LInv, RunInv
<1>2. CASE wait_q[s] # <<>>
  <2> DEFINE w == Head(wait_q[s])
             q == Tail(wait_q[s])
  <2>1. /\ wait_q' = [wait_q EXCEPT ![s] = q] /\ wait_sem' = [wait_sem EXCEPT ![w] = NULL]
        /\ MakeReady(w, VA_PASS) /\ handler' = UserMode
    BY <1>2 DEF semaphore_give_common
  <2>2. /\ w \in Task /\ status[w] = "BLOCKED" /\ wait_sem[w] = s
        /\ Listed(q, Waiting(status, wait_sem, s) \ {w})
    BY <1>1, <1>2, FirstWaiter
  <2> HIDE DEF w, q
  <2>3. /\ status'[w] = "READY" /\ blocked_list' = Unlink(blocked_list, w)
        /\ \A u \in Task \ {w} : status'[u] = status[u] /\ wait_sem'[u] = wait_sem[u]
        /\ ready_lists' = rl_append(ready_lists, w, priority[w])
    BY <2>1, <2>2, Types DEF MakeReady
  <2>4. Dying' = NULL /\ HandlerInv' /\ w # Dying
    BY <1>1, <2>1, <2>2, UserAfter, Types
  <2>5. DeadInv' /\ WaiterInv'
    BY <2>2, <2>3 DEF LInv, DeadInv, Dead, WaiterInv
  <2>6. QED
    BY <1>1, <2>1, <2>2, <2>3, <2>4, <2>5, WakeStep
<1>3. CASE wait_q[s] = <<>>
  <2>1. /\ UNCHANGED <<status, blocked_list, ready_lists, wait_sem, wait_q>>
        /\ handler' = UserMode \/ handler' = [UserMode EXCEPT !.at = "observers", !.obj = s]
    BY <1>3 DEF semaphore_give_common
  <2>2. Dying' = Dying /\ HandlerInv'
    <3>1. /\ UserMode.at = "user"
          /\ [UserMode EXCEPT !.at = "observers", !.obj = s].at = "observers"
      BY DEF UserMode
    <3>2. QED
      BY <1>1, <2>1, <3>1, NeitherAfter
  <2>3. QED
    BY <1>1, <2>1, <2>2, Still
<1>4. QED
  BY <1>2, <1>3

\* A lock begins: the mutex is not the caller's own.
LEMMA LockLists ==
    ASSUME IInv, LInv, ~MayRelock, NEW c \in Task, NEW m \in Mutex, NEW n,
           v_mutex_lock(c, m, n)
    PROVE  LInv' /\ StayDead
<1>1. c # Idle /\ c = current_task /\ ~pendsv /\ Dying = NULL
  BY Caller DEF v_mutex_lock
<1>2. /\ handler' = [at |-> "inherit", task |-> c, obj |-> m, depth |-> 0, ticks |-> n]
      /\ call' = [call EXCEPT ![c] = [op |-> "lock", obj |-> m]] /\ owner[m] # c
      /\ UNCHANGED <<owner, current_task, pendsv>>
  BY DEF v_mutex_lock
<1>3. handler'.at = "inherit" /\ handler'.task = c /\ call'[c].obj = m
  BY <1>2, Types
<1>4. Dying' = NULL
  BY <1>3 DEF Dying
<1>5. HandlerInv'
  BY <1>1, <1>2, <1>3 DEF HandlerInv
<1>6. call'[Idle] = NoCall
  BY <1>1, <1>2, Types DEF LInv, RunInv
<1>7. QED
  BY <1>1, <1>2, <1>4, <1>5, <1>6, Still DEF v_mutex_lock

\* A hop of the walk moves a ready owner to the end of another ready list.
LEMMA HopLists ==
    ASSUME IInv, LInv, InheritHop
    PROVE  LInv' /\ StayDead
<1> DEFINE c == handler.task
           o == owner[handler.obj]
<1>1. /\ handler.at = "inherit" /\ Dying = NULL /\ UNCHANGED <<status, call, owner, pendsv>>
      /\ UNCHANGED <<blocked_list, delayed_list, current_task, wait_sem, wait_q>>
      /\ UNCHANGED held_mutexes
  BY DEF InheritHop, Dying
<1>2. call'[Idle] = NoCall
  BY <1>1 DEF LInv, RunInv
<1>3. CASE handler' = [handler EXCEPT !.at = "panic"] /\ UNCHANGED <<priority, ready_lists>>
  <2>1. handler'.at = "panic"
    BY <1>3 DEF IInv, TypeOK, CallTypeOK, Handler
  <2>2. Dying' = NULL /\ HandlerInv'
    BY <2>1, NeitherAfter
  <2>3. QED
    BY <1>1, <1>2, <1>3, <2>2, Still
<1>4. CASE /\ task_change_priority(o, priority[c])
           /\ handler'.at = "inherit" /\ handler'.task = c
  <2>1. c \in Task /\ o \in Task /\ priority[c] \in Priority
    BY <1>1, InheritFacts, Types DEF InheritHop, Outranked, IInv
  <2> DEFINE p == priority[c]
  <2>2. /\ priority' = [priority EXCEPT ![o] = p]
        /\ ready_lists' = IF status[o] = "READY"
                            THEN rl_append(rl_remove(ready_lists, o, priority[o]), o, p)
                            ELSE ready_lists
    BY <1>4 DEF task_change_priority
  <2> HIDE DEF o, c, p
  <2>3. Dying' = NULL
    BY <1>4 DEF Dying
  <2>4. HandlerInv'
    BY <1>1, <1>4 DEF LInv, HandlerInv, c
  <2>5. priority'[o] = p /\ \A u \in Task \ {o} : priority'[u] = priority[u]
    BY <2>1, <2>2, Types
  <2>6. ReadyOk(status, priority, ready_lists, NULL)
    BY <1>1 DEF LInv, Scheduler
  <2>7. ReadyOk(status, priority', ready_lists', NULL)
    <3>1. CASE status[o] = "READY"
      <4> DEFINE rest == rl_remove(ready_lists, o, priority[o])
      <4>1. ReadyAsBefore(status, priority, NULL, status, priority, o, Task \ {o})
        BY Types DEF ReadyAsBefore
      <4>2. ready_lists \in [Priority -> Seq(Task)] /\ priority[o] \in Priority /\ o # NULL
        BY <2>1, Types
      <4>3. ReadyOk(status, priority, rest, o)
        BY <2>1, <2>6, <3>1, <4>1, <4>2, ReadyLeave
      <4>4. rest \in [Priority -> Seq(Task)]
        BY <4>2, UnlinkType DEF rl_remove
      <4>5. ReadyAsBefore(status, priority, o, status, priority', NULL, Task \ {o})
        BY <2>5, Types DEF ReadyAsBefore
      <4>6. p \in Priority
        BY <2>1 DEF p
      <4> HIDE DEF rest
      <4>7. ReadyOk(status, priority', rl_append(rest, o, p), NULL)
        BY <2>1, <2>5, <3>1, <4>2, <4>3, <4>4, <4>5, <4>6, ReadyJoin
      <4>8. QED
        BY <2>2, <3>1, <4>7 DEF rest
    <3>2. CASE status[o] # "READY"
      <4>1. ReadyAsBefore(status, priority, NULL, status, priority', NULL, Task)
        BY <2>5, <3>2 DEF ReadyAsBefore
      <4>2. QED
        BY <2>2, <2>6, <3>2, <4>1, ReadySame
    <3>3. QED
      BY <3>1, <3>2
  <2>8. Scheduler' /\ Queues'
    BY <1>1, <2>3, <2>7 DEF LInv, Scheduler, Queues
  <2>9. DeadInv' /\ WaiterInv' /\ RunInv' /\ StayDead
    BY <1>1 DEF LInv, DeadInv, WaiterInv, RunInv, StayDead
  <2>10. QED
    BY <2>4, <2>8, <2>9 DEF LInv
<1>5. QED
  BY <1>3, <1>4 DEF InheritHop

\* A lock ends: the caller owns the mutex, gives up or blocks.
LEMMA LockTakeLists ==
    ASSUME IInv, LInv, LockTake
    PROVE  LInv' /\ StayDead
<1> DEFINE c == handler.task
           m == call[c].obj
<1>1. /\ c \in Task /\ m \in Mutex /\ m \in Obj /\ handler.at = "inherit" /\ Dying = NULL
      /\ handler' = UserMode /\ Dying' = NULL /\ HandlerInv'
  BY InheritFacts, NobodyDying, UserAfter, Types DEF LockTake, IInv
<1>2. c = current_task /\ c # Idle /\ status[c] = "RUNNING" /\ owner[m] # c /\ ~pendsv
  BY <1>1 DEF LInv, HandlerInv, RunInv
<1>3. UNCHANGED <<ready_lists, delayed_list, current_task>>
  BY DEF LockTake
<1> HIDE DEF c, m
<1>4. CASE /\ Own(m, c, held_mutexes) /\ call' = [call EXCEPT ![c] = NoCall]
           /\ UNCHANGED <<taskVars, blocked_list, waitVars, wait_q, pendsv>>
  <2>1. /\ \A x \in Mutex : owner'[x] = IF x = m THEN c ELSE owner[x]
        /\ \A u \in Task \ {c} : held_mutexes'[u] = held_mutexes[u]
    BY <1>1, <1>4, Types DEF Own
  <2>2. call'[Idle] = NoCall
    BY <1>2, <1>4, Types DEF LInv, RunInv
  <2>3. DeadInv' /\ WaiterInv'
    BY <1>2, <1>4, <2>1 DEF LInv, DeadInv, Dead, WaiterInv
  <2>4. QED
    BY <1>1, <1>2, <1>3, <1>4, <2>2, <2>3, Quiet
<1>5. CASE /\ call' = [call EXCEPT ![c] = NoCall]
           /\ UNCHANGED <<taskVars, blocked_list, waitVars, semVars, mutexVars, pendsv>>
  <2>1. call'[Idle] = NoCall
    BY <1>2, <1>5, Types DEF LInv, RunInv
  <2>2. QED
    BY <1>1, <1>2, <1>3, <1>5, <2>1, Still
<1>6. CASE BlockOn(c, m, handler.ticks, "lock") /\ UNCHANGED <<priority, mutexVars>>
  BY <1>1, <1>2, <1>3, <1>6, BlockStep
<1>7. QED
  BY <1>2, <1>4, <1>5, <1>6 DEF LockTake, c, m

\* A mutex passes to its first waiter, who becomes ready, or is freed.
LEMMA HandOverLists ==
    ASSUME IInv, LInv, NEW m \in Mutex, owner[m] # NULL, Dying = NULL \/ Dying = owner[m],
           NEW held \in [Task -> Seq(Mutex)], HandOver(m, held),
           \A u \in Task : status[u] \in Dead => held[u] = <<>>,
           \A u \in Task : status[u] # "RUNNING" => priority'[u] = priority[u],
           UNCHANGED <<delayed_list, current_task, pendsv, handler>>,
           handler.at # "inherit", call'[Idle] = NoCall
    PROVE  LInv' /\ StayDead
<1>1. Dying' = Dying
  BY DEF Dying
<1>2. CASE wait_q[m] # <<>>
  <2> DEFINE w == Head(wait_q[m])
             q == Tail(wait_q[m])
  <2>1. /\ wait_q' = [wait_q EXCEPT ![m] = q] /\ wait_sem' = [wait_sem EXCEPT ![w] = NULL]
        /\ MakeReady(w, VA_PASS) /\ Own(m, w, held)
    BY <1>2 DEF HandOver
  <2>2. /\ w \in Task /\ status[w] = "BLOCKED" /\ wait_sem[w] = m /\ m \in Obj
        /\ Listed(q, Waiting(status, wait_sem, m) \ {w})
    BY <1>2, FirstWaiter, Types
  <2> HIDE DEF w, q
  <2>3. /\ status'[w] = "READY" /\ blocked_list' = Unlink(blocked_list, w)
        /\ \A u \in Task \ {w} : status'[u] = status[u] /\ wait_sem'[u] = wait_sem[u]
        /\ ready_lists' = rl_append(ready_lists, w, priority[w])
    BY <2>1, <2>2, Types DEF MakeReady
  <2>4. w # Dying
    BY <2>2, Types DEF LInv, WaiterInv
  <2>5. /\ \A x \in Mutex : owner'[x] = IF x = m THEN w ELSE owner[x]
        /\ \A u \in Task \ {w} : held_mutexes'[u] = held[u]
    BY <2>1, <2>2, Types DEF Own
  <2>6. HandlerInv'
    BY <2>3, TeardownTask DEF LInv, HandlerInv, Dead, IInv
  <2>7. DeadInv'
    BY <2>3, <2>5 DEF LInv, DeadInv, Dead
  <2>8. WaiterInv'
    BY <2>3, <2>5 DEF LInv, WaiterInv
  <2>9. QED
    BY <1>1, <2>1, <2>2, <2>3, <2>4, <2>6, <2>7, <2>8, WakeStep
<1>3. CASE wait_q[m] = <<>>
  <2>1. /\ owner' = [owner EXCEPT ![m] = NULL] /\ held_mutexes' = held
        /\ UNCHANGED <<status, blocked_list, ready_lists, wait_sem, wait_q>>
    BY <1>3 DEF HandOver
  <2>2. HandlerInv'
    BY <2>1 DEF LInv, HandlerInv
  <2>3. DeadInv' /\ WaiterInv'
    BY <2>1, Types DEF LInv, DeadInv, Dead, WaiterInv
  <2>4. QED
    BY <1>1, <2>1, <2>2, <2>3, Quiet
<1>4. QED
  BY <1>2, <1>3

\* An unlock, and the priority the caller falls back to.
LEMMA UnlockLists ==
    ASSUME IInv, LInv, NEW c \in Task, NEW m \in Mutex, v_mutex_unlock(c, m)
    PROVE  LInv' /\ StayDead
<1> DEFINE held == [held_mutexes EXCEPT ![c] = Unlink(@, m)]
<1>1. /\ handler = UserMode /\ ~pendsv /\ current_task = c /\ c # Idle
      /\ handler.at = "user" /\ Dying = NULL
  BY User DEF v_mutex_unlock, Executing, NoCall, LInv, RunInv
<1>2. status[c] = "RUNNING"
  BY <1>1 DEF LInv, RunInv
<1>3. /\ owner[m] = c /\ HandOver(m, held) /\ call' = [call EXCEPT ![c] = NoCall]
      /\ \E p \in Priority : priority' = [priority EXCEPT ![c] = p]
      /\ UNCHANGED <<delayed_list, current_task, pendsv, handler>>
  BY DEF v_mutex_unlock, mutex_unlock_common
<1>4. held \in [Task -> Seq(Mutex)]
  BY UnlinkType, Types
<1>5. \A u \in Task : status[u] \in Dead => held[u] = <<>>
  BY <1>2, Types DEF LInv, DeadInv, Dead
<1>6. \A u \in Task : status[u] # "RUNNING" => priority'[u] = priority[u]
  BY <1>2, <1>3, Types
<1>7. call'[Idle] = NoCall /\ owner[m] # NULL
  BY <1>1, <1>3, Types DEF LInv, RunInv
<1> HIDE DEF held
<1>8. QED
  BY <1>1, <1>3, <1>4, <1>5, <1>6, <1>7, HandOverLists

\* A teardown passes the mutexes of the dying task on.
LEMMA TeardownMutexLists ==
    ASSUME IInv, LInv, TeardownMutex
    PROVE  LInv' /\ StayDead
<1> DEFINE t == handler.task
           m == Head(held_mutexes[t])
           held == [held_mutexes EXCEPT ![t] = Tail(@)]
<1>1. t \in Task /\ handler.at = "teardown" /\ Dying = t /\ status[t] \notin Dead
  BY TeardownTask DEF TeardownMutex, IInv, Dying, LInv, HandlerInv
<1>2. held_mutexes[t] # <<>> /\ HandOver(m, held) /\ held_mutexes[t] \in Seq(Mutex)
  BY <1>1, Types DEF TeardownMutex
<1>3. m \in Mutex /\ m \in ToSet(held_mutexes[t]) /\ Tail(held_mutexes[t]) \in Seq(Mutex)
  BY <1>2, TailRange
<1>4. owner[m] = t /\ owner[m] # NULL
  BY <1>1, <1>3, Types, SMTT(30) DEF IInv, MutexOwnership
<1>5. held \in [Task -> Seq(Mutex)]
  BY <1>3, Types
<1>6. \A u \in Task : status[u] \in Dead => held[u] = <<>>
  BY <1>1, Types DEF LInv, DeadInv
<1>7. /\ UNCHANGED <<delayed_list, current_task, pendsv, handler>>
      /\ UNCHANGED priority /\ call'[Idle] = NoCall
  BY DEF TeardownMutex, LInv, RunInv
<1> HIDE DEF t, m, held
<1>8. QED
  BY <1>1, <1>2, <1>3, <1>4, <1>5, <1>6, <1>7, HandOverLists

\* The running task goes to sleep.
LEMMA DelayLists ==
    ASSUME IInv, LInv, NEW c \in Task, NEW n \in DelayTicks, task_delay(c, n)
    PROVE  LInv' /\ StayDead
<1>1. /\ status[c] = "RUNNING" /\ c # Idle /\ c = current_task /\ Dying = NULL
      /\ handler' = UserMode
  BY Caller DEF task_delay
<1>2. Dying' = NULL /\ HandlerInv'
  BY <1>1, UserAfter
<1>3. /\ status'[c] = "DELAYED" /\ \A u \in Task \ {c} : status'[u] = status[u]
      /\ delayed_list' = add_to_delayed_list(delayed_list, c, n) /\ pendsv' = TRUE
      /\ UNCHANGED <<priority, ready_lists, blocked_list, current_task, wait_sem, wait_q>>
      /\ UNCHANGED <<owner, held_mutexes, call>>
  BY Types DEF task_delay
<1>4. ReadyOk(status', priority, ready_lists, NULL)
  <2>1. ReadyAsBefore(status, priority, NULL, status', priority, NULL, Task)
    BY <1>1, <1>3 DEF ReadyAsBefore
  <2>2. ReadyOk(status, priority, ready_lists, NULL)
    BY <1>1 DEF LInv, Scheduler
  <2>3. QED
    BY <2>1, <2>2, ReadySame
<1>5. Listed(blocked_list', Parked(status', NULL))
  <2>1. Listed(blocked_list, Parked(status, NULL))
    BY <1>1 DEF LInv, Scheduler
  <2>2. QED
    BY <1>1, <1>3, <2>1 DEF Parked, Listed
<1>6. Listed(delayed_list', Sleeping(status', NULL))
  <2>1. Listed(delayed_list, Sleeping(status, NULL)) /\ delayed_list \in Seq(Task)
    BY <1>1, Types DEF LInv, Scheduler
  <2>2. c \notin Sleeping(status, NULL)
    BY <1>1 DEF Sleeping
  <2>3. Listed(delayed_list', Sleeping(status, NULL) \cup {c})
    BY <1>3, <2>1, <2>2, ListInsert DEF add_to_delayed_list
  <2>4. \A u \in Task : u \in Sleeping(status', NULL) <=> u \in Sleeping(status, NULL) \cup {c}
    BY <1>3, Types DEF Sleeping
  <2>5. QED
    BY <2>3, <2>4 DEF Listed
<1>7. Queues'
  <2>1. WaitAsBefore(status, wait_sem, status', wait_sem, Task)
    BY <1>1, <1>3 DEF WaitAsBefore
  <2>2. QED
    BY <1>3, <2>1, QueuesSame DEF LInv, Queues
<1>8. DeadInv' /\ WaiterInv' /\ StayDead
  BY <1>1, <1>3 DEF LInv, DeadInv, Dead, WaiterInv, StayDead
<1>9. RunInv'
  BY <1>1, <1>3, Types DEF LInv, RunInv
<1>10. QED
  BY <1>2, <1>3, <1>4, <1>5, <1>6, <1>7, <1>8, <1>9 DEF LInv, Scheduler

\* The system calls that move nobody.
LEMMA StillCalls ==
    ASSUME IInv, LInv, NEW c \in Task,
           \/ \E m \in Mutex : RecursiveRelock(c, m) \/ v_mutex_unlock_recursive(c, m)
           \/ task_yield(c) \/ v_wait_disarm_impl(c)
    PROVE  LInv' /\ StayDead
<1>1. /\ UNCHANGED <<status, priority, ready_lists, blocked_list, delayed_list, wait_sem>>
      /\ UNCHANGED <<current_task, wait_q, owner, held_mutexes, handler>>
      /\ (pendsv' \/ ~pendsv) /\ handler = UserMode
  BY DEF RecursiveRelock, v_mutex_unlock_recursive, task_yield, v_wait_disarm_impl, Executing
<1>2. Dying = NULL /\ Dying' = NULL /\ HandlerInv'
  BY <1>1, User, UserAfter
<1>3. call'[Idle] = NoCall
  <2>1. call[Idle] = NoCall
    BY DEF LInv, RunInv
  <2>2. CASE v_wait_disarm_impl(c)
    <3>1. c # Idle
      BY <2>1, <2>2 DEF v_wait_disarm_impl, NoCall
    <3>2. QED
      BY <2>1, <2>2, <3>1, Types DEF v_wait_disarm_impl
  <2>3. CASE ~v_wait_disarm_impl(c)
    <3>1. c # Idle
      BY <2>3 DEF RecursiveRelock, v_mutex_unlock_recursive, task_yield, Executing
    <3>2. QED
      BY <2>1, <2>3, <3>1, Types DEF RecursiveRelock, v_mutex_unlock_recursive, task_yield
  <2>4. QED
    BY <2>2, <2>3
<1>4. QED
  BY <1>1, <1>2, <1>3, Still

\* The ends of the kernel's loops, and the start of the tick.
LEMMA StillHandlers ==
    ASSUME IInv, LInv, v_kernel_tick \/ SleepersDone \/ TickDone \/ ObserversDone
    PROVE  LInv' /\ StayDead
<1>1. /\ UNCHANGED <<status, priority, ready_lists, blocked_list, delayed_list, wait_sem>>
      /\ UNCHANGED <<current_task, wait_q, owner, held_mutexes, call>>
      /\ pendsv' \/ pendsv' = pendsv
  BY DEF v_kernel_tick, SleepersDone, TickDone, ObserversDone
<1>2. handler.at # "teardown"
  BY User DEF v_kernel_tick, SleepersDone, TickDone, ObserversDone
<1>3. handler'.at \in {"user", "sleepers", "waiters"}
  BY DEF v_kernel_tick, SleepersDone, TickDone, ObserversDone, UserMode
<1>4. Dying = NULL /\ Dying' = NULL /\ HandlerInv'
  BY <1>2, <1>3, NobodyDying, NeitherAfter
<1>5. call'[Idle] = NoCall
  BY <1>1 DEF LInv, RunInv
<1>6. QED
  BY <1>1, <1>4, <1>5, Still DEF IInv, TypeOK, CallTypeOK

\* The first sleeper becomes ready.
LEMMA SleeperLists ==
    ASSUME IInv, LInv, WakeSleeper
    PROVE  LInv' /\ StayDead
<1> DEFINE t == Head(delayed_list)
<1>1. /\ handler.at = "sleepers" /\ delayed_list # <<>> /\ UNCHANGED handler
      /\ delayed_list' = Tail(delayed_list)
      /\ ready_lists' = rl_append(ready_lists, t, priority[t])
      /\ status' = [status EXCEPT ![t] = "READY"]
      /\ UNCHANGED <<priority, blocked_list, current_task, wait_sem, wait_q, pendsv>>
      /\ UNCHANGED <<owner, held_mutexes, call>>
  BY DEF WakeSleeper, SleeperDue
<1>2. Dying = NULL /\ Dying' = NULL /\ HandlerInv'
  BY <1>1, NobodyDying, NeitherAfter
<1>3. Listed(delayed_list, Sleeping(status, NULL)) /\ delayed_list \in Seq(Task)
  BY <1>2, Types DEF LInv, Scheduler
<1>4. /\ t \in Task /\ t \in Sleeping(status, NULL)
      /\ Listed(Tail(delayed_list), Sleeping(status, NULL) \ {t})
  BY <1>1, <1>3, ListTail
<1>5. status[t] = "DELAYED" /\ t # NULL
  BY <1>4 DEF Sleeping
<1> HIDE DEF t
<1>6. status'[t] = "READY" /\ \A u \in Task \ {t} : status'[u] = status[u]
  BY <1>1, <1>4, Types
<1>7. ReadyOk(status', priority, ready_lists', NULL)
  <2>1. ReadyAsBefore(status, priority, NULL, status', priority, NULL, Task \ {t})
    BY <1>6 DEF ReadyAsBefore
  <2>2. /\ ReadyOk(status, priority, ready_lists, NULL) /\ priority[t] \in Priority
        /\ ready_lists \in [Priority -> Seq(Task)]
    BY <1>2, <1>4, Types DEF LInv, Scheduler
  <2>3. ReadyOk(status', priority, rl_append(ready_lists, t, priority[t]), NULL)
    BY <1>4, <1>5, <1>6, <2>1, <2>2, ReadyJoin
  <2>4. QED
    BY <1>1, <2>3
<1>8. Listed(blocked_list', Parked(status', NULL))
  <2>1. Listed(blocked_list, Parked(status, NULL))
    BY <1>2 DEF LInv, Scheduler
  <2>2. QED
    BY <1>1, <1>5, <1>6, <2>1 DEF Parked, Listed
<1>9. Listed(delayed_list', Sleeping(status', NULL))
  <2>1. \A u \in Task : u \in Sleeping(status', NULL) <=> u \in Sleeping(status, NULL) \ {t}
    BY <1>6 DEF Sleeping
  <2>2. QED
    BY <1>1, <1>4, <2>1 DEF Listed
<1>10. Queues'
  <2>1. WaitAsBefore(status, wait_sem, status', wait_sem, Task)
    BY <1>5, <1>6 DEF WaitAsBefore
  <2>2. QED
    BY <1>1, <2>1, QueuesSame DEF LInv, Queues
<1>11. DeadInv' /\ WaiterInv' /\ StayDead
  BY <1>1, <1>5, <1>6 DEF LInv, DeadInv, Dead, WaiterInv, StayDead
<1>12. RunInv'
  BY <1>1, <1>5, <1>6, Types DEF LInv, RunInv
<1>13. QED
  BY <1>1, <1>2, <1>7, <1>8, <1>9, <1>10, <1>11, <1>12 DEF LInv, Scheduler

\* A timed-out task leaves the queue its wait_sem names; the dead have none.
LEMMA EjectLists ==
    ASSUME IInv, LInv, NoMultiwait, Eject
    PROVE  LInv' /\ StayDead
<1>1. PICK i \in DOMAIN blocked_list :
        /\ Expired(blocked_list[i])
        /\ EjectWaiter(blocked_list[i]) \/ EjectMultiwaiter(blocked_list[i])
  BY DEF Eject, FirstExpired
<1> DEFINE t == blocked_list[i]
           s == wait_sem[t]
<1>2. /\ handler.at = "waiters" /\ UNCHANGED <<priority, delayed_list, current_task, wait_sem>>
      /\ UNCHANGED <<owner, held_mutexes, observers, call, pendsv, handler>>
  BY DEF Eject
<1>3. Dying = NULL /\ Dying' = NULL /\ HandlerInv' /\ call'[Idle] = NoCall
  BY <1>2, NobodyDying, NeitherAfter DEF LInv, RunInv
<1>4. Listed(blocked_list, Parked(status, NULL)) /\ blocked_list \in Seq(Task)
  BY <1>3, Types DEF LInv, Scheduler
<1>5. t \in Task /\ t \in Parked(status, NULL)
  BY <1>4, ListRemoveAt
<1>6. wait_sem[t] # NULL /\ EjectWaiter(t)
  BY <1>1, <1>5 DEF Expired, EjectMultiwaiter, EjectWaiter, NoMultiwait
<1>7. s \in Obj /\ status[t] = "BLOCKED" /\ t # NULL
  BY <1>5, <1>6, Types DEF Parked, LInv, DeadInv, Dead
<1>8. /\ wait_q' = [wait_q EXCEPT ![s] = Unlink(@, t)] /\ MakeReady(t, VA_FAIL)
  BY <1>6 DEF EjectWaiter
<1> HIDE DEF t
<1>9. /\ status'[t] = "READY" /\ blocked_list' = Unlink(blocked_list, t)
      /\ \A u \in Task \ {t} : status'[u] = status[u]
      /\ ready_lists' = rl_append(ready_lists, t, priority[t])
  BY <1>5, <1>8, Types DEF MakeReady
<1>10. Listed(Unlink(wait_q[s], t), Waiting(status, wait_sem, s) \ {t})
  <2>1. wait_q[s] \in Seq(Task) /\ Listed(wait_q[s], Waiting(status, wait_sem, s))
    BY <1>7, Types DEF LInv, Queues, QueuesOk
  <2>2. QED
    BY <2>1, ListUnlink
<1>11. DeadInv' /\ WaiterInv'
  BY <1>2, <1>9 DEF LInv, DeadInv, Dead, WaiterInv
<1>12. wait_q' = [wait_q EXCEPT ![s] = Unlink(wait_q[s], t)]
  BY <1>8
<1>13. QED
  BY <1>2, <1>3, <1>5, <1>7, <1>8, <1>9, <1>10, <1>11, <1>12, WakeStep

\* Nobody observes a semaphore.
LEMMA NoObserver ==
    ASSUME IInv, NoMultiwait
    PROVE  ~WakeObserver
<1> SUFFICES ASSUME WakeObserver PROVE FALSE
  OBVIOUS
<1>1. handler.obj \in Sem
  BY DEF WakeObserver, IInv, TypeOK, CallTypeOK, Handler
<1>2. observers[handler.obj] = <<>>
  BY <1>1 DEF NoMultiwait
<1>3. QED
  BY <1>2 DEF WakeObserver

\* The task that runs asks for its own end: it was on no list and stays off them.
LEMMA ExitLists ==
    ASSUME IInv, LInv, NEW c \in Task, v_task_exit_impl(c)
    PROVE  LInv' /\ StayDead
<1>1. status[c] = "RUNNING" /\ c # Idle /\ Dying = NULL /\ handler.at = "user"
  BY Caller DEF v_task_exit_impl
<1>2. handler'.at = "teardown" /\ handler'.task = c
  BY DEF v_task_exit_impl, TearDown, UserMode
<1>3. /\ UNCHANGED <<status, priority, ready_lists, blocked_list, delayed_list, wait_sem>>
      /\ UNCHANGED <<current_task, wait_q, owner, held_mutexes, call>>
      /\ UNCHANGED pendsv
  BY DEF v_task_exit_impl
<1>4. Dying' = c /\ HandlerInv'
  BY <1>1, <1>2, <1>3 DEF Dying, HandlerInv, Dead
<1>5. Scheduler'
  <2>1. /\ ReadyOk(status, priority, ready_lists, NULL)
        /\ Listed(blocked_list, Parked(status, NULL))
        /\ Listed(delayed_list, Sleeping(status, NULL))
    BY <1>1 DEF LInv, Scheduler
  <2>2. ReadyAsBefore(status, priority, NULL, status, priority, c, Task)
    BY <1>1, Types DEF ReadyAsBefore
  <2>3. ReadyOk(status, priority, ready_lists, c)
    BY <2>1, <2>2, ReadySame
  <2>4. Listed(blocked_list, Parked(status, c)) /\ Listed(delayed_list, Sleeping(status, c))
    BY <1>1, <2>1, Types DEF Parked, Sleeping, Listed
  <2>5. QED
    BY <1>3, <1>4, <2>3, <2>4 DEF Scheduler
<1>6. Queues' /\ DeadInv' /\ WaiterInv' /\ RunInv' /\ StayDead
  BY <1>3 DEF LInv, Queues, DeadInv, WaiterInv, RunInv, StayDead
<1>7. QED
  BY <1>4, <1>5, <1>6 DEF LInv

\* A task is ended by another: it is taken off the list its status names.
LEMMA KillLists ==
    ASSUME IInv, LInv, NEW c \in Task, NEW t \in Task, task_exit_request(c, t)
    PROVE  LInv' /\ StayDead
<1>1. Dying = NULL /\ t # Idle /\ status[t] \in {"READY", "DELAYED", "BLOCKED"} /\ t # NULL
  BY Caller, TaskAssumption DEF task_exit_request, Reachable
<1>2. handler'.at = "teardown" /\ handler'.task = t
  BY DEF task_exit_request, TearDown, UserMode
<1>3. /\ UNCHANGED <<status, priority, wait_sem, pendsv>>
      /\ UNCHANGED <<current_task, wait_q, owner, held_mutexes, call>>
      /\ ready_lists' = IF status[t] = "READY"
                          THEN rl_remove(ready_lists, t, priority[t]) ELSE ready_lists
      /\ delayed_list' = IF status[t] = "DELAYED"
                           THEN Unlink(delayed_list, t) ELSE delayed_list
      /\ blocked_list' = IF status[t] = "BLOCKED"
                           THEN Unlink(blocked_list, t) ELSE blocked_list
  BY DEF task_exit_request
<1>4. Dying' = t /\ HandlerInv'
  BY <1>1, <1>2, <1>3 DEF Dying, HandlerInv, Dead
<1>5. /\ ReadyOk(status, priority, ready_lists, NULL)
      /\ Listed(blocked_list, Parked(status, NULL)) /\ blocked_list \in Seq(Task)
      /\ Listed(delayed_list, Sleeping(status, NULL)) /\ delayed_list \in Seq(Task)
  BY <1>1, Types DEF LInv, Scheduler
<1>6. ReadyOk(status, priority, ready_lists', t)
  <2>1. CASE status[t] = "READY"
    <3>1. ReadyAsBefore(status, priority, NULL, status, priority, t, Task \ {t})
      BY Types DEF ReadyAsBefore
    <3>2. ready_lists \in [Priority -> Seq(Task)] /\ priority[t] \in Priority
      BY Types
    <3>3. ReadyOk(status, priority, rl_remove(ready_lists, t, priority[t]), t)
      BY <1>1, <1>5, <2>1, <3>1, <3>2, ReadyLeave
    <3>4. QED
      BY <1>3, <2>1, <3>3
  <2>2. CASE status[t] # "READY"
    <3>1. ReadyAsBefore(status, priority, NULL, status, priority, t, Task)
      BY <2>2, Types DEF ReadyAsBefore
    <3>2. QED
      BY <1>3, <1>5, <2>2, <3>1, ReadySame
  <2>3. QED
    BY <2>1, <2>2
<1>7. Listed(blocked_list', Parked(status, t))
  <2>1. Listed(Unlink(blocked_list, t), Parked(status, NULL) \ {t})
    BY <1>5, ListUnlink
  <2>2. CASE status[t] = "BLOCKED"
    BY <1>1, <1>3, <2>1, <2>2, Types DEF Parked, Listed
  <2>3. CASE status[t] # "BLOCKED"
    BY <1>1, <1>3, <1>5, <2>3, Types DEF Parked, Listed
  <2>4. QED
    BY <2>2, <2>3
<1>8. Listed(delayed_list', Sleeping(status, t))
  <2>1. Listed(Unlink(delayed_list, t), Sleeping(status, NULL) \ {t})
    BY <1>5, ListUnlink
  <2>2. CASE status[t] = "DELAYED"
    BY <1>1, <1>3, <2>1, <2>2, Types DEF Sleeping, Listed
  <2>3. CASE status[t] # "DELAYED"
    BY <1>1, <1>3, <1>5, <2>3, Types DEF Sleeping, Listed
  <2>4. QED
    BY <2>2, <2>3
<1>9. Queues' /\ DeadInv' /\ WaiterInv' /\ RunInv' /\ StayDead
  BY <1>3 DEF LInv, Queues, DeadInv, WaiterInv, RunInv, StayDead
<1>10. QED
  BY <1>3, <1>4, <1>6, <1>7, <1>8, <1>9 DEF LInv, Scheduler

\* The teardown ends: the dead task leaves its wait queue and is parked for the idle task.
LEMMA TeardownDoneLists ==
    ASSUME IInv, LInv, TeardownDone
    PROVE  LInv' /\ StayDead
<1> DEFINE t == handler.task
<1>1. /\ handler.at = "teardown" /\ t \in Task /\ Dying = t /\ t # Idle
      /\ status[t] \notin Dead /\ t # NULL
  BY TeardownTask, Types DEF TeardownDone, IInv, Dying, LInv, HandlerInv
<1>2. /\ held_mutexes[t] = <<>> /\ LeaveWaitQueue(t)
      /\ status' = [status EXCEPT ![t] = "TERMINATED"]
      /\ blocked_list' = Append(blocked_list, t) /\ handler' = UserMode /\ pendsv' = TRUE
      /\ UNCHANGED <<priority, ready_lists, delayed_list, current_task, owner, call>>
      /\ UNCHANGED held_mutexes
  BY <1>1 DEF TeardownDone
<1> HIDE DEF t
<1>3. Dying' = NULL /\ HandlerInv'
  BY <1>2, UserAfter
<1>4. /\ status'[t] = "TERMINATED" /\ \A u \in Task \ {t} : status'[u] = status[u]
      /\ wait_sem'[t] = NULL /\ \A u \in Task \ {t} : wait_sem'[u] = wait_sem[u]
  BY <1>1, <1>2, Types DEF LeaveWaitQueue
<1>5. /\ ReadyOk(status, priority, ready_lists, t)
      /\ Listed(blocked_list, Parked(status, t)) /\ blocked_list \in Seq(Task)
      /\ Listed(delayed_list, Sleeping(status, t))
  BY <1>1, Types DEF LInv, Scheduler
<1>6. ReadyOk(status', priority, ready_lists, NULL)
  <2>1. ReadyAsBefore(status, priority, t, status', priority, NULL, Task)
    BY <1>4, Types DEF ReadyAsBefore
  <2>2. QED
    BY <1>5, <2>1, ReadySame
<1>7. Listed(blocked_list', Parked(status', NULL))
  <2>1. t \notin Parked(status, t)
    BY DEF Parked
  <2>2. Listed(Append(blocked_list, t), Parked(status, t) \cup {t})
    BY <1>1, <1>5, <2>1, ListAppend
  <2>3. \A u \in Task : u \in Parked(status', NULL) <=> u \in Parked(status, t) \cup {t}
    BY <1>4, Types DEF Parked
  <2>4. QED
    BY <1>2, <2>2, <2>3 DEF Listed
<1>8. Listed(delayed_list, Sleeping(status', NULL))
  BY <1>4, <1>5, Types DEF Sleeping, Listed
<1>9. Queues'
  <2>1. QueuesOk(status, wait_sem, wait_q) /\ wait_q \in [Obj -> Seq(Task)]
    BY Types DEF LInv, Queues
  <2>2. WaitAsBefore(status, wait_sem, status', wait_sem', Task \ {t})
    BY <1>4 DEF WaitAsBefore
  <2>3. wait_q' = Dropped(wait_q, wait_sem, t)
    BY <1>1, <1>2, Types, ZenonT(30) DEF LeaveWaitQueue, Dropped
  <2>4. status'[t] # "BLOCKED"
    BY <1>4
  <2>5. QueuesOk(status', wait_sem', Dropped(wait_q, wait_sem, t))
    BY <1>1, <2>1, <2>2, <2>4, QueuesDrop
  <2>6. QED
    BY <2>3, <2>5 DEF Queues
<1>10. WaiterInv'
  BY <1>2, <1>4 DEF LInv, WaiterInv
<1>11. DeadInv' /\ StayDead
  BY <1>1, <1>2, <1>4 DEF LInv, DeadInv, Dead, StayDead
<1>12. RunInv'
  BY <1>1, <1>2, <1>4, Types DEF LInv, RunInv
<1>13. QED
  BY <1>2, <1>3, <1>6, <1>7, <1>8, <1>9, <1>10, <1>11, <1>12 DEF LInv, Scheduler

\* The idle task frees a dead one.
LEMMA FreeLists ==
    ASSUME IInv, LInv, idle_task_function
    PROVE  LInv' /\ StayDead
<1>1. PICK i \in DOMAIN blocked_list :
        /\ status[blocked_list[i]] = "TERMINATED"
        /\ blocked_list' = RemoveAt(blocked_list, i)
        /\ status' = [status EXCEPT ![blocked_list[i]] = "FREED"]
  BY DEF idle_task_function
<1> DEFINE t == blocked_list[i]
<1>2. /\ UNCHANGED <<priority, ready_lists, delayed_list, current_task, wait_sem, wait_q>>
      /\ UNCHANGED <<owner, held_mutexes, call, pendsv, handler>>
      /\ handler = UserMode
  BY DEF idle_task_function
<1>3. Dying = NULL /\ Dying' = NULL /\ HandlerInv'
  BY <1>2, User, UserAfter
<1>4. Listed(blocked_list, Parked(status, NULL)) /\ blocked_list \in Seq(Task)
  BY <1>3, Types DEF LInv, Scheduler
<1>5. t \in Task /\ Listed(RemoveAt(blocked_list, i), Parked(status, NULL) \ {t})
  BY <1>4, ListRemoveAt
<1>6. status[t] = "TERMINATED"
  BY <1>1
<1>7. status'[t] = "FREED" /\ \A u \in Task \ {t} : status'[u] = status[u]
  BY <1>1, <1>5, Types
<1> HIDE DEF t
<1>8. ReadyOk(status', priority, ready_lists, NULL)
  <2>1. ReadyAsBefore(status, priority, NULL, status', priority, NULL, Task)
    BY <1>6, <1>7 DEF ReadyAsBefore
  <2>2. ReadyOk(status, priority, ready_lists, NULL)
    BY <1>3 DEF LInv, Scheduler
  <2>3. QED
    BY <2>1, <2>2, ReadySame
<1>9. Listed(blocked_list', Parked(status', NULL))
  <2>1. \A u \in Task : u \in Parked(status', NULL) <=> u \in Parked(status, NULL) \ {t}
    BY <1>7 DEF Parked
  <2>2. QED
    BY <1>1, <1>5, <2>1 DEF Listed
<1>10. Listed(delayed_list, Sleeping(status', NULL))
  <2>1. Listed(delayed_list, Sleeping(status, NULL))
    BY <1>3 DEF LInv, Scheduler
  <2>2. QED
    BY <1>6, <1>7, <2>1 DEF Sleeping, Listed
<1>11. Queues'
  <2>1. WaitAsBefore(status, wait_sem, status', wait_sem, Task)
    BY <1>6, <1>7 DEF WaitAsBefore
  <2>2. QED
    BY <1>2, <2>1, QueuesSame DEF LInv, Queues
<1>12. DeadInv' /\ WaiterInv' /\ StayDead
  BY <1>2, <1>6, <1>7 DEF LInv, DeadInv, Dead, WaiterInv, StayDead
<1>13. RunInv'
  BY <1>2, <1>6, <1>7, Types DEF LInv, RunInv
<1>14. QED
  BY <1>2, <1>3, <1>8, <1>9, <1>10, <1>11, <1>12, <1>13 DEF LInv, Scheduler

\* The context switch: the task that ran goes back on its ready list unless it left the
\* processor by itself, and the head of the highest list runs.  The idle task is always
\* ready or running, so there is one.
LEMMA SwitchLists ==
    ASSUME IInv, LInv, PendSV
    PROVE  LInv' /\ StayDead
<1> DEFINE preempted == status[current_task] = "RUNNING"
           lists == IF preempted
                      THEN rl_append(ready_lists, current_task, priority[current_task])
                      ELSE ready_lists
           st == [u \in Task |-> IF u = current_task /\ preempted THEN "READY" ELSE status[u]]
<1>1. PICK t \in Task :
        /\ rl_pop_head(lists, t, ready_lists') /\ current_task' = t
        /\ status' = [u \in Task |-> IF u = t THEN "RUNNING"
                       ELSE IF u = current_task /\ preempted THEN "READY" ELSE status[u]]
        /\ call' = [call EXCEPT ![t] = v_syscall_deliver_result(t, syscall_result[t])]
  BY DEF PendSV
<1>2. /\ UNCHANGED <<priority, blocked_list, delayed_list, wait_sem, wait_q, handler>>
      /\ UNCHANGED <<owner, held_mutexes>>
      /\ handler = UserMode /\ pendsv' = FALSE
  BY DEF PendSV
<1>3. Dying = NULL /\ Dying' = NULL /\ HandlerInv'
  BY <1>2, User, UserAfter
<1>4. /\ ReadyOk(status, priority, ready_lists, NULL) /\ ready_lists \in [Priority -> Seq(Task)]
      /\ current_task \in Task /\ priority[current_task] \in Priority /\ current_task # NULL
  BY <1>3, Types DEF LInv, Scheduler
<1>5. /\ \A u \in Task : st[u] = IF u = current_task /\ preempted THEN "READY" ELSE status[u]
      /\ status'[t] = "RUNNING" /\ \A u \in Task \ {t} : status'[u] = st[u]
  BY <1>1
<1> HIDE DEF st
<1>6. lists \in [Priority -> Seq(Task)] /\ ReadyOk(st, priority, lists, NULL)
  <2>1. CASE preempted
    <3>1. ReadyAsBefore(status, priority, NULL, st, priority, NULL, Task \ {current_task})
      BY <1>5 DEF ReadyAsBefore
    <3>2. st[current_task] = "READY" /\ status[current_task] # "READY"
      BY <1>4, <1>5, <2>1
    <3>3. ReadyOk(st, priority, rl_append(ready_lists, current_task, priority[current_task]), NULL)
      BY <1>4, <3>1, <3>2, ReadyJoin
    <3>4. rl_append(ready_lists, current_task, priority[current_task]) \in [Priority -> Seq(Task)]
      BY <1>4 DEF rl_append
    <3>5. QED
      BY <2>1, <3>3, <3>4
  <2>2. CASE ~preempted
    <3>1. ReadyAsBefore(status, priority, NULL, st, priority, NULL, Task)
      BY <1>5, <2>2 DEF ReadyAsBefore
    <3>2. ReadyOk(st, priority, ready_lists, NULL)
      BY <1>4, <3>1, ReadySame
    <3>3. QED
      BY <1>4, <2>2, <3>2
  <2>3. QED
    BY <2>1, <2>2
<1> HIDE DEF lists
<1>7. PICK p \in Priority : /\ lists[p] # <<>> /\ t = Head(lists[p])
                            /\ ready_lists' = [lists EXCEPT ![p] = Tail(@)]
  <2>1. st[Idle] = "READY" /\ Idle \in Task /\ priority[Idle] \in Priority /\ Idle # NULL
    BY <1>5, Types DEF LInv, RunInv
  <2>2. Idle \in ToSet(lists[priority[Idle]])
    BY <1>6, <2>1 DEF ReadyOk, Listed, ReadyAt
  <2>3. lists[priority[Idle]] # <<>>
    BY <2>2, EmptyRange
  <2>4. QED
    BY <1>1, <2>1, <2>3 DEF rl_pop_head, highest_ready_prio
<1>8. /\ st[t] = "READY" /\ ReadyOk(status', priority, ready_lists', NULL)
  <2>1. ReadyAsBefore(st, priority, NULL, status', priority, NULL, Task \ {t})
    BY <1>5 DEF ReadyAsBefore
  <2>2. status'[t] # "READY"
    BY <1>5
  <2>3. lists[p] # <<>> /\ t = Head(lists[p])
    BY <1>7
  <2>4. st[t] = "READY" /\ ReadyOk(status', priority, Popped(lists, p), NULL)
    BY <1>6, <2>1, <2>2, <2>3, ReadyPop
  <2>5. QED
    BY <1>7, <2>4 DEF Popped
<1>9. /\ \A u \in Task : status[u] \notin {"READY", "RUNNING"} => status'[u] = status[u]
      /\ \A u \in Task : status[u] \in {"READY", "RUNNING"} => status'[u] \in {"READY", "RUNNING"}
      /\ \A u \in Task : status'[u] = "RUNNING" => u = t
  BY <1>5, <1>8 DEF LInv, RunInv
<1>10. Listed(blocked_list, Parked(status', NULL)) /\ Listed(delayed_list, Sleeping(status', NULL))
  <2>1. Listed(blocked_list, Parked(status, NULL)) /\ Listed(delayed_list, Sleeping(status, NULL))
    BY <1>3 DEF LInv, Scheduler
  <2>2. QED
    BY <1>9, <2>1 DEF Parked, Sleeping, Listed
<1>11. Queues'
  <2>1. WaitAsBefore(status, wait_sem, status', wait_sem, Task)
    BY <1>9 DEF WaitAsBefore
  <2>2. QED
    BY <1>2, <2>1, QueuesSame DEF LInv, Queues
<1>12. DeadInv' /\ WaiterInv' /\ StayDead
  BY <1>2, <1>9 DEF LInv, DeadInv, Dead, WaiterInv, StayDead
<1>13. RunInv'
  <2>1. call'[Idle] = NoCall
    <3>1. call[Idle] = NoCall /\ NoCall.op = "none"
      BY DEF LInv, RunInv, NoCall
    <3>2. QED
      BY <1>1, <3>1, Types DEF v_syscall_deliver_result
  <2>2. status'[Idle] \in {"READY", "RUNNING"}
    BY <1>9, Types DEF LInv, RunInv
  <2>3. QED
    BY <1>1, <1>5, <1>9, <2>1, <2>2 DEF RunInv
<1>14. QED
  BY <1>2, <1>3, <1>8, <1>10, <1>11, <1>12, <1>13 DEF LInv, Scheduler
------------------------------------------------------------------------------
(* The invariant and what it says *)

\* Every task starts on the ready list of its base priority.
LEMMA InitLists == Init => LInv /\ NoMultiwait
<1> SUFFICES ASSUME Init PROVE LInv /\ NoMultiwait
  OBVIOUS
<1>1. Dying = NULL /\ HandlerInv
  BY User DEF Init, HandlerInv
<1>2. ReadyOk(status, priority, ready_lists, NULL)
  <2> SUFFICES ASSUME NEW p \in Priority
               PROVE  Listed(ready_lists[p], ReadyAt(status, priority, NULL, p))
    BY DEF ReadyOk
  <2>1. NoDup(ready_lists[p]) /\ ToSet(ready_lists[p]) = {t \in Task : BasePriority[t] = p}
    BY InitReadyAssumption DEF Init
  <2>2. \A t \in Task : status[t] = "READY" /\ priority[t] = BasePriority[t] /\ t # NULL
    BY Constants DEF Init
  <2>3. QED
    BY <2>1, <2>2 DEF Listed, ReadyAt
<1>3. /\ Listed(blocked_list, Parked(status, NULL)) /\ Listed(delayed_list, Sleeping(status, NULL))
  BY EmptyRange DEF Init, Listed, Parked, Sleeping
<1>4. Queues
  BY EmptyRange DEF Init, Queues, QueuesOk, Listed, Waiting
<1>5. NoMultiwait /\ DeadInv /\ WaiterInv
  BY DEF Init, NoMultiwait, DeadInv, Dead, WaiterInv
<1>6. RunInv
  BY Constants DEF Init, RunInv
<1>7. QED
  BY <1>1, <1>2, <1>3, <1>4, <1>5, <1>6 DEF LInv, Scheduler

\* The running task parks in v_wait.
ParksInWait == \E fds \in FdLists, n \in WaitTicks : v_wait_block_impl(current_task, fds, n)

\* Every step keeps the invariant, and none revives the dead: the park and the wakes of
\* v_wait and the timeouts are left to the lemmas that follow.
LEMMA OtherLists ==
    ASSUME ~MayRelock, IInv, LInv, [Next]_vars, ~ParksInWait, ~WakeObserver, ~Eject
    PROVE  LInv' /\ StayDead
<1>1. ASSUME NEW c \in Task, c = current_task, Syscall(c) PROVE LInv' /\ StayDead
  <2>1. ASSUME NEW s \in Sem, NEW n \in TakeTicks, v_semaphore_take(c, s, n)
        PROVE  LInv' /\ StayDead
    BY <2>1, TakeLists
  <2>2. ASSUME NEW s \in Sem, v_semaphore_give(c, s) PROVE LInv' /\ StayDead
    <3>1. handler = UserMode
      BY <2>2 DEF v_semaphore_give, Executing
    <3>2. pendsv' \/ ~pendsv
      BY <2>2 DEF v_semaphore_give, Executing
    <3>3. QED
      BY <2>2, <3>1, <3>2, GiveLists DEF v_semaphore_give
  <2>3. ASSUME NEW m \in Mutex, NEW n \in TakeTicks, v_mutex_lock(c, m, n)
        PROVE  LInv' /\ StayDead
    BY <2>3, LockLists
  <2>4. ASSUME NEW m \in Mutex, v_mutex_unlock(c, m) PROVE LInv' /\ StayDead
    BY <2>4, UnlockLists
  <2>5. ASSUME NEW n \in DelayTicks, task_delay(c, n) PROVE LInv' /\ StayDead
    BY <2>5, DelayLists
  <2>6. CASE \/ \E m \in Mutex : RecursiveRelock(c, m) \/ v_mutex_unlock_recursive(c, m)
             \/ task_yield(c) \/ v_wait_disarm_impl(c)
    BY <2>6, StillCalls
  <2>7. CASE v_task_exit_impl(c)
    BY <2>7, ExitLists
  <2>8. ASSUME NEW t \in Task, task_exit_request(c, t) PROVE LInv' /\ StayDead
    BY <2>8, KillLists
  <2>9. QED
    BY <1>1, <2>1, <2>2, <2>3, <2>4, <2>5, <2>6, <2>7, <2>8 DEF Syscall, ParksInWait
<1>2. ASSUME NEW s \in Sem, v_semaphore_give_from_isr(s) PROVE LInv' /\ StayDead
  <2>1. handler = UserMode /\ (pendsv' \/ ~pendsv)
    BY <1>2 DEF v_semaphore_give_from_isr
  <2>2. QED
    BY <1>2, <2>1, GiveLists DEF v_semaphore_give_from_isr
<1>3. CASE HandlerStep
  BY <1>3, HopLists, LockTakeLists, StillHandlers, SleeperLists, TeardownMutexLists,
     TeardownDoneLists DEF HandlerStep
<1>4. CASE v_kernel_tick
  BY <1>4, StillHandlers
<1>5. CASE PendSV
  BY <1>5, SwitchLists
<1>6. CASE idle_task_function
  BY <1>6, FreeLists
<1>7. CASE UNCHANGED vars
  <2>1. LInv'
    BY <1>7 DEF vars, LInv, Scheduler, Queues, RunInv, HandlerInv, DeadInv,
                WaiterInv, Dying
  <2>2. StayDead
    BY <1>7 DEF vars, StayDead
  <2>3. QED
    BY <2>1, <2>2
<1>8. current_task \in Task
  BY Types
<1>9. QED
  BY <1>1, <1>2, <1>3, <1>4, <1>5, <1>6, <1>7, <1>8 DEF Next, Interrupt

\* Without calls of v_wait nobody is ever inside one.
LEMMA NoMultiwaitStays ==
    ASSUME FdLists = {}, IInv, NoMultiwait, [Next]_vars
    PROVE  NoMultiwait'
<1>1. /\ in_multiwait \in [Task -> BOOLEAN] /\ observers \in [Sem -> Seq(Task)]
      /\ Unlink(<<>>, current_task) = <<>>
  BY EmptyRange DEF IInv, TypeOK, ObjTypeOK, Unlink
<1>2. CASE v_wait_disarm_impl(current_task)
  BY <1>1, <1>2 DEF v_wait_disarm_impl, mwait_disarm, NoMultiwait
<1>3. CASE Eject
  <2>1. PICK i \in DOMAIN blocked_list :
          EjectWaiter(blocked_list[i]) \/ EjectMultiwaiter(blocked_list[i])
    BY <1>3 DEF Eject
  <2>2. UNCHANGED in_multiwait \/ in_multiwait' = [in_multiwait EXCEPT ![blocked_list[i]] = FALSE]
    BY <2>1 DEF EjectWaiter, EjectMultiwaiter
  <2>3. QED
    BY <1>1, <1>3, <2>2 DEF Eject, NoMultiwait
<1>4. CASE TeardownDone
  <2>1. handler.task \in Task
    BY <1>4, TeardownTask DEF TeardownDone, IInv
  <2>2. UNCHANGED <<in_multiwait, observers>>
    BY <1>4, <2>1 DEF TeardownDone, NoMultiwait
  <2>3. QED
    BY <2>2 DEF NoMultiwait
<1>5. ~WakeObserver
  BY NoObserver
<1>6. CASE /\ Syscall(current_task) /\ ~v_wait_disarm_impl(current_task)
  <2>1. UNCHANGED mwaitVars
    BY <1>6 DEF Syscall, v_semaphore_take, v_semaphore_give, v_mutex_lock, v_mutex_unlock,
         mutex_unlock_common, RecursiveRelock, v_mutex_unlock_recursive, task_delay, task_yield,
         v_task_exit_impl, task_exit_request
  <2>2. QED
    BY <2>1 DEF NoMultiwait
<1>7. CASE /\ Interrupt \/ HandlerStep \/ PendSV \/ idle_task_function \/ UNCHANGED vars
           /\ ~Eject /\ ~TeardownDone /\ ~WakeObserver
  <2>1. UNCHANGED mwaitVars
    BY <1>7 DEF Interrupt, HandlerStep, v_kernel_tick, v_semaphore_give_from_isr, InheritHop,
         LockTake, ObserversDone, WakeSleeper, SleepersDone, TickDone, TeardownMutex, PendSV,
         idle_task_function, vars
  <2>2. QED
    BY <2>1 DEF NoMultiwait
<1>8. QED
  BY <1>2, <1>3, <1>4, <1>5, <1>6, <1>7 DEF Next

\* Every step of a system without v_wait keeps the invariant, and none revives the dead.
LEMMA StepLists ==
    ASSUME FdLists = {}, ~MayRelock, IInv, LInv, NoMultiwait, [Next]_vars
    PROVE  LInv' /\ NoMultiwait' /\ StayDead
<1>1. ~ParksInWait /\ ~WakeObserver
  BY NoObserver DEF ParksInWait
<1>2. LInv' /\ StayDead
  BY <1>1, OtherLists, EjectLists
<1>3. QED
  BY <1>2, NoMultiwaitStays

\* What the invariant says of the lists.
LEMMA ListsFit ==
    ASSUME IInv, LInv
    PROVE  ListsAgree
<1>1. \A t \in Task : InTeardown(t) <=> t = Dying
  BY Types DEF InTeardown, Dying
<1>2. QED
  BY <1>1 DEF LInv, Scheduler, RunInv, ReadyOk, Listed, ReadyAt, Parked, Sleeping, ListsAgree

\* The lists agree with the tasks, for any number of tasks, semaphores and mutexes: in a
\* system whose tasks do not call v_wait (FdLists = {}) and lock no mutex they own
\* (~MayRelock), each task is on the one list its status names, each wait queue holds the
\* tasks blocked on it, and nothing points at a freed TCB.
THEOREM ListsSafe ==
    ASSUME FdLists = {}, ~MayRelock
    PROVE  Spec => []ListsSound
<1>1. ASSUME IInv, LInv, NoMultiwait PROVE ListsSound
  <2>2. ListsAgree
    BY <1>1, ListsFit
  <2>3. WaitQueuesAgree
    BY <1>1 DEF LInv, Queues, QueuesOk, Listed, Waiting, NoMultiwait, WaitQueuesAgree
  <2>4. NoDangling
    <3> SUFFICES ASSUME NEW t \in Task, status[t] = "FREED"
                 PROVE  /\ \A s \in Obj : t \notin ToSet(wait_q[s])
                        /\ \A m \in Mutex : owner[m] # t
                        /\ \A s \in Sem : t \notin ToSet(observers[s])
                        /\ \A p \in Priority : t \notin ToSet(ready_lists[p])
      BY DEF NoDangling
    <3>1. \A s \in Obj : t \notin ToSet(wait_q[s])
      BY <2>3 DEF WaitQueuesAgree
    <3>2. \A m \in Mutex : owner[m] # t
      BY <1>1, EmptyRange DEF LInv, DeadInv, Dead, IInv, MutexOwnership
    <3>3. \A s \in Sem : t \notin ToSet(observers[s])
      BY <1>1, EmptyRange DEF NoMultiwait
    <3>4. \A p \in Priority : t \notin ToSet(ready_lists[p])
      BY <2>2 DEF ListsAgree
    <3>5. QED
      BY <3>1, <3>2, <3>3, <3>4
  <2>5. QED
    BY <2>2, <2>3, <2>4 DEF ListsSound
<1>2. IInv /\ LInv /\ NoMultiwait /\ [Next]_vars => LInv' /\ NoMultiwait'
  BY StepLists
<1>3. QED
  BY <1>1, <1>2, InitLists, Inductive, PTL DEF Spec

\* The end of a task is final, for any number of tasks: under the same hypotheses no
\* step, a wake, a timeout or a hand-over that comes late among them, schedules a task
\* that was torn down.
THEOREM DeadSafe ==
    ASSUME FdLists = {}, ~MayRelock
    PROVE  Spec => DeadStaysDead
<1>1. IInv /\ LInv /\ NoMultiwait /\ [Next]_vars => LInv' /\ NoMultiwait'
  BY StepLists
<1>2. IInv /\ LInv /\ NoMultiwait /\ [Next]_vars => [StayDead]_vars
  BY StepLists
<1>3. QED
  BY <1>1, <1>2, InitLists, Inductive, PTL DEF Spec, DeadStaysDead, StayDead
------------------------------------------------------------------------------
(***************************************************************************)
(* v_wait, in a system whose tasks are not killed and whose takes and      *)
(* locks have no deadline: what else can happen is what kernel_undead and  *)
(* kernel_stale show.                                                      *)
(***************************************************************************)

\* What a task is inside says where it is parked: wait_sem is set only while it is
\* blocked there; in v_wait it is blocked, or woken with a result that says so, and it
\* keeps its nodes until it has disarmed them.
TaskOk(t) ==
    /\ wait_sem[t] # NULL =>
         status[t] = "BLOCKED" /\ ~in_multiwait[t] /\ delay_ticks[t] = NoDeadline
    /\ in_multiwait[t] => VAIOS_IPC_FD /\ status[t] = "BLOCKED" /\ call[t].op = "wait"
    /\ call[t].op = "wait" =>
         \/ in_multiwait[t]
         \/ status[t] = "READY" /\ syscall_result[t] \in {WAIT_TIMEOUT, V_MWAIT_WOKEN}
    /\ call[t].op = "disarm" =>
         status[t] \in {"READY", "RUNNING"} /\ syscall_result[t] = NoResult
    /\ status[t] # "READY" => syscall_result[t] = NoResult
    /\ wnodes[t] # <<>> => call[t].op \in {"wait", "disarm"}

\* An observer list links, once each, the tasks with a node for its semaphore.
NodesOk ==
    /\ \A s \in Sem : NoDup(observers[s])
    /\ \A t \in Task, s \in Sem : t \in ToSet(observers[s]) <=> s \in ToSet(wnodes[t])

\* Semaphore s counts 0, or its observers are being woken.
Quiescent(s) == count[s] = 0 \/ (handler.at = "observers" /\ handler.obj = s)

\* Nobody in v_wait watches a semaphore that counts, unless about to be woken.
WatchOk == \A t \in Task : in_multiwait[t] => \A s \in ToSet(wnodes[t]) : Quiescent(s)

\* No handler tears a task down, and a lock in progress has the ticks it was given.
WaitHandler ==
    /\ handler.at # "teardown"
    /\ handler.at = "inherit" => handler.ticks \in TakeTicks

WInv == (\A t \in Task : TaskOk(t)) /\ NodesOk /\ WatchOk /\ WaitHandler

\* Nobody is killed, and who takes or locks waits for ever or not at all.
Untimed == MayExit = {} /\ TakeTicks \subseteq {0, V_WAIT_FOREVER}
------------------------------------------------------------------------------
(* The lists *)

\* The types of what v_wait keeps.
LEMMA WaitTypes ==
    ASSUME IInv
    PROVE  /\ in_multiwait \in [Task -> BOOLEAN] /\ wnodes \in [Task -> Seq(Sem)]
           /\ observers \in [Sem -> Seq(Task)] /\ count \in [Obj -> Nat]
           /\ syscall_result \in [Task -> Result] /\ delay_ticks \in [Task -> Int]
           /\ handler \in Handler
BY DEF IInv, TypeOK, TaskTypeOK, ObjTypeOK, CallTypeOK

\* The wait queues when a task that waits for no object becomes blocked or ready.
LEMMA QueuesIgnore ==
    ASSUME NEW st, NEW ws, NEW wq, QueuesOk(st, ws, wq), NEW t \in Task, ws[t] \notin Obj,
           NEW st2, WaitAsBefore(st, ws, st2, ws, Task \ {t})
    PROVE  QueuesOk(st2, ws, wq)
<1> SUFFICES ASSUME NEW s \in Obj PROVE Listed(wq[s], Waiting(st2, ws, s))
  BY DEF QueuesOk
<1>1. Waiting(st2, ws, s) = Waiting(st, ws, s)
  BY DEF Waiting, WaitAsBefore
<1>2. QED
  BY <1>1 DEF QueuesOk

\* A task is parked in v_wait: it is on no wait queue.
LEMMA WaitBlockLists ==
    ASSUME IInv, LInv, WInv, NEW c \in Task, NEW fds, NEW n, v_wait_block_impl(c, fds, n)
    PROVE  LInv' /\ StayDead
<1>1. /\ status[c] = "RUNNING" /\ c # Idle /\ Dying = NULL /\ handler' = UserMode
      /\ wait_sem[c] = NULL /\ wait_sem[c] \notin Obj
  BY Caller, Types DEF v_wait_block_impl, WInv, TaskOk
<1>2. /\ Park(c, n, "wait", NULL) /\ status' = [status EXCEPT ![c] = "BLOCKED"]
      /\ UNCHANGED <<priority, ready_lists, delayed_list, current_task, held_mutexes>>
      /\ UNCHANGED <<wait_sem, wait_q, owner>>
  BY DEF v_wait_block_impl, Park
<1>3. \A u \in Task \ {c} : status'[u] = status[u]
  BY <1>2, Types
<1>4. Queues'
  <2>1. WaitAsBefore(status, wait_sem, status', wait_sem, Task \ {c})
    BY <1>3 DEF WaitAsBefore
  <2>2. QueuesOk(status, wait_sem, wait_q)
    BY DEF LInv, Queues
  <2>3. QueuesOk(status', wait_sem, wait_q)
    BY <1>1, <2>1, <2>2, QueuesIgnore
  <2>4. QED
    BY <1>2, <2>3 DEF Queues
<1>5. WaiterInv'
  BY <1>1, <1>2, <1>3, Types DEF LInv, WaiterInv
<1>6. QED
  BY <1>1, <1>2, <1>4, <1>5, ParkStep

\* A task in v_wait is woken: it leaves no wait queue.
LEMMA MultiwaiterLists ==
    ASSUME IInv, LInv, WInv, NEW t \in Task, in_multiwait[t], NEW r, MakeReady(t, r),
           UNCHANGED <<priority, delayed_list, current_task, wait_sem, wait_q, owner>>,
           UNCHANGED <<held_mutexes, call, pendsv, handler>>,
           handler.at \notin {"inherit", "teardown"}
    PROVE  LInv' /\ StayDead
<1>1. status[t] = "BLOCKED" /\ wait_sem[t] = NULL /\ wait_sem[t] \notin Obj
  BY Types DEF WInv, TaskOk
<1>2. /\ status'[t] = "READY" /\ blocked_list' = Unlink(blocked_list, t)
      /\ \A u \in Task \ {t} : status'[u] = status[u]
      /\ ready_lists' = rl_append(ready_lists, t, priority[t])
  BY Types DEF MakeReady
<1>3. Dying = NULL /\ Dying' = NULL /\ HandlerInv' /\ call'[Idle] = NoCall /\ t # Dying
  BY NobodyDying, NeitherAfter, Types DEF LInv, RunInv
<1>4. Queues'
  <2>1. WaitAsBefore(status, wait_sem, status', wait_sem, Task \ {t})
    BY <1>2 DEF WaitAsBefore
  <2>2. QueuesOk(status, wait_sem, wait_q)
    BY DEF LInv, Queues
  <2>3. QueuesOk(status', wait_sem, wait_q)
    BY <1>1, <2>1, <2>2, QueuesIgnore
  <2>4. QED
    BY <2>3 DEF Queues
<1>5. DeadInv' /\ WaiterInv'
  BY <1>2 DEF LInv, DeadInv, Dead, WaiterInv
<1>6. QED
  BY <1>1, <1>2, <1>3, <1>4, <1>5, ReadyStep

\* A give wakes a task that is in v_wait.
LEMMA WakeObserverFacts ==
    ASSUME IInv, WakeObserver
    PROVE  /\ handler.at = "observers" /\ handler.obj \in Sem
           /\ \E t \in Task : in_multiwait[t] /\ WakeMultiwaiter(t)
           /\ UNCHANGED <<priority, delayed_list, current_task, wait_sem, wait_q, owner, count>>
           /\ UNCHANGED <<held_mutexes, wnodes, observers, call, pendsv, handler>>
<1>1. handler.at = "observers" /\ handler.obj \in Sem
  BY WaitTypes DEF WakeObserver, Handler
<1>2. PICK i \in DOMAIN observers[handler.obj] :
        in_multiwait[observers[handler.obj][i]] /\ WakeMultiwaiter(observers[handler.obj][i])
  BY DEF WakeObserver
<1>3. observers[handler.obj][i] \in Task
  BY <1>1, WaitTypes, LenProperties
<1>4. QED
  BY <1>1, <1>2, <1>3 DEF WakeObserver

\* A timeout wakes a task that is in v_wait, since no other blocked task has a deadline.
LEMMA EjectsMultiwaiter ==
    ASSUME IInv, LInv, WInv, Eject
    PROVE  /\ handler.at = "waiters"
           /\ \E t \in Task : /\ in_multiwait[t] /\ EjectMultiwaiter(t)
                              /\ delay_ticks' = [delay_ticks EXCEPT ![t] = NoDeadline]
           /\ UNCHANGED <<priority, delayed_list, current_task, wait_sem, wait_q, owner, count>>
           /\ UNCHANGED <<held_mutexes, wnodes, observers, call, pendsv, handler>>
<1>1. PICK i \in DOMAIN blocked_list :
        /\ Expired(blocked_list[i])
        /\ EjectWaiter(blocked_list[i]) \/ EjectMultiwaiter(blocked_list[i])
        /\ delay_ticks' = [delay_ticks EXCEPT ![blocked_list[i]] = NoDeadline]
  BY DEF Eject, FirstExpired
<1>2. blocked_list[i] \in Task
  BY Types, LenProperties
<1>3. wait_sem[blocked_list[i]] = NULL /\ in_multiwait[blocked_list[i]]
  BY <1>1, <1>2 DEF Expired, WInv, TaskOk, NoDeadline, Past
<1>4. EjectMultiwaiter(blocked_list[i])
  BY <1>1, <1>3 DEF EjectWaiter
<1>5. QED
  BY <1>1, <1>2, <1>3, <1>4 DEF Eject, EjectMultiwaiter

\* Every step keeps the lists.
LEMMA WaitLists ==
    ASSUME ~MayRelock, IInv, LInv, WInv, [Next]_vars
    PROVE  LInv'
<1>1. CASE ParksInWait
  BY <1>1, WaitBlockLists, Types DEF ParksInWait
<1>2. CASE WakeObserver
  BY <1>2, WakeObserverFacts, MultiwaiterLists DEF WakeMultiwaiter
<1>3. CASE Eject
  BY <1>3, EjectsMultiwaiter, MultiwaiterLists DEF EjectMultiwaiter
<1>4. QED
  BY <1>1, <1>2, <1>3, OtherLists
------------------------------------------------------------------------------
(* The tasks in v_wait *)

\* Task t is as it was, but for its priority.
Kept(t) ==
    /\ status'[t] = status[t] /\ wait_sem'[t] = wait_sem[t] /\ call'[t] = call[t]
    /\ delay_ticks'[t] = delay_ticks[t] /\ syscall_result'[t] = syscall_result[t]

\* A step that leaves the nodes alone.
LEMMA WaitFrame ==
    ASSUME IInv, WInv, UNCHANGED mwaitVars, \A t \in Task : Kept(t) \/ TaskOk(t)', WaitHandler',
           handler.at # "observers",
           \A s \in Sem : VAIOS_IPC_FD /\ count[s] = 0 => Quiescent(s)'
    PROVE  WInv'
<1>1. \A t \in Task : TaskOk(t)'
  BY DEF WInv, TaskOk, Kept
<1>2. NodesOk'
  BY DEF WInv, NodesOk
<1>3. WatchOk'
  <2> SUFFICES ASSUME NEW t \in Task, in_multiwait'[t], NEW s \in ToSet(wnodes[t])
               PROVE  Quiescent(s)'
    BY DEF WatchOk
  <2>1. s \in Sem
    BY WaitTypes, LenProperties DEF ToSet
  <2>2. VAIOS_IPC_FD /\ count[s] = 0
    BY DEF WInv, TaskOk, WatchOk, Quiescent
  <2>3. QED
    BY <2>1, <2>2
<1>4. QED
  BY <1>1, <1>2, <1>3 DEF WInv

\* The task that makes a system call is inside none and has no nodes.
LEMMA CallerFree ==
    ASSUME IInv, LInv, WInv, NEW c \in Task, Executing(c)
    PROVE  /\ status[c] = "RUNNING" /\ call[c].op = "none" /\ wait_sem[c] = NULL
           /\ ~in_multiwait[c] /\ wnodes[c] = <<>> /\ syscall_result[c] = NoResult
           /\ handler.at = "user" /\ handler.at # "observers"
BY Caller, WaitTypes DEF Executing, NoCall, WInv, TaskOk

\* A task that waits for an object is woken.
LEMMA WaiterWoken ==
    ASSUME IInv, WInv, NEW w \in Task, status[w] = "BLOCKED", wait_sem[w] # NULL, NEW r,
           MakeReady(w, r), wait_sem' = [wait_sem EXCEPT ![w] = NULL],
           UNCHANGED <<delay_ticks, mwaitVars>>, call'[w] = call[w]
    PROVE  /\ TaskOk(w)'
           /\ \A u \in Task \ {w} : call'[u] = call[u] => Kept(u)
<1>1. /\ status' = [status EXCEPT ![w] = "READY"]
      /\ syscall_result' = [syscall_result EXCEPT ![w] = r]
  BY DEF MakeReady
<1>2. /\ ~in_multiwait[w] /\ call[w].op \notin {"wait", "disarm"} /\ wnodes[w] = <<>>
  BY DEF WInv, TaskOk
<1>3. TaskOk(w)'
  BY <1>1, <1>2, Types, WaitTypes DEF TaskOk
<1>4. QED
  BY <1>1, <1>3, Types, WaitTypes DEF Kept

\* The running task blocks on an object, for ever.
LEMMA BlockOnWaits ==
    ASSUME IInv, WInv, NEW c \in Task, status[c] = "RUNNING", NEW s \in Obj, NEW op,
           op \notin {"wait", "disarm"}, call[c].op # "wait", call[c].op # "disarm",
           BlockOn(c, s, V_WAIT_FOREVER, op), UNCHANGED <<syscall_result, mwaitVars>>
    PROVE  TaskOk(c)' /\ \A u \in Task \ {c} : Kept(u)
<1>1. /\ status' = [status EXCEPT ![c] = "BLOCKED"]
      /\ delay_ticks' = [delay_ticks EXCEPT ![c] = NoDeadline]
      /\ call' = [call EXCEPT ![c] = [op |-> op, obj |-> s]]
      /\ wait_sem' = [wait_sem EXCEPT ![c] = s]
  BY DEF BlockOn, Park, v_wake_deadline
<1>2. ~in_multiwait[c] /\ wnodes[c] = <<>> /\ syscall_result[c] = NoResult
  BY DEF WInv, TaskOk
<1>3. /\ status'[c] = "BLOCKED" /\ delay_ticks'[c] = NoDeadline /\ call'[c].op = op
  BY <1>1, Types, WaitTypes
<1>4. TaskOk(c)'
  BY <1>2, <1>3 DEF TaskOk
<1>5. QED
  BY <1>1, <1>4, Types, WaitTypes DEF Kept

\* A take.
LEMMA TakeWaits ==
    ASSUME Untimed, IInv, LInv, WInv, NEW c \in Task, NEW s \in Sem, NEW n \in TakeTicks,
           v_semaphore_take(c, s, n)
    PROVE  WInv'
<1>1. /\ status[c] = "RUNNING" /\ call[c].op = "none" /\ handler.at = "user" /\ s \in Obj
      /\ UNCHANGED <<mwaitVars, syscall_result, handler>>
  BY CallerFree, Types DEF v_semaphore_take
<1>2. WaitHandler' /\ handler.at # "observers"
  BY <1>1 DEF WInv, WaitHandler
<1>3. \A t \in Task : Kept(t) \/ TaskOk(t)'
  <2>1. CASE BlockOn(c, s, n, "take") /\ n # 0
    <3>1. n = V_WAIT_FOREVER
      BY <2>1 DEF Untimed
    <3>2. TaskOk(c)' /\ \A u \in Task \ {c} : Kept(u)
      BY <1>1, <2>1, <3>1, BlockOnWaits
    <3>3. QED
      BY <3>2
  <2>2. CASE UNCHANGED <<taskVars, wait_sem, call>>
    BY <1>1, <2>2 DEF Kept
  <2>3. QED
    BY <2>1, <2>2 DEF v_semaphore_take
<1>4. \A x \in Sem : count[x] = 0 => count'[x] = 0
  <2>1. CASE UNCHANGED count
    BY <2>1
  <2>2. CASE count[s] > 0 /\ count' = [count EXCEPT ![s] = @ - 1]
    BY <1>1, <2>2, WaitTypes
  <2>3. QED
    BY <2>1, <2>2 DEF v_semaphore_take
<1>5. \A x \in Sem : VAIOS_IPC_FD /\ count[x] = 0 => Quiescent(x)'
  BY <1>4 DEF Quiescent
<1>6. QED
  BY <1>1, <1>2, <1>3, <1>5, WaitFrame

\* A give, by a task or an interrupt: its observers are woken before anything else runs.
LEMMA GiveWaits ==
    ASSUME IInv, LInv, WInv, NEW s \in Sem, handler = UserMode, semaphore_give_common(s),
           UNCHANGED <<delay_ticks, mwaitVars, call>>
    PROVE  WInv'
<1>1. handler.at = "user" /\ handler.at # "observers" /\ s \in Obj
  BY User, Types
<1>0. UNCHANGED mwaitVars /\ UNCHANGED <<delay_ticks, mwaitVars>> /\ call' = call
  OBVIOUS
<1>2. CASE wait_q[s] # <<>>
  <2>0. PICK w \in Task : w = Head(wait_q[s])
    BY <1>1, <1>2, FirstWaiter
  <2>1. /\ wait_sem' = [wait_sem EXCEPT ![w] = NULL] /\ MakeReady(w, VA_PASS)
        /\ UNCHANGED <<count, handler>>
    BY <1>2, <2>0 DEF semaphore_give_common
  <2>2. status[w] = "BLOCKED" /\ wait_sem[w] # NULL
    BY <1>1, <1>2, <2>0, FirstWaiter, Types
  <2>3. TaskOk(w)' /\ \A u \in Task \ {w} : Kept(u)
    BY <1>0, <2>1, <2>2, WaiterWoken
  <2>4. WaitHandler' /\ \A x \in Sem : VAIOS_IPC_FD /\ count[x] = 0 => Quiescent(x)'
    BY <1>1, <2>1 DEF WInv, WaitHandler, Quiescent
  <2>5. QED
    BY <1>0, <1>1, <2>3, <2>4, WaitFrame
<1>3. CASE wait_q[s] = <<>>
  <2> DEFINE h == [UserMode EXCEPT !.at = "observers", !.obj = s]
  <2>1. /\ UNCHANGED <<status, wait_sem, syscall_result>>
        /\ count' = [count EXCEPT ![s] = @ + 1]
        /\ handler' = IF VAIOS_IPC_FD THEN h ELSE handler
    BY <1>3 DEF semaphore_give_common
  <2>2. h.at = "observers" /\ h.obj = s
    BY DEF UserMode
  <2> HIDE DEF h
  <2>3. WaitHandler'
    BY <1>1, <2>1, <2>2 DEF WaitHandler
  <2>4. \A x \in Sem : VAIOS_IPC_FD /\ count[x] = 0 => Quiescent(x)'
    BY <2>1, <2>2, WaitTypes DEF Quiescent
  <2>5. \A t \in Task : Kept(t)
    BY <2>1 DEF Kept
  <2>6. QED
    BY <1>1, <2>3, <2>4, <2>5, WaitFrame
<1>4. QED
  BY <1>2, <1>3

\* A lock begins.
LEMMA LockWaits ==
    ASSUME IInv, LInv, WInv, NEW c \in Task, NEW m \in Mutex, NEW n \in TakeTicks,
           v_mutex_lock(c, m, n)
    PROVE  WInv'
<1>1. /\ status[c] = "RUNNING" /\ wait_sem[c] = NULL /\ ~in_multiwait[c] /\ wnodes[c] = <<>>
      /\ syscall_result[c] = NoResult /\ handler.at # "observers"
  BY CallerFree DEF v_mutex_lock
<1>2. /\ call' = [call EXCEPT ![c] = [op |-> "lock", obj |-> m]]
      /\ handler'.at = "inherit" /\ handler'.ticks = n
      /\ UNCHANGED <<status, wait_sem, delay_ticks, syscall_result, mwaitVars, count>>
  BY DEF v_mutex_lock
<1>3. call'[c].op = "lock" /\ \A u \in Task \ {c} : call'[u] = call[u]
  BY <1>2, Types
<1>4. TaskOk(c)' /\ \A u \in Task \ {c} : Kept(u)
  BY <1>1, <1>2, <1>3 DEF TaskOk, Kept
<1>5. WaitHandler' /\ \A x \in Sem : VAIOS_IPC_FD /\ count[x] = 0 => Quiescent(x)'
  BY <1>2 DEF WaitHandler, Quiescent
<1>6. QED
  BY <1>1, <1>2, <1>4, <1>5, WaitFrame

\* The end of a call of the running task that has no nodes.
LEMMA CallEnds ==
    ASSUME WInv, NEW c \in Task, call[c].op \notin {"wait", "disarm"},
           call'[c].op \notin {"wait", "disarm"}, UNCHANGED mwaitVars,
           status'[c] = status[c], wait_sem'[c] = wait_sem[c],
           delay_ticks'[c] = delay_ticks[c], syscall_result'[c] = syscall_result[c]
    PROVE  TaskOk(c)'
BY DEF WInv, TaskOk

\* An unlock.
LEMMA UnlockWaits ==
    ASSUME IInv, LInv, WInv, NEW c \in Task, NEW m \in Mutex, v_mutex_unlock(c, m)
    PROVE  WInv'
<1>1. /\ handler.at = "user" /\ current_task = c /\ c # Idle /\ ~pendsv
      /\ call[c].op \notin {"wait", "disarm"} /\ m \in Obj
  BY User, Types DEF v_mutex_unlock, Executing, NoCall, LInv, RunInv
<1>2. status[c] = "RUNNING"
  BY <1>1 DEF LInv, RunInv
<1>3. /\ call' = [call EXCEPT ![c] = NoCall] /\ UNCHANGED <<delay_ticks, mwaitVars, handler>>
      /\ \E held : HandOver(m, held)
  BY DEF v_mutex_unlock, mutex_unlock_common
<1>4. call'[c].op = "none" /\ \A u \in Task \ {c} : call'[u] = call[u]
  BY <1>3, Types DEF NoCall
<1>5. count' = count \/ count' = [count EXCEPT ![m] = @ + 1]
  BY <1>3 DEF HandOver
<1>6. \A x \in Sem : count'[x] = count[x]
  BY <1>5, Types, WaitTypes
<1>7. WaitHandler' /\ \A x \in Sem : VAIOS_IPC_FD /\ count[x] = 0 => Quiescent(x)'
  BY <1>3, <1>6 DEF WInv, WaitHandler, Quiescent
<1>8. \A t \in Task : Kept(t) \/ TaskOk(t)'
  <2>1. CASE wait_q[m] # <<>>
    <3>1. PICK w \in Task : w = Head(wait_q[m])
      BY <1>1, <2>1, FirstWaiter
    <3>2. wait_sem' = [wait_sem EXCEPT ![w] = NULL] /\ MakeReady(w, VA_PASS)
      BY <1>3, <2>1, <3>1 DEF HandOver
    <3>3. status[w] = "BLOCKED" /\ wait_sem[w] # NULL /\ w # c
      BY <1>1, <1>2, <2>1, <3>1, FirstWaiter, Types
    <3>4. UNCHANGED <<delay_ticks, mwaitVars>> /\ call'[w] = call[w]
      BY <1>3, <1>4, <3>3
    <3>5. TaskOk(w)' /\ \A u \in Task \ {w} : call'[u] = call[u] => Kept(u)
      BY <3>2, <3>3, <3>4, WaiterWoken
    <3>6. /\ status'[c] = status[c] /\ wait_sem'[c] = wait_sem[c]
          /\ syscall_result'[c] = syscall_result[c] /\ delay_ticks'[c] = delay_ticks[c]
      BY <1>3, <3>2, <3>3, Types, WaitTypes DEF MakeReady
    <3>7. TaskOk(c)'
      BY <1>1, <1>3, <1>4, <3>6, CallEnds
    <3>8. QED
      BY <1>4, <3>5, <3>7
  <2>2. CASE wait_q[m] = <<>>
    <3>1. UNCHANGED <<status, wait_sem, syscall_result>>
      BY <1>3, <2>2 DEF HandOver
    <3>2. TaskOk(c)'
      BY <1>1, <1>3, <1>4, <3>1, CallEnds
    <3>3. QED
      BY <1>3, <1>4, <3>1, <3>2 DEF Kept
  <2>3. QED
    BY <2>1, <2>2
<1>9. handler.at # "observers" /\ UNCHANGED mwaitVars
  BY <1>1, <1>3
<1>10. QED
  BY <1>7, <1>8, <1>9, WaitFrame

\* The calls that move nobody.
LEMMA StillWaits ==
    ASSUME IInv, LInv, WInv, NEW c \in Task,
           \/ \E m \in Mutex : RecursiveRelock(c, m) \/ v_mutex_unlock_recursive(c, m)
           \/ task_yield(c)
    PROVE  WInv'
<1>1. call[c].op = "none" /\ handler.at # "observers"
  BY CallerFree DEF RecursiveRelock, v_mutex_unlock_recursive, task_yield
<1>2. /\ UNCHANGED <<status, wait_sem, delay_ticks, syscall_result, mwaitVars, count, handler>>
      /\ call' = call \/ \E m \in Mutex : call' = [call EXCEPT ![c] = [op |-> "unlock", obj |-> m]]
  BY DEF RecursiveRelock, v_mutex_unlock_recursive, task_yield
<1>3. call'[c].op \notin {"wait", "disarm"} /\ \A u \in Task \ {c} : call'[u] = call[u]
  BY <1>1, <1>2, Types
<1>4. TaskOk(c)'
  BY <1>1, <1>2, <1>3, CallEnds
<1>5. WaitHandler' /\ \A x \in Sem : VAIOS_IPC_FD /\ count[x] = 0 => Quiescent(x)'
  BY <1>2 DEF WInv, WaitHandler, Quiescent
<1>6. \A t \in Task : Kept(t) \/ TaskOk(t)'
  BY <1>2, <1>3, <1>4 DEF Kept
<1>7. QED
  BY <1>1, <1>2, <1>5, <1>6, WaitFrame

\* The running task goes to sleep.
LEMMA DelayWaits ==
    ASSUME IInv, LInv, WInv, NEW c \in Task, NEW n, task_delay(c, n)
    PROVE  WInv'
<1>1. /\ call[c].op = "none" /\ handler.at # "observers" /\ wait_sem[c] = NULL
      /\ ~in_multiwait[c] /\ wnodes[c] = <<>> /\ syscall_result[c] = NoResult
  BY CallerFree DEF task_delay
<1>2. /\ UNCHANGED <<wait_sem, call, syscall_result, mwaitVars, count, handler>>
      /\ status' = [status EXCEPT ![c] = "DELAYED"] /\ delay_ticks' = [delay_ticks EXCEPT ![c] = n]
  BY DEF task_delay
<1>3. TaskOk(c)'
  BY <1>1, <1>2 DEF TaskOk
<1>4. \A u \in Task \ {c} : Kept(u)
  BY <1>2, Types, WaitTypes DEF Kept
<1>5. WaitHandler' /\ \A x \in Sem : VAIOS_IPC_FD /\ count[x] = 0 => Quiescent(x)'
  BY <1>2 DEF WInv, WaitHandler, Quiescent
<1>6. QED
  BY <1>1, <1>2, <1>3, <1>4, <1>5, WaitFrame

\* The tick, and the ends of the kernel's loops over sleepers and waiters.
LEMMA TickWaits ==
    ASSUME IInv, LInv, WInv, v_kernel_tick \/ SleepersDone \/ TickDone
    PROVE  WInv'
<1>1. /\ handler.at \notin {"observers", "inherit", "teardown"}
      /\ handler'.at \notin {"observers", "inherit", "teardown"}
      /\ UNCHANGED <<status, wait_sem, call, syscall_result, mwaitVars, count>>
  BY User DEF v_kernel_tick, SleepersDone, TickDone, UserMode
<1>2. \A t \in Task : delay_ticks'[t] = delay_ticks[t]
                      \/ (delay_ticks[t] # NoDeadline /\ wait_sem[t] = NULL)
  <2>1. CASE v_kernel_tick
    <3> SUFFICES ASSUME NEW t \in Task
                 PROVE  delay_ticks'[t] = delay_ticks[t]
                        \/ (delay_ticks[t] # NoDeadline /\ wait_sem[t] = NULL)
      OBVIOUS
    <3>1. delay_ticks'[t] = IF delay_ticks[t] >= 0 THEN delay_ticks[t] - 1 ELSE delay_ticks[t]
      BY <2>1 DEF v_kernel_tick
    <3>2. delay_ticks[t] >= 0 => delay_ticks[t] # NoDeadline
      BY DEF NoDeadline
    <3>3. QED
      BY <3>1, <3>2 DEF WInv, TaskOk
  <2>2. CASE SleepersDone \/ TickDone
    BY <2>2 DEF SleepersDone, TickDone
  <2>3. QED
    BY <2>1, <2>2
<1>3. \A t \in Task : Kept(t) \/ TaskOk(t)'
  BY <1>1, <1>2 DEF WInv, TaskOk, Kept
<1>4. WaitHandler' /\ \A x \in Sem : VAIOS_IPC_FD /\ count[x] = 0 => Quiescent(x)'
  BY <1>1 DEF WaitHandler, Quiescent
<1>5. QED
  BY <1>1, <1>3, <1>4, WaitFrame

\* A hop of the priority-inheritance walk.
LEMMA HopWaits ==
    ASSUME IInv, WInv, InheritHop
    PROVE  WInv'
<1>1. /\ handler.at = "inherit" /\ handler.ticks \in TakeTicks /\ handler.at # "observers"
      /\ UNCHANGED <<status, wait_sem, call, delay_ticks, syscall_result, mwaitVars, count>>
  BY DEF InheritHop, WInv, WaitHandler
<1>2. \/ handler' = [handler EXCEPT !.at = "panic"]
      \/ handler'.at = "inherit" /\ handler'.ticks = handler.ticks
  BY DEF InheritHop
<1>3. handler'.at = "panic" \/ (handler'.at = "inherit" /\ handler'.ticks = handler.ticks)
  BY <1>2, WaitTypes DEF Handler
<1>4. WaitHandler'
  BY <1>1, <1>3 DEF WaitHandler
<1>5. \A x \in Sem : VAIOS_IPC_FD /\ count[x] = 0 => Quiescent(x)'
  BY <1>1 DEF Quiescent
<1>6. \A t \in Task : Kept(t)
  BY <1>1 DEF Kept
<1>7. QED
  BY <1>1, <1>4, <1>5, <1>6, WaitFrame

\* A lock ends: the caller owns the mutex, gives up or blocks for ever.
LEMMA LockTakeWaits ==
    ASSUME Untimed, IInv, LInv, WInv, LockTake
    PROVE  WInv'
<1>0. PICK c \in Task, m \in Mutex : /\ handler.task = c /\ call[handler.task].obj = m
                                     /\ call[c].op = "lock"
  BY InheritFacts DEF LockTake, IInv, TypeOK, CallTypeOK
<1>1. /\ m \in Obj /\ handler.at = "inherit" /\ handler.at # "observers"
      /\ handler' = UserMode /\ handler.ticks \in TakeTicks
      /\ UNCHANGED <<mwaitVars, syscall_result>>
  BY Types DEF LockTake, WInv, WaitHandler
<1>2. status[c] = "RUNNING"
  BY <1>0, <1>1 DEF LInv, HandlerInv, RunInv
<1>3. WaitHandler' /\ \A x \in Sem : VAIOS_IPC_FD /\ count[x] = 0 => Quiescent(x)'
  <2>1. count' = count \/ count' = [count EXCEPT ![m] = @ - 1]
    BY <1>0 DEF LockTake
  <2>2. \A x \in Sem : count'[x] = count[x]
    BY <1>1, <2>1, Types, WaitTypes
  <2>3. QED
    BY <1>1, <2>2, User DEF WaitHandler, Quiescent
<1>4. \A t \in Task : Kept(t) \/ TaskOk(t)'
  <2>1. CASE UNCHANGED <<taskVars, wait_sem>> /\ call' = [call EXCEPT ![c] = NoCall]
    <3>1. call'[c].op = "none" /\ \A u \in Task \ {c} : call'[u] = call[u]
      BY <1>1, <2>1, Types DEF NoCall
    <3>2. TaskOk(c)'
      BY <1>0, <1>1, <2>1, <3>1, CallEnds
    <3>3. QED
      BY <1>1, <2>1, <3>1, <3>2 DEF Kept
  <2>2. CASE handler.ticks # 0 /\ BlockOn(c, m, handler.ticks, "lock")
    <3>1. handler.ticks = V_WAIT_FOREVER
      BY <1>1, <2>2 DEF Untimed
    <3>2. TaskOk(c)' /\ \A u \in Task \ {c} : Kept(u)
      BY <1>0, <1>1, <1>2, <2>2, <3>1, BlockOnWaits
    <3>3. QED
      BY <3>2
  <2>3. QED
    BY <1>0, <2>1, <2>2 DEF LockTake
<1>5. QED
  BY <1>1, <1>3, <1>4, WaitFrame

\* A sleeper wakes.
LEMMA SleeperWaits ==
    ASSUME IInv, LInv, WInv, WakeSleeper
    PROVE  WInv'
<1>1. /\ handler.at = "sleepers" /\ delayed_list # <<>> /\ handler.at # "observers"
      /\ UNCHANGED <<wait_sem, call, syscall_result, mwaitVars, count, handler>>
  BY DEF WakeSleeper, SleeperDue
<1>2. PICK t \in Task : t = Head(delayed_list) /\ status[t] = "DELAYED"
  <2>1. Listed(delayed_list, Sleeping(status, NULL)) /\ delayed_list \in Seq(Task)
    BY <1>1, NobodyDying, Types DEF LInv, Scheduler
  <2>2. Head(delayed_list) \in Task /\ Head(delayed_list) \in Sleeping(status, NULL)
    BY <1>1, <2>1, ListTail
  <2>3. QED
    BY <2>2 DEF Sleeping
<1>3. /\ status' = [status EXCEPT ![t] = "READY"]
      /\ delay_ticks' = [delay_ticks EXCEPT ![t] = NoDeadline]
  BY <1>2 DEF WakeSleeper
<1>4. status'[t] = "READY" /\ \A u \in Task \ {t} : Kept(u)
  BY <1>1, <1>3, Types, WaitTypes DEF Kept
<1>5. TaskOk(t)'
  BY <1>1, <1>2, <1>4 DEF WInv, TaskOk
<1>6. WaitHandler' /\ \A x \in Sem : VAIOS_IPC_FD /\ count[x] = 0 => Quiescent(x)'
  BY <1>1 DEF WInv, WaitHandler, Quiescent
<1>7. QED
  BY <1>1, <1>4, <1>5, <1>6, WaitFrame

\* The idle task frees a dead task.
LEMMA FreeWaits ==
    ASSUME IInv, WInv, idle_task_function
    PROVE  WInv'
<1>1. /\ handler = UserMode /\ handler.at # "observers"
      /\ UNCHANGED <<wait_sem, call, delay_ticks, syscall_result, mwaitVars, count, handler>>
  BY User DEF idle_task_function
<1>2. PICK i \in DOMAIN blocked_list : /\ status[blocked_list[i]] = "TERMINATED"
                                       /\ status' = [status EXCEPT ![blocked_list[i]] = "FREED"]
  BY DEF idle_task_function
<1>3. \A u \in Task : status'[u] = status[u]
                      \/ (status[u] = "TERMINATED" /\ status'[u] = "FREED")
  BY <1>2, Types
<1>4. \A t \in Task : Kept(t) \/ TaskOk(t)'
  BY <1>1, <1>3 DEF WInv, TaskOk, Kept
<1>5. WaitHandler' /\ \A x \in Sem : VAIOS_IPC_FD /\ count[x] = 0 => Quiescent(x)'
  BY <1>1 DEF WInv, WaitHandler, Quiescent
<1>6. QED
  BY <1>1, <1>4, <1>5, WaitFrame

\* The context switch delivers a result: a task woken in v_wait goes on to disarm.
LEMMA SwitchWaits ==
    ASSUME IInv, LInv, LInv', WInv, PendSV
    PROVE  WInv'
<1>1. /\ handler = UserMode /\ handler.at # "observers"
      /\ UNCHANGED <<wait_sem, delay_ticks, mwaitVars, count, handler, blocked_list>>
  BY User DEF PendSV
<1>2. PICK t \in Task :
        /\ status' = [u \in Task |-> IF u = t THEN "RUNNING"
                       ELSE IF u = current_task /\ status[current_task] = "RUNNING" THEN "READY"
                       ELSE status[u]]
        /\ call' = [call EXCEPT ![t] = v_syscall_deliver_result(t, syscall_result[t])]
        /\ syscall_result' = [syscall_result EXCEPT ![t] = NoResult]
  BY DEF PendSV
<1>3. status[t] # "BLOCKED" /\ status'[t] = "RUNNING"
  <2>1. Dying = NULL /\ Dying' = NULL
    BY <1>1, User, UserAfter
  <2>2. Listed(blocked_list, Parked(status, NULL)) /\ Listed(blocked_list, Parked(status', NULL))
    BY <1>1, <2>1 DEF LInv, Scheduler
  <2>3. status'[t] = "RUNNING" /\ t # NULL
    BY <1>2, Types
  <2>4. QED
    BY <2>2, <2>3 DEF Listed, Parked
<1>4. TaskOk(t)'
  <2>1. /\ call'[t] = v_syscall_deliver_result(t, syscall_result[t])
        /\ syscall_result'[t] = NoResult
    BY <1>2, Types, WaitTypes
  <2>2. wait_sem[t] = NULL /\ ~in_multiwait[t]
    BY <1>3 DEF WInv, TaskOk
  <2>3. CASE call[t].op = "wait"
    <3>1. syscall_result[t] \in {WAIT_TIMEOUT, V_MWAIT_WOKEN}
      BY <2>2, <2>3 DEF WInv, TaskOk
    <3>2. syscall_result[t] < 0 /\ syscall_result[t] # NoResult
      BY <3>1 DEF WAIT_TIMEOUT, V_MWAIT_WOKEN, NoResult
    <3>3. call'[t].op = "disarm"
      BY <2>1, <2>3, <3>2 DEF v_syscall_deliver_result
    <3>4. QED
      BY <1>1, <1>3, <2>1, <2>2, <3>3 DEF TaskOk
  <2>4. CASE call[t].op # "wait"
    <3>1. call'[t] = call[t] \/ (call'[t] = NoCall /\ syscall_result[t] # NoResult)
      BY <2>1, <2>4 DEF v_syscall_deliver_result
    <3>2. call'[t].op = call[t].op \/ (call'[t].op = "none" /\ wnodes[t] = <<>>)
      BY <2>4, <3>1 DEF WInv, TaskOk, NoCall
    <3>3. QED
      BY <1>1, <1>3, <2>1, <2>2, <2>4, <3>2 DEF WInv, TaskOk
  <2>5. QED
    BY <2>3, <2>4
<1>5. ASSUME NEW u \in Task, u # t PROVE Kept(u) \/ TaskOk(u)'
  <2>1. call'[u] = call[u] /\ syscall_result'[u] = syscall_result[u]
    BY <1>2, <1>5, Types, WaitTypes
  <2>2. status'[u] = status[u] \/ (status[u] = "RUNNING" /\ status'[u] = "READY")
    BY <1>2, <1>5
  <2>3. QED
    BY <1>1, <2>1, <2>2 DEF WInv, TaskOk, Kept
<1>6. WaitHandler' /\ \A x \in Sem : VAIOS_IPC_FD /\ count[x] = 0 => Quiescent(x)'
  BY <1>1 DEF WInv, WaitHandler, Quiescent
<1>7. QED
  BY <1>1, <1>4, <1>5, <1>6, WaitFrame

\* A task in v_wait is woken, by a give or by its timeout.
LEMMA MultiwaiterWoken ==
    ASSUME IInv, WInv, NEW t \in Task, in_multiwait[t], NEW r \in {WAIT_TIMEOUT, V_MWAIT_WOKEN},
           MakeReady(t, r), delay_ticks' = [delay_ticks EXCEPT ![t] = NoDeadline],
           in_multiwait' = [in_multiwait EXCEPT ![t] = FALSE],
           UNCHANGED <<wait_sem, wnodes, observers, call, count, handler>>
    PROVE  WInv'
<1>1. /\ status' = [status EXCEPT ![t] = "READY"]
      /\ syscall_result' = [syscall_result EXCEPT ![t] = r]
  BY DEF MakeReady
<1>2. /\ ~in_multiwait'[t] /\ status'[t] = "READY" /\ syscall_result'[t] = r
      /\ \A u \in Task \ {t} : /\ in_multiwait'[u] = in_multiwait[u] /\ status'[u] = status[u]
                               /\ syscall_result'[u] = syscall_result[u]
                               /\ delay_ticks'[u] = delay_ticks[u]
  BY <1>1, Types, WaitTypes
<1>3. ASSUME NEW u \in Task PROVE TaskOk(u)'
  <2>1. TaskOk(u) /\ call[t].op = "wait" /\ wait_sem[t] = NULL
    BY DEF WInv, TaskOk
  <2>2. CASE u = t
    BY <1>2, <2>1, <2>2 DEF TaskOk
  <2>3. CASE u # t
    BY <1>2, <2>1, <2>3 DEF TaskOk
  <2>4. QED
    BY <2>2, <2>3
<1>4. NodesOk' /\ WaitHandler'
  BY DEF WInv, NodesOk, WaitHandler
<1>5. WatchOk'
  BY <1>2 DEF WInv, WatchOk, Quiescent
<1>6. QED
  BY <1>3, <1>4, <1>5 DEF WInv

\* A give wakes its observers.
LEMMA ObserverWaits ==
    ASSUME IInv, WInv, WakeObserver
    PROVE  WInv'
<1>1. PICK t \in Task : in_multiwait[t] /\ WakeMultiwaiter(t)
  BY WakeObserverFacts
<1>2. QED
  BY <1>1, WakeObserverFacts, MultiwaiterWoken DEF WakeMultiwaiter

\* A wait times out.
LEMMA EjectWaits ==
    ASSUME IInv, LInv, WInv, Eject
    PROVE  WInv'
<1>1. PICK t \in Task : /\ in_multiwait[t] /\ EjectMultiwaiter(t)
                        /\ delay_ticks' = [delay_ticks EXCEPT ![t] = NoDeadline]
  BY EjectsMultiwaiter
<1>2. QED
  BY <1>1, EjectsMultiwaiter, MultiwaiterWoken DEF EjectMultiwaiter

\* When the last observer is woken, nobody in v_wait watches the semaphore.
LEMMA ObserversDoneWaits ==
    ASSUME IInv, WInv, ObserversDone
    PROVE  WInv'
<1>1. /\ \A t \in ToSet(observers[handler.obj]) : ~in_multiwait[t]
      /\ handler' = UserMode
      /\ UNCHANGED <<status, wait_sem, delay_ticks, call, syscall_result, mwaitVars, count>>
  BY DEF ObserversDone
<1>2. (\A t \in Task : TaskOk(t)') /\ NodesOk' /\ WaitHandler'
  BY <1>1, User DEF WInv, TaskOk, NodesOk, WaitHandler
<1>3. ASSUME NEW t \in Task, in_multiwait[t], NEW s \in ToSet(wnodes[t]) PROVE count[s] = 0
  <2>1. s \in Sem
    BY WaitTypes, LenProperties DEF ToSet
  <2>2. t \in ToSet(observers[s])
    BY <2>1 DEF WInv, NodesOk
  <2>3. QED
    BY <1>1, <1>3, <2>2 DEF WInv, WatchOk, Quiescent
<1>4. WatchOk'
  BY <1>1, <1>3 DEF WatchOk, Quiescent
<1>5. QED
  BY <1>2, <1>4 DEF WInv

\* A task parks in v_wait: it links a node for each semaphore it watches, and none counts.
LEMMA ParkWaits ==
    ASSUME IInv, LInv, WInv, NEW c \in Task, NEW fds \in FdLists, NEW n,
           v_wait_block_impl(c, fds, n)
    PROVE  WInv'
<1>1. /\ call[c].op = "none" /\ handler.at # "observers" /\ wait_sem[c] = NULL
      /\ ~in_multiwait[c] /\ wnodes[c] = <<>> /\ syscall_result[c] = NoResult
  BY CallerFree DEF v_wait_block_impl
<1>2. /\ VAIOS_IPC_FD /\ NothingReady(fds)
      /\ status' = [status EXCEPT ![c] = "BLOCKED"]
      /\ delay_ticks' = [delay_ticks EXCEPT ![c] = v_wake_deadline(n)]
      /\ call' = [call EXCEPT ![c] = [op |-> "wait", obj |-> NULL]]
      /\ in_multiwait' = [in_multiwait EXCEPT ![c] = TRUE]
      /\ wnodes' = [wnodes EXCEPT ![c] = fds]
      /\ observers' = [s \in Sem |->
           IF s \in ToSet(fds) THEN <<c>> \o observers[s] ELSE observers[s]]
      /\ UNCHANGED <<wait_sem, syscall_result, count, handler>>
  BY DEF v_wait_block_impl, Park
<1>3. /\ status'[c] = "BLOCKED" /\ call'[c].op = "wait" /\ in_multiwait'[c] /\ wnodes'[c] = fds
      /\ \A u \in Task \ {c} :
           /\ status'[u] = status[u] /\ call'[u] = call[u] /\ in_multiwait'[u] = in_multiwait[u]
           /\ wnodes'[u] = wnodes[u] /\ delay_ticks'[u] = delay_ticks[u]
  BY <1>2, Types, WaitTypes
<1>4. ASSUME NEW u \in Task PROVE TaskOk(u)'
  <2>1. CASE u = c
    BY <1>1, <1>2, <1>3, <2>1 DEF TaskOk
  <2>2. CASE u # c
    BY <1>2, <1>3, <2>2 DEF WInv, TaskOk
  <2>3. QED
    BY <2>1, <2>2
<1>5. NodesOk'
  <2>1. ASSUME NEW s \in Sem
        PROVE  /\ NoDup(observers'[s])
               /\ ToSet(observers'[s]) = IF s \in ToSet(fds) THEN ToSet(observers[s]) \cup {c}
                                         ELSE ToSet(observers[s])
    <3>1. c \notin ToSet(observers[s]) /\ NoDup(observers[s]) /\ observers[s] \in Seq(Task)
      BY <1>1, EmptyRange, WaitTypes DEF WInv, NodesOk
    <3>2. /\ ToSet(<<c>> \o observers[s]) = ToSet(observers[s]) \cup {c}
          /\ NoDup(<<c>> \o observers[s])
      BY <3>1, PushRange
    <3>3. observers'[s] = IF s \in ToSet(fds) THEN <<c>> \o observers[s] ELSE observers[s]
      BY <1>2
    <3>4. QED
      BY <3>1, <3>2, <3>3
  <2>2. ASSUME NEW t \in Task, NEW s \in Sem
        PROVE  t \in ToSet(observers'[s]) <=> s \in ToSet(wnodes'[t])
    <3>1. t \in ToSet(observers[s]) <=> s \in ToSet(wnodes[t])
      BY DEF WInv, NodesOk
    <3>2. CASE t = c
      BY <1>1, <1>3, <2>1, <3>1, <3>2, EmptyRange
    <3>3. CASE t # c
      BY <1>3, <2>1, <3>1, <3>3
    <3>4. QED
      BY <3>2, <3>3
  <2>3. QED
    BY <2>1, <2>2 DEF NodesOk
<1>6. WatchOk'
  <2>1. \A s \in ToSet(fds) : count[s] = 0
    BY <1>2 DEF NothingReady, ToSet
  <2>2. \A u \in Task \ {c} : in_multiwait[u] => \A s \in ToSet(wnodes[u]) : count[s] = 0
    BY <1>1 DEF WInv, WatchOk, Quiescent
  <2>3. QED
    BY <1>2, <1>3, <2>1, <2>2 DEF WatchOk, Quiescent
<1>7. WaitHandler'
  BY <1>2 DEF WInv, WaitHandler
<1>8. QED
  BY <1>4, <1>5, <1>6, <1>7 DEF WInv

\* A task that comes back from v_wait unlinks its nodes.
LEMMA DisarmWaits ==
    ASSUME IInv, WInv, NEW c \in Task, v_wait_disarm_impl(c)
    PROVE  WInv'
<1>1. /\ call[c].op = "disarm" /\ call' = [call EXCEPT ![c] = NoCall]
      /\ observers' = [s \in Sem |->
           IF s \in ToSet(wnodes[c]) THEN Unlink(observers[s], c) ELSE observers[s]]
      /\ wnodes' = [wnodes EXCEPT ![c] = <<>>]
      /\ UNCHANGED <<status, wait_sem, delay_ticks, in_multiwait, syscall_result, count, handler>>
  BY DEF v_wait_disarm_impl, mwait_disarm
<1>2. ~in_multiwait[c] /\ wait_sem'[c] = wait_sem[c]
  BY <1>1 DEF WInv, TaskOk
<1>3. /\ call'[c].op = "none" /\ wnodes'[c] = <<>>
      /\ \A u \in Task \ {c} : call'[u] = call[u] /\ wnodes'[u] = wnodes[u]
  BY <1>1, Types, WaitTypes DEF NoCall
<1>4. ASSUME NEW u \in Task PROVE TaskOk(u)'
  <2>1. CASE u = c
    BY <1>1, <1>2, <1>3, <2>1 DEF WInv, TaskOk
  <2>2. CASE u # c
    BY <1>1, <1>3, <2>2 DEF WInv, TaskOk
  <2>3. QED
    BY <2>1, <2>2
<1>5. NodesOk'
  <2>1. ASSUME NEW s \in Sem
        PROVE  NoDup(observers'[s]) /\ ToSet(observers'[s]) = ToSet(observers[s]) \ {c}
    <3>1. /\ c \in ToSet(observers[s]) <=> s \in ToSet(wnodes[c])
          /\ NoDup(observers[s]) /\ observers[s] \in Seq(Task)
      BY WaitTypes DEF WInv, NodesOk
    <3>2. /\ NoDup(Unlink(observers[s], c))
          /\ ToSet(Unlink(observers[s], c)) = ToSet(observers[s]) \ {c}
      BY <3>1, UnlinkRange
    <3>3. observers'[s] = IF s \in ToSet(wnodes[c]) THEN Unlink(observers[s], c) ELSE observers[s]
      BY <1>1
    <3>4. QED
      BY <3>1, <3>2, <3>3
  <2>2. ASSUME NEW t \in Task, NEW s \in Sem
        PROVE  t \in ToSet(observers'[s]) <=> s \in ToSet(wnodes'[t])
    <3>1. t \in ToSet(observers[s]) <=> s \in ToSet(wnodes[t])
      BY DEF WInv, NodesOk
    <3>2. QED
      BY <1>3, <2>1, <3>1, EmptyRange
  <2>3. QED
    BY <2>1, <2>2 DEF NodesOk
<1>6. WatchOk' /\ WaitHandler'
  BY <1>1, <1>2, <1>3 DEF WInv, WatchOk, Quiescent, WaitHandler
<1>7. QED
  BY <1>4, <1>5, <1>6 DEF WInv
------------------------------------------------------------------------------
(* The invariant and what it says *)

\* Every step keeps it.
LEMMA StepWaits ==
    ASSUME Untimed, ~MayRelock, IInv, LInv, WInv, [Next]_vars
    PROVE  WInv'
<1>1. LInv' /\ current_task \in Task
  BY WaitLists, Types
<1>2. ASSUME NEW c \in Task, c = current_task, Syscall(c) PROVE WInv'
  <2>1. ASSUME NEW s \in Sem, v_semaphore_give(c, s) PROVE WInv'
    <3>1. handler = UserMode
      BY <2>1 DEF v_semaphore_give, Executing
    <3>2. QED
      BY <2>1, <3>1, GiveWaits DEF v_semaphore_give
  <2>2. CASE v_task_exit_impl(c) \/ \E t \in Task : task_exit_request(c, t)
    BY <2>2 DEF v_task_exit_impl, task_exit_request, Untimed
  <2>3. CASE \/ \E s \in Sem, n \in TakeTicks : v_semaphore_take(c, s, n)
             \/ \E m \in Mutex, n \in TakeTicks : v_mutex_lock(c, m, n)
             \/ \E m \in Mutex : v_mutex_unlock(c, m)
    BY <2>3, TakeWaits, LockWaits, UnlockWaits
  <2>4. CASE \/ \E m \in Mutex : RecursiveRelock(c, m) \/ v_mutex_unlock_recursive(c, m)
             \/ task_yield(c)
    BY <2>4, StillWaits
  <2>5. CASE \/ \E fds \in FdLists, n \in WaitTicks : v_wait_block_impl(c, fds, n)
             \/ v_wait_disarm_impl(c)
             \/ \E n \in DelayTicks : task_delay(c, n)
    BY <2>5, ParkWaits, DisarmWaits, DelayWaits
  <2>6. QED
    BY <1>2, <2>1, <2>2, <2>3, <2>4, <2>5 DEF Syscall
<1>3. ASSUME NEW s \in Sem, v_semaphore_give_from_isr(s) PROVE WInv'
  BY <1>3, GiveWaits DEF v_semaphore_give_from_isr
<1>4. CASE HandlerStep
  <2>1. ~TeardownMutex /\ ~TeardownDone
    BY DEF WInv, WaitHandler, TeardownMutex, TeardownDone
  <2>2. QED
    BY <1>4, <2>1, HopWaits, LockTakeWaits, ObserverWaits, ObserversDoneWaits, SleeperWaits,
       EjectWaits, TickWaits DEF HandlerStep
<1>5. CASE v_kernel_tick
  BY <1>5, TickWaits
<1>6. CASE PendSV
  BY <1>1, <1>6, SwitchWaits
<1>7. CASE idle_task_function
  BY <1>7, FreeWaits
<1>8. CASE UNCHANGED vars
  BY <1>8 DEF vars, WInv, TaskOk, NodesOk, WatchOk, Quiescent, WaitHandler
<1>9. QED
  BY <1>1, <1>2, <1>3, <1>4, <1>5, <1>6, <1>7, <1>8 DEF Next, Interrupt

\* In the beginning nobody waits.
LEMMA InitWaits == Init => WInv
<1> SUFFICES ASSUME Init PROVE WInv
  OBVIOUS
<1>1. \A t \in Task : TaskOk(t)
  BY DEF Init, TaskOk, NoCall
<1>2. NodesOk /\ WatchOk /\ WaitHandler
  BY EmptyRange, User DEF Init, NodesOk, WatchOk, WaitHandler
<1>3. QED
  BY <1>1, <1>2 DEF WInv

\* v_wait misses no give, for any number of tasks, semaphores and mutexes, lists of
\* semaphores to wait for, timeouts of v_wait and delays: where no task is ended by another
\* (MayExit = {}), takes and locks wait for ever or not at all (TakeTicks) and nobody locks
\* what it owns (~MayRelock), every task is on the one list its status names, whoever is
\* parked in v_wait has a node on each semaphore it watches and none of them counts, and a
\* wake leaves it a negative result (v_wait_block_impl, mwait_wake_observers,
\* wake_up_delayed_tasks_isr).
THEOREM MultiwaitSafe ==
    ASSUME MayExit = {}, TakeTicks \subseteq {0, V_WAIT_FOREVER}, ~MayRelock
    PROVE  Spec => []MultiwaitSound
<1>1. ASSUME IInv, LInv, WInv PROVE MultiwaitSound
  <2>2. ListsAgree
    BY <1>1, ListsFit
  <2>3. MultiwaitArmed
    BY <1>1 DEF WInv, TaskOk, NodesOk, WatchOk, Quiescent, MultiwaitArmed
  <2>4. WaitResultNegative
    BY <1>1 DEF WInv, TaskOk, WaitResultNegative, WAIT_TIMEOUT, V_MWAIT_WOKEN
  <2>5. QED
    BY <2>2, <2>3, <2>4 DEF MultiwaitSound
<1>2. IInv /\ LInv /\ WInv /\ [Next]_vars => LInv' /\ WInv'
  BY WaitLists, StepWaits DEF Untimed
<1>3. QED
  BY <1>1, <1>2, InitLists, InitWaits, Inductive, PTL DEF Spec

\* With v_wait too the wait queues hold exactly the tasks blocked on them and nothing
\* points at a freed TCB: under the hypotheses of MultiwaitSafe, what ListsSafe says.
THEOREM WaitListsSafe ==
    ASSUME MayExit = {}, TakeTicks \subseteq {0, V_WAIT_FOREVER}, ~MayRelock
    PROVE  Spec => []ListsSound
<1>1. ASSUME IInv, LInv, WInv PROVE ListsSound
  <2>1. ListsAgree
    BY <1>1, ListsFit
  <2>2. WaitQueuesAgree
    <3>1. \A t \in Task, s \in Obj : wait_sem[t] = s => ~in_multiwait[t]
      BY <1>1, Types DEF WInv, TaskOk
    <3>2. QED
      BY <1>1, <3>1 DEF LInv, Queues, QueuesOk, Listed, Waiting, WaitQueuesAgree
  <2>3. NoDangling
    <3> SUFFICES ASSUME NEW t \in Task, status[t] = "FREED"
                 PROVE  /\ \A s \in Obj : t \notin ToSet(wait_q[s])
                        /\ \A m \in Mutex : owner[m] # t
                        /\ \A s \in Sem : t \notin ToSet(observers[s])
                        /\ \A p \in Priority : t \notin ToSet(ready_lists[p])
      BY DEF NoDangling
    <3>1. \A s \in Obj : t \notin ToSet(wait_q[s])
      BY <2>2 DEF WaitQueuesAgree
    <3>2. \A m \in Mutex : owner[m] # t
      BY <1>1, EmptyRange DEF LInv, DeadInv, Dead, IInv, MutexOwnership
    <3>3. wnodes[t] = <<>>
      BY <1>1 DEF WInv, TaskOk
    <3>4. \A s \in Sem : t \notin ToSet(observers[s])
      BY <1>1, <3>3, EmptyRange DEF WInv, NodesOk
    <3>5. \A p \in Priority : t \notin ToSet(ready_lists[p])
      BY <2>1 DEF ListsAgree
    <3>6. QED
      BY <3>1, <3>2, <3>4, <3>5
  <2>4. QED
    BY <2>1, <2>2, <2>3 DEF ListsSound
<1>2. IInv /\ LInv /\ WInv /\ [Next]_vars => LInv' /\ WInv'
  BY WaitLists, StepWaits DEF Untimed
<1>3. QED
  BY <1>1, <1>2, InitLists, InitWaits, Inductive, PTL DEF Spec
------------------------------------------------------------------------------
(***************************************************************************)
(* What a task gets from the kernel on time and truthfully: a deadline     *)
(* that is kept, a lock whose result says who owns the mutex, a priority   *)
(* that follows the waiters.  For any number of tasks and mutexes, under   *)
(* the hypotheses of ListsSafe, whose invariant the proofs use.            *)
(***************************************************************************)

\* The pairs of tasks the first of which is due no later than the second.
Sooner(d) == {x \in Task \X Task : d[x[1]] <= d[x[2]]}

\* Sleepers are linked in the order of their deadlines, and those are ahead.
SleepOrder == InOrder(delayed_list, Sooner(delay_ticks))
SleepersLeft ==
    \A t \in ToSet(delayed_list) :
      delay_ticks[t] >= 0 /\ (handler.at # "sleepers" => delay_ticks[t] > 0)

\* A blocked task waits for the object of its call, and its deadline is not behind.
WaitersLeft ==
    \A t \in Task : status[t] = "BLOCKED" =>
      /\ call[t].obj = wait_sem[t] /\ wait_sem[t] # NULL
      /\ handler.at \notin {"sleepers", "waiters"} => delay_ticks[t] # Past

TimeInv == SleepOrder /\ SleepersLeft /\ WaitersLeft
------------------------------------------------------------------------------
(* Steps by what they do to the blocked *)

\* Who is blocked after the step was blocked before it, on the same object and call.
Unblocked ==
    \A t \in Task : status'[t] = "BLOCKED" =>
      status[t] = "BLOCKED" /\ call'[t] = call[t] /\ wait_sem'[t] = wait_sem[t]

\* A step that changes nobody's status, and no call but the running task's.
LEMMA SameStatus ==
    ASSUME IInv, NEW c \in Task, status[c] # "BLOCKED", UNCHANGED <<status, wait_sem>>,
           \A t \in Task \ {c} : call'[t] = call[t]
    PROVE  Unblocked
BY DEF Unblocked

\* The system calls, but those that block.
LEMMA CallsUnblocked ==
    ASSUME IInv, LInv, NEW c \in Task,
           \/ \E m \in Mutex, n \in TakeTicks : v_mutex_lock(c, m, n)
           \/ \E m \in Mutex : RecursiveRelock(c, m) \/ v_mutex_unlock_recursive(c, m)
           \/ task_yield(c) \/ v_wait_disarm_impl(c) \/ v_task_exit_impl(c)
           \/ \E t \in Task : task_exit_request(c, t)
    PROVE  Unblocked /\ UNCHANGED <<status, syscall_result>> /\ status[c] = "RUNNING"
<1>1. handler = UserMode /\ ~pendsv /\ current_task = c /\ (c # Idle \/ call[c].op = "disarm")
  BY DEF v_mutex_lock, RecursiveRelock, v_mutex_unlock_recursive, task_yield,
         v_wait_disarm_impl, v_task_exit_impl, task_exit_request, Executing
<1>2. c # Idle /\ status[c] = "RUNNING"
  BY <1>1 DEF LInv, RunInv, NoCall
<1>3. UNCHANGED <<status, wait_sem, syscall_result>>
  BY DEF v_mutex_lock, RecursiveRelock, v_mutex_unlock_recursive, task_yield,
         v_wait_disarm_impl, v_task_exit_impl, task_exit_request
<1>4. \A t \in Task \ {c} : call'[t] = call[t]
  BY Types DEF v_mutex_lock, RecursiveRelock, v_mutex_unlock_recursive, task_yield,
         v_wait_disarm_impl, v_task_exit_impl, task_exit_request
<1>5. QED
  BY <1>2, <1>3, <1>4, SameStatus

\* A give.
LEMMA GiveUnblocked ==
    ASSUME IInv, LInv, NEW s \in Sem, semaphore_give_common(s), UNCHANGED call
    PROVE  Unblocked
<1>1. CASE wait_q[s] # <<>>
  <2>1. Head(wait_q[s]) \in Task
    BY <1>1, FirstWaiter, Types
  <2>2. QED
    BY <1>1, <2>1, Types DEF semaphore_give_common, MakeReady, Unblocked
<1>2. CASE wait_q[s] = <<>>
  BY <1>2 DEF semaphore_give_common, Unblocked
<1>3. QED
  BY <1>1, <1>2

\* A mutex changes hands.
LEMMA HandOverUnblocked ==
    ASSUME IInv, LInv, NEW m \in Mutex, NEW held, HandOver(m, held), NEW c \in Task,
           status[c] # "BLOCKED", \A t \in Task \ {c} : call'[t] = call[t]
    PROVE  Unblocked
<1>1. CASE wait_q[m] # <<>>
  <2>1. Head(wait_q[m]) \in Task
    BY <1>1, FirstWaiter, Types
  <2>2. QED
    BY <1>1, <2>1, Types DEF HandOver, MakeReady, Unblocked
<1>2. CASE wait_q[m] = <<>>
  BY <1>2 DEF HandOver, Unblocked
<1>3. QED
  BY <1>1, <1>2

\* An unlock, and one mutex of a teardown.
LEMMA UnlockUnblocked ==
    ASSUME IInv, LInv, NEW c \in Task, NEW m \in Mutex, v_mutex_unlock(c, m)
    PROVE  Unblocked /\ status[c] = "RUNNING" /\ c = current_task /\ handler = UserMode
<1>1. handler = UserMode /\ ~pendsv /\ current_task = c /\ c # Idle
  BY DEF v_mutex_unlock, Executing, NoCall, LInv, RunInv
<1>2. status[c] = "RUNNING"
  BY <1>1 DEF LInv, RunInv
<1>3. /\ HandOver(m, [held_mutexes EXCEPT ![c] = Unlink(@, m)])
      /\ \A t \in Task \ {c} : call'[t] = call[t]
  BY Types DEF v_mutex_unlock, mutex_unlock_common
<1>4. QED
  BY <1>1, <1>2, <1>3, HandOverUnblocked

LEMMA TeardownUnblocked ==
    ASSUME IInv, LInv, TeardownMutex \/ TeardownDone
    PROVE  Unblocked
<1> DEFINE t == handler.task
<1>1. t \in Task /\ status[Idle] # "BLOCKED" /\ Idle \in Task
  BY TeardownTask, Types DEF TeardownMutex, TeardownDone, IInv, LInv, RunInv
<1>2. CASE TeardownMutex
  <2>1. Head(held_mutexes[t]) \in Mutex
    BY <1>1, <1>2, TailRange, Types DEF TeardownMutex
  <2>2. QED
    BY <1>1, <1>2, <2>1, HandOverUnblocked DEF TeardownMutex
<1>3. CASE TeardownDone
  BY <1>1, <1>3, Types DEF TeardownDone, LeaveWaitQueue, Unblocked
<1>4. QED
  BY <1>2, <1>3

\* The tick and the ends of the loops; a hop of the walk.
LEMMA LoopsUnblocked ==
    ASSUME IInv, LInv,
           v_kernel_tick \/ SleepersDone \/ TickDone \/ ObserversDone \/ InheritHop
    PROVE  Unblocked /\ UNCHANGED <<status, call, wait_sem, syscall_result>>
BY DEF v_kernel_tick, SleepersDone, TickDone, ObserversDone, InheritHop, Unblocked

\* The steps that move a task from or to the processor, a sleeper or a dead one.
LEMMA MovesUnblocked ==
    ASSUME IInv, LInv, \/ PendSV \/ idle_task_function \/ WakeSleeper
                       \/ \E c \in Task, n \in DelayTicks : task_delay(c, n)
    PROVE  Unblocked
<1>1. CASE PendSV
  BY <1>1, Types DEF PendSV, Unblocked
<1>2. CASE idle_task_function
  <2>1. \A i \in DOMAIN blocked_list : blocked_list[i] \in Task
    BY Types
  <2>2. QED
    BY <1>2, <2>1, Types DEF idle_task_function, Unblocked
<1>3. CASE WakeSleeper
  <2>1. Head(delayed_list) \in Task
    BY <1>3, TailRange, Types DEF WakeSleeper, SleeperDue
  <2>2. QED
    BY <1>3, <2>1, Types DEF WakeSleeper, Unblocked
<1>4. ASSUME NEW c \in Task, NEW n \in DelayTicks, task_delay(c, n) PROVE Unblocked
  BY <1>4, Types DEF task_delay, Unblocked
<1>5. QED
  BY <1>1, <1>2, <1>3, <1>4

\* What a timeout does: the task was blocked and is ready, with a result that says so.
LEMMA EjectFacts ==
    ASSUME IInv, LInv, NoMultiwait, Eject
    PROVE  \E t \in Task :
             /\ status[t] = "BLOCKED" /\ status' = [status EXCEPT ![t] = "READY"]
             /\ syscall_result' = [syscall_result EXCEPT ![t] = VA_FAIL]
             /\ delay_ticks' = [delay_ticks EXCEPT ![t] = NoDeadline]
             /\ wait_sem[t] \in Obj
             /\ wait_q' = [wait_q EXCEPT ![wait_sem[t]] = Unlink(@, t)]
             /\ UNCHANGED <<wait_sem, call, priority, owner, held_mutexes, delayed_list, handler>>
<1>1. PICK i \in DOMAIN blocked_list :
        /\ Expired(blocked_list[i])
        /\ EjectWaiter(blocked_list[i]) \/ EjectMultiwaiter(blocked_list[i])
        /\ delay_ticks' = [delay_ticks EXCEPT ![blocked_list[i]] = NoDeadline]
  BY DEF Eject, FirstExpired
<1> DEFINE t == blocked_list[i]
<1>2. Listed(blocked_list, Parked(status, NULL)) /\ blocked_list \in Seq(Task)
  BY NobodyDying, Types DEF Eject, LInv, Scheduler
<1>3. t \in Task /\ t \in Parked(status, NULL)
  BY <1>2, ListRemoveAt
<1>4. wait_sem[t] # NULL /\ EjectWaiter(t)
  BY <1>1, <1>3 DEF Expired, EjectMultiwaiter, EjectWaiter, NoMultiwait
<1>5. status[t] = "BLOCKED" /\ wait_sem[t] \in Obj
  BY <1>3, <1>4, Types DEF Parked, LInv, DeadInv, Dead
<1>6. /\ status' = [status EXCEPT ![t] = "READY"]
      /\ syscall_result' = [syscall_result EXCEPT ![t] = VA_FAIL]
      /\ wait_q' = [wait_q EXCEPT ![wait_sem[t]] = Unlink(@, t)]
  BY <1>4 DEF EjectWaiter, MakeReady
<1>7. UNCHANGED <<wait_sem, call, priority, owner, held_mutexes, delayed_list, handler>>
  BY DEF Eject
<1>8. QED
  BY <1>1, <1>3, <1>5, <1>6, <1>7
------------------------------------------------------------------------------
(* Deadlines *)

\* Who runs or is blocked does not sleep; the sleepers are tasks.
LEMMA SleeperFacts ==
    ASSUME IInv, LInv
    PROVE  /\ \A t \in Task : t \in ToSet(delayed_list) => status[t] = "DELAYED"
           /\ \A i \in DOMAIN delayed_list : delayed_list[i] \in Task
           /\ \A i \in DOMAIN delayed_list : delayed_list[i] \in ToSet(delayed_list)
           /\ \A t \in ToSet(delayed_list) : t \in Task
           /\ NoDup(delayed_list) /\ delay_ticks \in [Task -> Int]
<1>1. Listed(delayed_list, Sleeping(status, Dying)) /\ delayed_list \in Seq(Task)
  BY Types DEF LInv, Scheduler
<1>2. delay_ticks \in [Task -> Int]
  BY DEF IInv, TypeOK, TaskTypeOK
<1>3. QED
  BY <1>1, <1>2 DEF Listed, Sleeping, ToSet

\* The sleepers and their deadlines stay.
LEMMA SleepersStay ==
    ASSUME IInv, LInv, SleepOrder, SleepersLeft, UNCHANGED delayed_list,
           \A t \in Task : status[t] = "DELAYED" => delay_ticks'[t] = delay_ticks[t],
           handler.at = "sleepers" => handler'.at = "sleepers"
    PROVE  SleepOrder' /\ SleepersLeft'
<1>1. \A i \in DOMAIN delayed_list : delay_ticks'[delayed_list[i]] = delay_ticks[delayed_list[i]]
  BY SleeperFacts
<1>2. SleepOrder'
  BY <1>1 DEF SleepOrder, InOrder, Sooner
<1>3. SleepersLeft'
  BY SleeperFacts DEF SleepersLeft
<1>4. QED
  BY <1>2, <1>3

\* Nobody blocks, and who stays blocked keeps his deadline.
LEMMA WaitersStay ==
    ASSUME WaitersLeft, Unblocked,
           \A t \in Task : status'[t] = "BLOCKED" => delay_ticks'[t] = delay_ticks[t],
           handler'.at \in {"sleepers", "waiters"} \/ handler.at \notin {"sleepers", "waiters"}
    PROVE  WaitersLeft'
BY DEF WaitersLeft, Unblocked

\* A step that has nothing to do with time.
LEMMA Timeless ==
    ASSUME IInv, LInv, TimeInv, Unblocked, UNCHANGED <<delayed_list, delay_ticks>>,
           \/ handler'.at = handler.at
           \/ {handler.at, handler'.at} \cap {"sleepers", "waiters"} = {}
    PROVE  TimeInv'
<1>1. SleepOrder' /\ SleepersLeft'
  BY SleepersStay DEF TimeInv
<1>2. WaitersLeft'
  BY WaitersStay DEF TimeInv
<1>3. QED
  BY <1>1, <1>2 DEF TimeInv

\* The running task blocks on s.
LEMMA BlockTime ==
    ASSUME IInv, LInv, TimeInv, NEW c \in Task, status[c] = "RUNNING", NEW s \in Obj,
           NEW n \in Int, NEW op, BlockOn(c, s, n, op), UNCHANGED delayed_list,
           handler.at \notin {"sleepers", "waiters"}, handler' = UserMode
    PROVE  TimeInv'
<1>1. /\ status' = [status EXCEPT ![c] = "BLOCKED"]
      /\ delay_ticks' = [delay_ticks EXCEPT ![c] = v_wake_deadline(n)]
      /\ call' = [call EXCEPT ![c] = [op |-> op, obj |-> s]]
      /\ wait_sem' = [wait_sem EXCEPT ![c] = s]
  BY DEF BlockOn, Park
<1>2. v_wake_deadline(n) # Past /\ s # NULL /\ delay_ticks \in [Task -> Int]
  BY Types, SleeperFacts DEF v_wake_deadline, Past, NoDeadline, V_WAIT_FOREVER
<1>3. \A t \in Task : status[t] = "DELAYED" => delay_ticks'[t] = delay_ticks[t]
  BY <1>1, <1>2
<1>4. SleepOrder' /\ SleepersLeft'
  BY <1>3, SleepersStay DEF TimeInv
<1>5. WaitersLeft'
  <2> SUFFICES ASSUME NEW t \in Task, status'[t] = "BLOCKED"
      PROVE  call'[t].obj = wait_sem'[t] /\ wait_sem'[t] # NULL /\ delay_ticks'[t] # Past
    BY DEF WaitersLeft
  <2>1. CASE t = c
    BY <1>1, <1>2, <2>1, Types
  <2>2. CASE t # c
    BY <1>1, <1>2, <2>2, Types DEF TimeInv, WaitersLeft
  <2>3. QED
    BY <2>1, <2>2
<1>6. QED
  BY <1>4, <1>5 DEF TimeInv

\* The tick: every sleeper had a tick left, so none is overdue.
LEMMA TickTime ==
    ASSUME IInv, LInv, TimeInv, v_kernel_tick
    PROVE  TimeInv'
<1>1. /\ handler.at = "user" /\ handler'.at = "sleepers" /\ UNCHANGED delayed_list
      /\ \A t \in Task : delay_ticks'[t] =
           IF delay_ticks[t] >= 0 THEN delay_ticks[t] - 1 ELSE delay_ticks[t]
  BY DEF v_kernel_tick, UserMode
<1>2. \A t \in ToSet(delayed_list) :
        t \in Task /\ delay_ticks[t] \in Int /\ delay_ticks[t] > 0
  BY <1>1, SleeperFacts DEF TimeInv, SleepersLeft
<1>3. \A t \in ToSet(delayed_list) : delay_ticks'[t] = delay_ticks[t] - 1
  BY <1>1, <1>2
<1>4. SleepersLeft'
  BY <1>1, <1>2, <1>3 DEF SleepersLeft
<1>5. SleepOrder'
  <2> SUFFICES ASSUME NEW i \in DOMAIN delayed_list, NEW j \in DOMAIN delayed_list, i < j
      PROVE  /\ delayed_list[i] \in Task /\ delayed_list[j] \in Task
             /\ delay_ticks'[delayed_list[i]] <= delay_ticks'[delayed_list[j]]
    BY <1>1 DEF SleepOrder, InOrder, Sooner
  <2>1. delayed_list[i] \in ToSet(delayed_list) /\ delayed_list[j] \in ToSet(delayed_list)
    BY SleeperFacts
  <2>2. delay_ticks[delayed_list[i]] <= delay_ticks[delayed_list[j]]
    BY DEF TimeInv, SleepOrder, InOrder, Sooner
  <2>3. QED
    BY <2>1, <2>2, <1>2, <1>3
<1>6. WaitersLeft'
  BY <1>1, LoopsUnblocked DEF TimeInv, WaitersLeft
<1>7. QED
  BY <1>4, <1>5, <1>6 DEF TimeInv

\* The first sleeper is due and leaves; the order says nothing of him any more.
LEMMA WakeTime ==
    ASSUME IInv, LInv, TimeInv, WakeSleeper
    PROVE  TimeInv'
<1> DEFINE t == Head(delayed_list)
<1>1. /\ delayed_list # <<>> /\ delayed_list' = Tail(delayed_list) /\ UNCHANGED handler
      /\ handler.at = "sleepers" /\ status' = [status EXCEPT ![t] = "READY"]
      /\ delay_ticks' = [delay_ticks EXCEPT ![t] = NoDeadline]
  BY DEF WakeSleeper, SleeperDue
<1>2. /\ t \in Task /\ t \in ToSet(delayed_list)
      /\ ToSet(Tail(delayed_list)) = ToSet(delayed_list) \ {t}
      /\ Tail(delayed_list) \in Seq(Task)
  BY <1>1, SleeperFacts, TailRange, Types
<1>3. InOrder(Tail(delayed_list), Sooner(delay_ticks))
  BY <1>1, TailInOrder, Types DEF TimeInv, SleepOrder
<1>4. \A i \in DOMAIN Tail(delayed_list) :
        LET u == Tail(delayed_list)[i] IN u \in Task /\ delay_ticks'[u] = delay_ticks[u]
  BY <1>1, <1>2, SleeperFacts DEF ToSet
<1>5. SleepOrder'
  BY <1>1, <1>3, <1>4 DEF SleepOrder, InOrder, Sooner
<1>6. SleepersLeft'
  <2> SUFFICES ASSUME NEW u \in ToSet(Tail(delayed_list))
               PROVE  delay_ticks'[u] >= 0
    BY <1>1 DEF SleepersLeft
  <2>1. u \in ToSet(delayed_list) /\ u # t /\ u \in Task
    BY <1>2, SleeperFacts
  <2>2. QED
    BY <2>1, <1>1, SleeperFacts DEF TimeInv, SleepersLeft
<1>7. WaitersLeft'
  BY <1>1, MovesUnblocked DEF TimeInv, WaitersLeft, Unblocked
<1>8. QED
  BY <1>5, <1>6, <1>7 DEF TimeInv

\* The first sleeper is not due, so no sleeper is.
LEMMA SleepersDoneTime ==
    ASSUME IInv, LInv, TimeInv, SleepersDone
    PROVE  TimeInv'
<1>1. /\ UNCHANGED <<delayed_list, delay_ticks>> /\ handler'.at = "waiters"
      /\ delayed_list # <<>> => ~(delay_ticks[Head(delayed_list)] <= 0)
  BY DEF SleepersDone, SleeperDue, UserMode
<1>2. SleepOrder'
  BY <1>1 DEF TimeInv, SleepOrder
<1>3. SleepersLeft'
  <2> SUFFICES ASSUME NEW u \in ToSet(delayed_list)
               PROVE  delay_ticks[u] > 0
    BY <1>1, SleeperFacts DEF SleepersLeft
  <2>1. delayed_list # <<>>
    BY EmptyRange
  <2>2. /\ Head(delayed_list) \in Task
        /\ ToSet(Tail(delayed_list)) = ToSet(delayed_list) \ {Head(delayed_list)}
        /\ \A x \in ToSet(Tail(delayed_list)) :
             <<Head(delayed_list), x>> \in Sooner(delay_ticks)
    BY <2>1, SleeperFacts, TailRange, TailInOrder, Types DEF TimeInv, SleepOrder
  <2>3. delay_ticks[Head(delayed_list)] > 0 /\ u \in Task
    BY <1>1, <2>1, <2>2, SleeperFacts
  <2>4. CASE u = Head(delayed_list)
    BY <2>3, <2>4
  <2>5. CASE u # Head(delayed_list)
    <3>1. <<Head(delayed_list), u>> \in Sooner(delay_ticks)
      BY <2>2, <2>5
    <3>2. delay_ticks[Head(delayed_list)] <= delay_ticks[u]
      BY <3>1 DEF Sooner
    <3>3. QED
      BY <3>2, <2>2, <2>3, SleeperFacts
  <2>6. QED
    BY <2>4, <2>5
<1>4. WaitersLeft'
  BY <1>1, LoopsUnblocked DEF TimeInv, WaitersLeft
<1>5. QED
  BY <1>2, <1>3, <1>4 DEF TimeInv

\* A timeout: the task was blocked, so no sleeper's deadline changes.
LEMMA EjectTime ==
    ASSUME IInv, LInv, NoMultiwait, TimeInv, Eject
    PROVE  TimeInv'
<1>1. PICK t \in Task :
        /\ status[t] = "BLOCKED" /\ status' = [status EXCEPT ![t] = "READY"]
        /\ delay_ticks' = [delay_ticks EXCEPT ![t] = NoDeadline]
        /\ UNCHANGED <<wait_sem, call, delayed_list, handler>>
  BY EjectFacts
<1>2. \A u \in Task : status[u] = "DELAYED" => delay_ticks'[u] = delay_ticks[u]
  BY <1>1, SleeperFacts
<1>3. SleepOrder' /\ SleepersLeft'
  BY <1>1, <1>2, SleepersStay DEF TimeInv
<1>4. WaitersLeft'
  BY <1>1, Types DEF TimeInv, WaitersLeft, Eject
<1>5. QED
  BY <1>3, <1>4 DEF TimeInv

\* The scan of blocked_list ends: it has seen every blocked task, and each waits for
\* something, so none is overdue.
LEMMA TickDoneTime ==
    ASSUME IInv, LInv, TimeInv, TickDone
    PROVE  TimeInv'
<1>1. /\ UNCHANGED <<delayed_list, delay_ticks>> /\ handler.at = "waiters"
      /\ \A t \in ToSet(blocked_list) : ~Expired(t)
  BY DEF TickDone
<1>2. SleepOrder' /\ SleepersLeft'
  BY <1>1, SleepersStay DEF TimeInv
<1>3. \A t \in Task : status[t] = "BLOCKED" => t \in ToSet(blocked_list)
  BY <1>1, NobodyDying, Types DEF LInv, Scheduler, Listed, Parked
<1>4. \A t \in Task : status[t] = "BLOCKED" => delay_ticks[t] # Past
  BY <1>1, <1>3 DEF Expired, TimeInv, WaitersLeft
<1>5. WaitersLeft'
  BY <1>1, <1>4, LoopsUnblocked DEF TimeInv, WaitersLeft
<1>6. QED
  BY <1>2, <1>5 DEF TimeInv

\* task_delay links the task behind those that are due no later.
LEMMA DelayTime ==
    ASSUME IInv, LInv, TimeInv, NEW c \in Task, NEW n \in DelayTicks, task_delay(c, n)
    PROVE  TimeInv'
<1> DEFINE q == delayed_list
           T == {w \in Task : delay_ticks[w] <= n}
           b == 1 + PrefixLen(q, T)
           R == Sooner(delay_ticks')
<1>1. /\ status[c] = "RUNNING" /\ handler = UserMode /\ handler' = UserMode
      /\ delayed_list' = InsertAt(q, b, c)
      /\ delay_ticks' = [delay_ticks EXCEPT ![c] = n]
  BY Caller DEF task_delay, add_to_delayed_list
<1>2. n \in Nat \ {0} /\ q \in Seq(Task) /\ DOMAIN q = 1..Len(q) /\ Len(q) \in Nat
  BY BoundAssumption, Types, LenProperties
<1>3. /\ \A i \in 1..Len(q) : q[i] \in Task /\ delay_ticks'[q[i]] = delay_ticks[q[i]]
      /\ \A i \in 1..Len(q) : delay_ticks[q[i]] \in Int
  BY <1>1, <1>2, SleeperFacts
<1>4. delay_ticks'[c] = n
  BY <1>1, SleeperFacts
<1>5. InOrder(q, R)
  BY <1>2, <1>3 DEF TimeInv, SleepOrder, InOrder, Sooner
<1>6. /\ PrefixLen(q, T) \in 0..Len(q) /\ \A i \in 1..PrefixLen(q, T) : q[i] \in T
      /\ PrefixLen(q, T) < Len(q) => q[PrefixLen(q, T) + 1] \notin T
  BY <1>2, PrefixLenMeans
<1>7. ASSUME NEW k \in 1..Len(q)
      PROVE  IF k < b THEN <<q[k], c>> \in R ELSE <<c, q[k]>> \in R
  <2>1. CASE k < b
    <3>1. q[k] \in T
      BY <1>2, <1>6, <2>1
    <3>2. QED
      BY <2>1, <3>1, <1>3, <1>4 DEF Sooner
  <2>2. CASE ~(k < b)
    <3>1. b \in 1..Len(q) /\ q[b] \notin T
      BY <1>2, <1>6, <2>2
    <3>2. delay_ticks[q[b]] > n
      BY <3>1, <1>2, <1>3
    <3>3. delay_ticks[q[b]] <= delay_ticks[q[k]]
      <4>1. CASE b = k
        BY <4>1, <1>3
      <4>2. CASE b < k
        BY <4>2, <3>1, <1>2 DEF TimeInv, SleepOrder, InOrder, Sooner
      <4>3. QED
        BY <4>1, <4>2, <2>2, <3>1
    <3>4. QED
      BY <2>2, <3>1, <3>2, <3>3, <1>2, <1>3, <1>4 DEF Sooner
  <2>3. QED
    BY <2>1, <2>2
<1>8. b \in 1..(Len(q) + 1)
  BY <1>2, PrefixLenBound
<1>9. SleepOrder'
  <2> HIDE DEF b, R
  <2>1. InOrder(InsertAt(q, b, c), R)
    BY <1>2, <1>5, <1>7, <1>8, InsertInOrder
  <2>2. QED
    BY <1>1, <2>1 DEF SleepOrder, R
<1>10. SleepersLeft'
  <2> HIDE DEF b
  <2>1. ToSet(InsertAt(q, b, c)) = ToSet(q) \cup {c}
    BY <1>2, <1>8, InsertAtRange
  <2>2. \A u \in ToSet(q) : u \in Task /\ delay_ticks'[u] = delay_ticks[u] /\ delay_ticks[u] > 0
    BY <1>1, SleeperFacts DEF TimeInv, SleepersLeft, UserMode
  <2>3. \A u \in ToSet(q) : delay_ticks'[u] >= 0
    BY <2>2, SleeperFacts
  <2>4. QED
    BY <1>1, <1>2, <1>4, <2>1, <2>2, <2>3 DEF SleepersLeft
<1>11. WaitersLeft'
  <2>1. \A u \in Task : status'[u] = "BLOCKED" => delay_ticks'[u] = delay_ticks[u]
    BY <1>1, SleeperFacts, Types DEF task_delay
  <2>2. QED
    BY <1>1, <2>1, MovesUnblocked, WaitersStay DEF TimeInv
<1>12. QED
  BY <1>9, <1>10, <1>11 DEF TimeInv

\* A sleeper may be asked to end, and leaves the list.
LEMMA KillTime ==
    ASSUME IInv, LInv, TimeInv, NEW c \in Task, NEW t \in Task, task_exit_request(c, t)
    PROVE  TimeInv'
<1>1. /\ handler.at = "user" /\ handler'.at = "teardown" /\ UNCHANGED delay_ticks
      /\ delayed_list' = Unlink(delayed_list, t) \/ delayed_list' = delayed_list
  BY DEF task_exit_request, TearDown, Executing, UserMode
<1>2. InOrder(Unlink(delayed_list, t), Sooner(delay_ticks))
  BY UnlinkInOrder, Types DEF TimeInv, SleepOrder
<1>3. ToSet(Unlink(delayed_list, t)) = ToSet(delayed_list) \ {t}
  BY UnlinkRange, SleeperFacts, Types
<1>4. SleepOrder' /\ SleepersLeft'
  BY <1>1, <1>2, <1>3 DEF TimeInv, SleepOrder, SleepersLeft
<1>5. WaitersLeft'
  BY <1>1, CallsUnblocked, WaitersStay DEF TimeInv
<1>6. QED
  BY <1>4, <1>5 DEF TimeInv

\* The handler after a give.
LEMMA GiveHandler ==
    ASSUME NEW s \in Sem, handler = UserMode, semaphore_give_common(s)
    PROVE  handler.at = "user" /\ (handler'.at = "user" \/ handler'.at = "observers")
<1>1. handler' = handler \/ handler' = [UserMode EXCEPT !.at = "observers", !.obj = s]
  BY DEF semaphore_give_common
<1>2. [UserMode EXCEPT !.at = "observers", !.obj = s].at = "observers"
  BY DEF UserMode
<1>3. QED
  BY <1>1, <1>2, User

\* Every step keeps the deadlines.
LEMMA StepTime ==
    ASSUME FdLists = {}, IInv, LInv, NoMultiwait, TimeInv, [Next]_vars
    PROVE  TimeInv'
<1>1. ASSUME NEW c \in Task, Syscall(c) PROVE TimeInv'
  <2>1. ASSUME NEW s \in Sem, NEW n \in TakeTicks, v_semaphore_take(c, s, n)
        PROVE  TimeInv'
    <3>1. /\ status[c] = "RUNNING" /\ handler = UserMode /\ handler.at = "user"
          /\ s \in Obj /\ n \in Int /\ UNCHANGED <<delayed_list, handler>>
      BY <2>1, Caller, Types, Constants DEF v_semaphore_take
    <3>2. CASE UNCHANGED <<taskVars, wait_sem, call>>
      BY <3>1, <3>2, SameStatus, Timeless
    <3>3. CASE BlockOn(c, s, n, "take")
      BY <3>1, <3>3, BlockTime
    <3>4. QED
      BY <2>1, <3>2, <3>3 DEF v_semaphore_take
  <2>2. ASSUME NEW s \in Sem, v_semaphore_give(c, s) PROVE TimeInv'
    <3>1. handler = UserMode /\ semaphore_give_common(s)
      BY <2>2 DEF v_semaphore_give, Executing
    <3>2. handler.at = "user" /\ (handler'.at = "user" \/ handler'.at = "observers")
      BY <3>1, GiveHandler
    <3>3. QED
      BY <2>2, <3>1, <3>2, GiveUnblocked, Timeless DEF v_semaphore_give
  <2>3. ASSUME NEW m \in Mutex, v_mutex_unlock(c, m) PROVE TimeInv'
    BY <2>3, UnlockUnblocked, Timeless DEF v_mutex_unlock, mutex_unlock_common
  <2>4. ASSUME NEW n \in DelayTicks, task_delay(c, n) PROVE TimeInv'
    BY <2>4, DelayTime
  <2>5. CASE \/ \E m \in Mutex, n \in TakeTicks : v_mutex_lock(c, m, n)
             \/ \E m \in Mutex : RecursiveRelock(c, m) \/ v_mutex_unlock_recursive(c, m)
             \/ task_yield(c) \/ v_wait_disarm_impl(c) \/ v_task_exit_impl(c)
    <3>1. Unblocked
      BY <2>5, CallsUnblocked
    <3>2. handler = UserMode /\ handler'.at \notin {"sleepers", "waiters"}
      <4>1. handler = UserMode /\ (handler' = handler \/ handler'.at = "inherit"
                                     \/ TearDown(c))
        BY <2>5 DEF v_mutex_lock, RecursiveRelock, v_mutex_unlock_recursive, task_yield,
               v_wait_disarm_impl, v_task_exit_impl, Executing
      <4>2. TearDown(c) => handler'.at = "teardown"
        BY DEF TearDown, UserMode
      <4>3. QED
        BY <4>1, <4>2, User
    <3>3. UNCHANGED <<delayed_list, delay_ticks>>
      BY <2>5 DEF v_mutex_lock, RecursiveRelock, v_mutex_unlock_recursive, task_yield,
             v_wait_disarm_impl, v_task_exit_impl
    <3>4. QED
      BY <3>1, <3>2, <3>3, Timeless, User
  <2>6. ASSUME NEW t \in Task, task_exit_request(c, t) PROVE TimeInv'
    BY <2>6, KillTime
  <2>7. QED
    BY <1>1, <2>1, <2>2, <2>3, <2>4, <2>5, <2>6 DEF Syscall
<1>2. ASSUME NEW s \in Sem, v_semaphore_give_from_isr(s) PROVE TimeInv'
  <2>1. handler = UserMode /\ semaphore_give_common(s)
    BY <1>2 DEF v_semaphore_give_from_isr
  <2>2. handler.at = "user" /\ (handler'.at = "user" \/ handler'.at = "observers")
    BY <2>1, GiveHandler
  <2>3. QED
    BY <1>2, <2>1, <2>2, GiveUnblocked, Timeless DEF v_semaphore_give_from_isr
<1>3. CASE InheritHop
  <2>1. handler.at = "inherit" /\ handler'.at \in {"inherit", "panic"}
    BY <1>3 DEF InheritHop, IInv, TypeOK, CallTypeOK, Handler
  <2>2. QED
    BY <1>3, <2>1, LoopsUnblocked, Timeless DEF InheritHop
<1>4. CASE LockTake
  <2> DEFINE c == handler.task
             m == call[c].obj
  <2>1. /\ c \in Task /\ m \in Mutex /\ m \in Obj /\ handler.at = "inherit"
        /\ handler.ticks \in Int
    BY <1>4, InheritFacts, Types DEF LockTake, IInv
  <2>2. status[c] = "RUNNING"
    BY <2>1 DEF LInv, HandlerInv, RunInv
  <2>3. UNCHANGED delayed_list /\ handler' = UserMode
    BY <1>4 DEF LockTake
  <2> HIDE DEF c, m
  <2>4. CASE UNCHANGED <<taskVars, waitVars>> /\ call' = [call EXCEPT ![c] = NoCall]
    <3>1. Unblocked
      BY <2>1, <2>2, <2>4, SameStatus, Types
    <3>2. QED
      BY <2>1, <2>3, <2>4, <3>1, Timeless, User
  <2>5. CASE BlockOn(c, m, handler.ticks, "lock")
    BY <2>1, <2>2, <2>3, <2>5, BlockTime
  <2>6. QED
    BY <1>4, <2>4, <2>5 DEF LockTake, c, m
<1>5. CASE ObserversDone
  BY <1>5, LoopsUnblocked, Timeless, User DEF ObserversDone
<1>6. CASE WakeSleeper \/ SleepersDone \/ Eject \/ TickDone \/ v_kernel_tick
  BY <1>6, WakeTime, SleepersDoneTime, EjectTime, TickDoneTime, TickTime
<1>7. CASE TeardownMutex \/ TeardownDone
  BY <1>7, TeardownUnblocked, Timeless, User DEF TeardownMutex, TeardownDone
<1>8. CASE PendSV \/ idle_task_function
  BY <1>8, MovesUnblocked, Timeless DEF PendSV, idle_task_function
<1>9. CASE UNCHANGED vars
  BY <1>9 DEF vars, TimeInv, SleepOrder, SleepersLeft, WaitersLeft
<1>10. current_task \in Task /\ ~WakeObserver
  BY Types, NoObserver
<1>11. QED
  BY <1>1, <1>2, <1>3, <1>4, <1>5, <1>6, <1>7, <1>8, <1>9, <1>10
     DEF Next, Interrupt, HandlerStep

\* Nothing starts asleep or blocked.
LEMMA InitTime == Init => TimeInv
<1> SUFFICES ASSUME Init PROVE TimeInv
  OBVIOUS
<1>1. SleepOrder /\ SleepersLeft
  BY EmptyRange DEF Init, SleepOrder, SleepersLeft, InOrder
<1>2. WaitersLeft
  BY DEF Init, WaitersLeft
<1>3. QED
  BY <1>1, <1>2 DEF TimeInv

\* Deadlines are kept, for any number of tasks and any delays: in a system whose tasks
\* do not call v_wait and lock no mutex they own, outside the tick handler no sleeper and
\* no blocked task is overdue, though the handler looks at the first sleeper only and
\* kills, timeouts and wakes change both lists at any time.
THEOREM OverdueSafe ==
    ASSUME FdLists = {}, ~MayRelock
    PROVE  Spec => []NothingOverdue
<1>1. ASSUME IInv, LInv, TimeInv PROVE NothingOverdue
  <2>1. \A t \in ToSet(blocked_list) : t \in Task
    BY <1>1, Types DEF ToSet
  <2>2. QED
    BY <1>1, <2>1 DEF TimeInv, SleepersLeft, WaitersLeft, NothingOverdue
<1>2. IInv /\ LInv /\ NoMultiwait /\ [Next]_vars => LInv' /\ NoMultiwait'
  BY StepLists
<1>3. IInv /\ LInv /\ NoMultiwait /\ TimeInv /\ [Next]_vars => TimeInv'
  BY StepTime
<1>4. QED
  BY <1>1, <1>2, <1>3, InitLists, InitTime, Inductive, PTL DEF Spec
------------------------------------------------------------------------------
(* Results of locks *)

\* A result is there for a ready task only, and a lock's says who owns the mutex.
ResultOk(t) ==
    Alive(t) =>
      /\ status[t] # "READY" => syscall_result[t] = NoResult
      /\ status[t] = "READY" /\ call[t].op = "lock" =>
           /\ syscall_result[t] = VA_PASS => owner[call[t].obj] = t
           /\ syscall_result[t] = VA_FAIL => owner[call[t].obj] # t

ResultInv == \A t \in Task : ResultOk(t)

\* The result of t stays, and a ready t stays so, in its call, owning what it owned.
ResultStays(t) ==
    /\ syscall_result'[t] = syscall_result[t]
    /\ status[t] = "READY" =>
         /\ status'[t] = "READY" /\ call'[t] = call[t]
         /\ \A m \in Mutex : owner'[m] = t <=> owner[m] = t

\* A task that is alive was alive.
AliveStays == \A t \in Task : Alive(t)' => Alive(t)

\* Only a teardown goes on in a teardown.
LEMMA TeardownGoesOn ==
    ASSUME IInv, LInv, [Next]_vars, handler.at = "teardown"
    PROVE  TeardownMutex \/ TeardownDone \/ UNCHANGED vars
<1>1. handler # UserMode
  BY User
<1>2. ~Interrupt /\ ~PendSV /\ ~idle_task_function
  BY <1>1 DEF Interrupt, v_kernel_tick, v_semaphore_give_from_isr, PendSV, idle_task_function
<1>3. ~Syscall(current_task)
  BY <1>1 DEF Syscall, v_semaphore_take, v_semaphore_give, v_mutex_lock, v_mutex_unlock,
       RecursiveRelock, v_mutex_unlock_recursive, v_wait_block_impl, v_wait_disarm_impl,
       task_delay, task_yield, v_task_exit_impl, task_exit_request, Executing
<1>4. HandlerStep => TeardownMutex \/ TeardownDone
  BY DEF HandlerStep, InheritHop, LockTake, WakeObserver, ObserversDone, WakeSleeper,
       SleepersDone, Eject, TickDone
<1>5. QED
  BY <1>2, <1>3, <1>4 DEF Next

\* Nobody comes back to life.
LEMMA NobodyRevives ==
    ASSUME IInv, LInv, StayDead, [Next]_vars
    PROVE  AliveStays
<1> SUFFICES ASSUME NEW t \in Task, Alive(t)', ~Alive(t) PROVE FALSE
  BY DEF AliveStays
<1>1. handler.at = "teardown" /\ handler.task = t
  BY Types DEF Alive, InTeardown, StayDead, Status
<1>2. CASE TeardownMutex \/ UNCHANGED vars
  BY <1>1, <1>2 DEF TeardownMutex, vars, Alive, InTeardown
<1>3. CASE TeardownDone
  BY <1>1, <1>3, Types DEF TeardownDone, Alive
<1>4. QED
  BY <1>1, <1>2, <1>3, TeardownGoesOn

\* What does not touch the task's result leaves it true.
LEMMA ResultKept ==
    ASSUME IInv, AliveStays, NEW t \in Task, ResultOk(t), Alive(t)' => ResultStays(t)
    PROVE  ResultOk(t)'
<1> SUFFICES ASSUME Alive(t)' PROVE ResultOk(t)'
  BY DEF ResultOk
<1>1. Alive(t) /\ ResultStays(t)
  BY DEF AliveStays
<1>2. call[t].op = "lock" => call[t].obj \in Mutex
  BY Types DEF Call
<1>3. NoResult # VA_PASS /\ NoResult # VA_FAIL
  BY DEF NoResult, VA_PASS, VA_FAIL
<1>4. CASE status[t] = "READY"
  BY <1>1, <1>2, <1>4 DEF ResultOk, ResultStays
<1>5. CASE status[t] # "READY"
  BY <1>1, <1>3, <1>5 DEF ResultOk, ResultStays
<1>6. QED
  BY <1>4, <1>5

\* A step that leaves no result and moves no mutex of a task that is ready.
LEMMA ResultsKept ==
    ASSUME IInv, AliveStays, ResultInv, UNCHANGED syscall_result,
           \A t \in Task : status[t] = "READY" /\ Alive(t)' =>
             /\ status'[t] = "READY" /\ call'[t] = call[t]
             /\ \A m \in Mutex : owner'[m] = t <=> owner[m] = t
    PROVE  ResultInv'
<1>1. \A t \in Task : Alive(t)' => ResultStays(t)
  BY DEF ResultStays
<1>2. \A t \in Task : ResultOk(t)'
  BY <1>1, ResultKept DEF ResultInv
<1>3. QED
  BY <1>2 DEF ResultInv

\* A give: who is woken is in a take, not in a lock.
LEMMA GiveResult ==
    ASSUME IInv, LInv, TimeInv, AliveStays, ResultInv, NEW s \in Sem,
           semaphore_give_common(s), UNCHANGED <<call, owner>>
    PROVE  ResultInv'
<1>1. CASE wait_q[s] # <<>>
  <2>1. PICK w \in Task :
        /\ status[w] = "BLOCKED" /\ wait_sem[w] = s
        /\ status' = [status EXCEPT ![w] = "READY"]
        /\ syscall_result' = [syscall_result EXCEPT ![w] = VA_PASS]
    BY <1>1, FirstWaiter, Types DEF semaphore_give_common, MakeReady
  <2>2. ASSUME NEW t \in Task, t # w PROVE ResultOk(t)'
    <3>1. ResultStays(t)
      BY <2>1, <2>2, Types DEF ResultStays, IInv, TypeOK, CallTypeOK
    <3>2. QED
      BY <3>1, ResultKept DEF ResultInv
  <2>3. ResultOk(w)'
    <3>1. call[w].obj = s /\ call[w] \in Call
      BY <2>1, Types DEF TimeInv, WaitersLeft
    <3>2. call[w].op # "lock"
      BY <3>1, Types DEF Call
    <3>3. QED
      BY <2>1, <3>2, Types DEF ResultOk
  <2>4. QED
    BY <2>2, <2>3 DEF ResultInv
<1>2. CASE wait_q[s] = <<>>
  BY <1>2, ResultsKept DEF semaphore_give_common
<1>3. QED
  BY <1>1, <1>2

\* A mutex changes hands: its new owner is the one that is told so.
LEMMA HandOverResult ==
    ASSUME IInv, LInv, TimeInv, AliveStays, ResultInv, NEW m \in Mutex, NEW held,
           HandOver(m, held), \A t \in Task : status[t] = "READY" => call'[t] = call[t],
           \A t \in Task : status[t] = "BLOCKED" => call'[t] = call[t],
           \A t \in Task : status[t] = "READY" /\ Alive(t)' => owner[m] # t
    PROVE  ResultInv'
<1>1. CASE wait_q[m] # <<>>
  <2>1. PICK w \in Task :
        /\ status[w] = "BLOCKED" /\ wait_sem[w] = m
        /\ status' = [status EXCEPT ![w] = "READY"]
        /\ syscall_result' = [syscall_result EXCEPT ![w] = VA_PASS]
        /\ owner' = [owner EXCEPT ![m] = w]
    BY <1>1, FirstWaiter, Types DEF HandOver, MakeReady, Own
  <2>2. ASSUME NEW t \in Task, t # w PROVE ResultOk(t)'
    <3>1. Alive(t)' => ResultStays(t)
      BY <2>1, <2>2, Types DEF ResultStays, IInv, TypeOK, CallTypeOK
    <3>2. QED
      BY <3>1, ResultKept DEF ResultInv
  <2>3. ResultOk(w)'
    <3>1. call'[w].obj = m
      BY <2>1, Types DEF TimeInv, WaitersLeft
    <3>2. owner'[m] = w /\ status'[w] = "READY" /\ syscall_result'[w] = VA_PASS
      BY <2>1, Types DEF IInv, TypeOK, CallTypeOK
    <3>3. VA_PASS # VA_FAIL
      BY DEF VA_PASS, VA_FAIL
    <3>4. QED
      BY <3>1, <3>2, <3>3 DEF ResultOk
  <2>4. QED
    BY <2>2, <2>3 DEF ResultInv
<1>2. CASE wait_q[m] = <<>>
  <2>1. UNCHANGED <<status, syscall_result>> /\ owner' = [owner EXCEPT ![m] = NULL]
    BY <1>2 DEF HandOver
  <2>2. \A t \in Task : status[t] = "READY" /\ Alive(t)' =>
          \A x \in Mutex : owner'[x] = t <=> owner[x] = t
    BY <2>1, Types
  <2>3. QED
    BY <2>1, <2>2, ResultsKept
<1>3. QED
  BY <1>1, <1>2

\* A timeout: who is told that the lock failed does not own the mutex.
LEMMA EjectResult ==
    ASSUME IInv, LInv, NoMultiwait, TimeInv, AliveStays, ResultInv, Eject
    PROVE  ResultInv'
<1>1. PICK w \in Task :
        /\ status[w] = "BLOCKED" /\ status' = [status EXCEPT ![w] = "READY"]
        /\ syscall_result' = [syscall_result EXCEPT ![w] = VA_FAIL]
        /\ UNCHANGED <<wait_sem, call, owner>>
  BY EjectFacts
<1>2. ASSUME NEW t \in Task, t # w PROVE ResultOk(t)'
  <2>1. ResultStays(t)
    BY <1>1, <1>2, Types DEF ResultStays, IInv, TypeOK, CallTypeOK
  <2>2. QED
    BY <2>1, ResultKept DEF ResultInv
<1>3. ResultOk(w)'
  <2>1. call[w].op = "lock" => call[w].obj \in Mutex /\ wait_sem[w] = call[w].obj
    BY <1>1, Types DEF TimeInv, WaitersLeft, Call
  <2>2. call[w].op = "lock" => owner[call[w].obj] # w
    BY <1>1, <2>1 DEF LInv, WaiterInv
  <2>3. status'[w] = "READY" /\ syscall_result'[w] = VA_FAIL /\ VA_FAIL # VA_PASS
    BY <1>1, Types DEF IInv, TypeOK, CallTypeOK, VA_PASS, VA_FAIL
  <2>4. QED
    BY <1>1, <2>2, <2>3 DEF ResultOk
<1>4. QED
  BY <1>2, <1>3 DEF ResultInv

\* The switch delivers the result, and nothing is left of it.
LEMMA SwitchResult ==
    ASSUME IInv, LInv, AliveStays, ResultInv, PendSV
    PROVE  ResultInv'
<1>1. PICK w \in Task :
        /\ status' = [x \in Task |-> IF x = w THEN "RUNNING"
             ELSE IF x = current_task /\ status[current_task] = "RUNNING"
                  THEN "READY" ELSE status[x]]
        /\ call' = [call EXCEPT ![w] = v_syscall_deliver_result(w, syscall_result[w])]
        /\ syscall_result' = [syscall_result EXCEPT ![w] = NoResult]
        /\ UNCHANGED owner
  BY DEF PendSV
<1>2. ASSUME NEW t \in Task, t # w PROVE ResultOk(t)'
  <2>1. ResultStays(t)
    BY <1>1, <1>2, Types DEF ResultStays, IInv, TypeOK, CallTypeOK
  <2>2. QED
    BY <2>1, ResultKept DEF ResultInv
<1>3. ResultOk(w)'
  BY <1>1, Types DEF ResultOk, IInv, TypeOK, CallTypeOK
<1>4. QED
  BY <1>2, <1>3 DEF ResultInv

\* The steps that change no owner, no result, and the status and call of nobody that is
\* ready and stays alive.
LEMMA PlainResult ==
    ASSUME IInv, LInv, AliveStays, ResultInv,
           \/ \E c \in Task, n \in DelayTicks : task_delay(c, n)
           \/ \E c \in Task, s \in Sem, n \in TakeTicks : v_semaphore_take(c, s, n)
           \/ v_kernel_tick \/ SleepersDone \/ TickDone \/ ObserversDone \/ InheritHop
           \/ WakeSleeper \/ TeardownDone \/ idle_task_function
    PROVE  ResultInv'
<1>1. UNCHANGED <<syscall_result, owner>>
  BY DEF v_kernel_tick, SleepersDone, TickDone, ObserversDone, InheritHop,
         WakeSleeper, TeardownDone, idle_task_function, task_delay, v_semaphore_take
<1> SUFFICES ASSUME NEW t \in Task, status[t] = "READY", Alive(t)'
             PROVE  status'[t] = "READY" /\ call'[t] = call[t]
  BY <1>1, ResultsKept
<1>2. CASE v_kernel_tick \/ SleepersDone \/ TickDone \/ ObserversDone \/ InheritHop
  BY <1>2, LoopsUnblocked
<1>3. CASE WakeSleeper
  <2>1. Head(delayed_list) \in Task
    BY <1>3, TailRange, Types DEF WakeSleeper, SleeperDue
  <2>2. QED
    BY <1>3, <2>1, Types DEF WakeSleeper
<1>4. CASE TeardownDone
  BY <1>4, Types DEF TeardownDone, Alive
<1>5. CASE idle_task_function
  BY <1>5, Types DEF idle_task_function
<1>6. ASSUME NEW c \in Task, NEW n \in DelayTicks, task_delay(c, n)
      PROVE  status'[t] = "READY" /\ call'[t] = call[t]
  <2>1. status[c] = "RUNNING"
    BY <1>6, Caller DEF task_delay
  <2>2. QED
    BY <1>6, <2>1, Types DEF task_delay
<1>7. ASSUME NEW c \in Task, NEW s \in Sem, NEW n \in TakeTicks, v_semaphore_take(c, s, n)
      PROVE  status'[t] = "READY" /\ call'[t] = call[t]
  <2>1. status[c] = "RUNNING"
    BY <1>7, Caller DEF v_semaphore_take
  <2>2. QED
    BY <1>7, <2>1, Types DEF v_semaphore_take, BlockOn, Park
<1>8. QED
  BY <1>2, <1>3, <1>4, <1>5, <1>6, <1>7

\* A lock that ends: the new owner is the task that runs.
LEMMA LockTakeResult ==
    ASSUME IInv, LInv, AliveStays, ResultInv, LockTake
    PROVE  ResultInv'
<1> DEFINE c == handler.task
           m == call[c].obj
<1>1. c \in Task /\ m \in Mutex /\ handler.at = "inherit" /\ UNCHANGED syscall_result
  BY InheritFacts DEF LockTake, IInv
<1>2. status[c] = "RUNNING"
  BY <1>1 DEF LInv, HandlerInv, RunInv
<1> HIDE DEF c, m
<1>3. /\ \A t \in Task \ {c} : status'[t] = status[t] /\ call'[t] = call[t]
      /\ owner' = owner \/ (owner' = [owner EXCEPT ![m] = c] /\ owner[m] = NULL)
  <2>1. count[m] > 0 => owner[m] = NULL
    BY <1>1 DEF IInv, MutexOwnership
  <2>2. QED
    BY <1>1, <2>1, Types DEF LockTake, BlockOn, Park, Own, c, m
<1>4. \A t \in Task \ {c} : \A x \in Mutex : owner'[x] = t <=> owner[x] = t
  BY <1>1, <1>3, Types
<1>5. QED
  BY <1>1, <1>2, <1>3, <1>4, ResultsKept

\* An unlock and a teardown give away a mutex of a task that is not ready or not alive.
LEMMA UnlockResult ==
    ASSUME IInv, LInv, TimeInv, AliveStays, ResultInv,
           TeardownMutex \/ \E c \in Task, m \in Mutex : v_mutex_unlock(c, m)
    PROVE  ResultInv'
<1>1. ASSUME NEW c \in Task, NEW m \in Mutex, v_mutex_unlock(c, m) PROVE ResultInv'
  <2>1. /\ owner[m] = c /\ HandOver(m, [held_mutexes EXCEPT ![c] = Unlink(@, m)])
        /\ \A t \in Task \ {c} : call'[t] = call[t]
    BY <1>1, Types DEF v_mutex_unlock, mutex_unlock_common
  <2>2. status[c] = "RUNNING"
    BY <1>1, UnlockUnblocked
  <2>3. QED
    BY <2>1, <2>2, HandOverResult
<1>2. CASE TeardownMutex
  <2> DEFINE t == handler.task
             m == Head(held_mutexes[t])
  <2>1. /\ t \in Task /\ handler.at = "teardown" /\ UNCHANGED <<handler, call>>
        /\ m \in Mutex /\ m \in ToSet(held_mutexes[t])
        /\ HandOver(m, [held_mutexes EXCEPT ![t] = Tail(@)])
    BY <1>2, TeardownTask, TailRange, Types DEF TeardownMutex, IInv
  <2>2. owner[m] = t
    BY <2>1 DEF IInv, MutexOwnership
  <2>3. \A u \in Task : Alive(u)' => u # handler.task
    BY <2>1 DEF Alive, InTeardown
  <2> HIDE DEF m
  <2>4. QED
    BY <2>1, <2>2, <2>3, HandOverResult
<1>3. QED
  BY <1>1, <1>2

\* Every step keeps the results true.
LEMMA StepResult ==
    ASSUME FdLists = {}, IInv, LInv, NoMultiwait, StayDead, TimeInv, ResultInv, [Next]_vars
    PROVE  ResultInv'
<1>0. AliveStays /\ current_task \in Task /\ ~WakeObserver
  BY NobodyRevives, NoObserver, Types
<1>1. ASSUME NEW c \in Task, Syscall(c) PROVE ResultInv'
  <2>1. ASSUME NEW s \in Sem, v_semaphore_give(c, s) PROVE ResultInv'
    BY <1>0, <2>1, GiveResult DEF v_semaphore_give
  <2>2. CASE \/ \E m \in Mutex, n \in TakeTicks : v_mutex_lock(c, m, n)
             \/ \E m \in Mutex : RecursiveRelock(c, m) \/ v_mutex_unlock_recursive(c, m)
             \/ task_yield(c) \/ v_wait_disarm_impl(c) \/ v_task_exit_impl(c)
             \/ \E t \in Task : task_exit_request(c, t)
    <3>1. UNCHANGED <<status, syscall_result>> /\ status[c] = "RUNNING"
      BY <2>2, CallsUnblocked
    <3>2. UNCHANGED owner /\ \A t \in Task \ {c} : call'[t] = call[t]
      BY <2>2, Types DEF v_mutex_lock, RecursiveRelock, v_mutex_unlock_recursive, task_yield,
             v_wait_disarm_impl, v_task_exit_impl, task_exit_request
    <3>3. QED
      BY <1>0, <3>1, <3>2, ResultsKept
  <2>3. QED
    BY <1>0, <1>1, <2>1, <2>2, UnlockResult, PlainResult DEF Syscall
<1>2. ASSUME NEW s \in Sem, v_semaphore_give_from_isr(s) PROVE ResultInv'
  BY <1>0, <1>2, GiveResult DEF v_semaphore_give_from_isr
<1>3. CASE HandlerStep \/ v_kernel_tick \/ PendSV \/ idle_task_function
  BY <1>0, <1>3, PlainResult, LockTakeResult, UnlockResult, EjectResult, SwitchResult
     DEF HandlerStep
<1>4. CASE UNCHANGED vars
  BY <1>0, <1>4, ResultsKept DEF vars
<1>5. QED
  BY <1>0, <1>1, <1>2, <1>3, <1>4 DEF Next, Interrupt

\* The result of a lock is true, for any number of tasks and mutexes: in a system whose
\* tasks do not call v_wait and lock no mutex they own, a lock that will return VA_PASS
\* owns its mutex already and one that will return VA_FAIL neither owns it nor waits for
\* it, whatever hand-over, timeout or kill comes between the wake and the return.
THEOREM LockResultSafe ==
    ASSUME FdLists = {}, ~MayRelock
    PROVE  Spec => []LockResultTrue
<1>1. ASSUME IInv, LInv, ResultInv PROVE LockResultTrue
  <2> SUFFICES ASSUME NEW t \in Task, call[t].op = "lock", Alive(t)
      PROVE  /\ syscall_result[t] = VA_PASS => owner[call[t].obj] = t
             /\ syscall_result[t] = VA_FAIL =>
                  owner[call[t].obj] # t /\ t \notin ToSet(wait_q[call[t].obj])
    BY DEF LockResultTrue
  <2>1. NoResult # VA_PASS /\ NoResult # VA_FAIL
    BY DEF NoResult, VA_PASS, VA_FAIL
  <2>2. call[t].obj \in Obj
    BY <1>1, Types DEF Call
  <2>3. status[t] = "READY" => t \notin ToSet(wait_q[call[t].obj])
    BY <1>1, <2>2 DEF LInv, Queues, QueuesOk, Listed, Waiting
  <2>4. QED
    BY <1>1, <2>1, <2>3 DEF ResultInv, ResultOk
<1>2. IInv /\ LInv /\ NoMultiwait /\ [Next]_vars => LInv' /\ NoMultiwait' /\ StayDead
  BY StepLists
<1>3. IInv /\ LInv /\ NoMultiwait /\ TimeInv /\ [Next]_vars => TimeInv'
  BY StepTime
<1>4. IInv /\ LInv /\ NoMultiwait /\ TimeInv /\ ResultInv /\ [Next]_vars => ResultInv'
  BY <1>2, StepResult
<1>5. Init => ResultInv
  BY DEF Init, ResultInv, ResultOk, NoResult, VA_PASS, VA_FAIL
<1>6. QED
  BY <1>1, <1>2, <1>3, <1>4, <1>5, InitLists, InitTime, Inductive, PTL DEF Spec
------------------------------------------------------------------------------
(* Priorities *)

\* The pairs of tasks the first of which runs at no less than the base priority of the
\* second.
Outlasts(p) == {x \in Task \X Task : p[x[1]] >= BasePriority[x[2]]}

\* No task runs below its base priority.
BaseInv == \A t \in Task : priority[t] >= BasePriority[t]

\* A queue is in an order that survives later boosts: sorted when each joined it.
QueueOrder == \A m \in Mutex : InOrder(wait_q[m], Outlasts(priority))

\* Once the walk has left the caller's mutex, the owner has the caller's priority.
WalkInv ==
    handler.at = "inherit" =>
      LET m == call[handler.task].obj IN
        \/ handler.obj = m \/ owner[m] = NULL
        \/ priority[owner[m]] >= priority[handler.task]

BoostInv == BaseInv /\ QueueOrder /\ InheritedPriority /\ BoostEnds
PrioInv == BoostInv /\ WalkInv

\* The priorities are numbers; who is queued for a mutex is blocked, and it has an owner.
LEMMA PrioFacts ==
    ASSUME IInv, LInv
    PROVE  /\ \A t \in Task : priority[t] \in Int /\ BasePriority[t] \in Int
           /\ \A m \in Mutex, w \in Task : w \in ToSet(wait_q[m]) =>
                status[w] = "BLOCKED" /\ owner[m] \in Task
           /\ \A m \in Mutex : /\ wait_q[m] \in Seq(Task) /\ NoDup(wait_q[m])
                               /\ \A w \in ToSet(wait_q[m]) : w \in Task
                               /\ DOMAIN wait_q[m] = 1..Len(wait_q[m])
                               /\ \A i \in DOMAIN wait_q[m] : wait_q[m][i] \in ToSet(wait_q[m])
<1>1. \A t \in Task : priority[t] \in Int /\ BasePriority[t] \in Int
  BY Types, Constants, TaskAssumption DEF Priority
<1>2. \A m \in Mutex : wait_q[m] \in Seq(Task) /\ Listed(wait_q[m], Waiting(status, wait_sem, m))
  BY Types DEF LInv, Queues, QueuesOk
<1>3. ASSUME NEW m \in Mutex, NEW w \in Task, w \in ToSet(wait_q[m])
      PROVE  status[w] = "BLOCKED" /\ owner[m] \in Task
  <2>1. status[w] = "BLOCKED"
    BY <1>2, <1>3 DEF Listed, Waiting
  <2>2. wait_q[m] # <<>>
    BY <1>3, EmptyRange
  <2>3. count[m] = 0
    BY <2>2, Types DEF IInv, NoLostWakeup
  <2>4. owner[m] # NULL
    BY <2>3 DEF IInv, MutexOwnership
  <2>5. QED
    BY <2>1, <2>4, Types
<1>4. ASSUME NEW m \in Mutex
      PROVE  /\ wait_q[m] \in Seq(Task) /\ NoDup(wait_q[m])
             /\ \A w \in ToSet(wait_q[m]) : w \in Task
             /\ DOMAIN wait_q[m] = 1..Len(wait_q[m])
             /\ \A i \in DOMAIN wait_q[m] : wait_q[m][i] \in ToSet(wait_q[m])
  BY <1>2, LenProperties DEF Listed, ToSet
<1>5. QED
  BY <1>1, <1>3, <1>4

\* An order that holds for some priorities holds when those of the queued rise.
LEMMA OrderRises ==
    ASSUME NEW q \in Seq(Task), NEW p, NEW r, InOrder(q, Outlasts(p)),
           \A i \in DOMAIN q : p[q[i]] \in Int /\ r[q[i]] \in Int /\ r[q[i]] >= p[q[i]],
           \A t \in Task : BasePriority[t] \in Int
    PROVE  InOrder(q, Outlasts(r))
<1> SUFFICES ASSUME NEW i \in DOMAIN q, NEW j \in DOMAIN q, i < j
             PROVE  <<q[i], q[j]>> \in Outlasts(r)
  BY DEF InOrder
<1>1. <<q[i], q[j]>> \in Outlasts(p)
  BY DEF InOrder
<1>2. q[i] \in Task /\ q[j] \in Task /\ p[q[i]] >= BasePriority[q[j]]
  BY <1>1 DEF Outlasts
<1>3. r[q[i]] >= BasePriority[q[j]]
  BY <1>2
<1>4. QED
  BY <1>2, <1>3 DEF Outlasts

\* The first in a queue runs at least at the base priority of all in it.
LEMMA HeadOutlasts ==
    ASSUME IInv, LInv, BoostInv, NEW m \in Mutex, NEW w \in ToSet(wait_q[m])
    PROVE  wait_q[m] # <<>> /\ priority[Head(wait_q[m])] >= BasePriority[w]
<1>1. wait_q[m] # <<>> /\ w \in Task
  BY EmptyRange, PrioFacts
<1>2. /\ Head(wait_q[m]) \in Task
      /\ ToSet(Tail(wait_q[m])) = ToSet(wait_q[m]) \ {Head(wait_q[m])}
      /\ \A x \in ToSet(Tail(wait_q[m])) : <<Head(wait_q[m]), x>> \in Outlasts(priority)
  BY <1>1, PrioFacts, TailRange, TailInOrder DEF BoostInv, QueueOrder
<1>3. CASE w = Head(wait_q[m])
  BY <1>1, <1>3 DEF BoostInv, BaseInv
<1>4. CASE w # Head(wait_q[m])
  <2>1. <<Head(wait_q[m]), w>> \in Outlasts(priority)
    BY <1>2, <1>4
  <2>2. QED
    BY <1>1, <2>1 DEF Outlasts
<1>5. QED
  BY <1>3, <1>4

\* A step that makes no queue longer, moves no mutex and lowers no priority.
LEMMA BoostKept ==
    ASSUME IInv, LInv, IInv', AliveStays, BoostInv,
           UNCHANGED <<owner, held_mutexes>>,
           \A t \in Task : priority'[t] >= priority[t],
           \A t \in Task : held_mutexes[t] = <<>> => priority'[t] = priority[t],
           \A m \in Mutex : \/ wait_q'[m] = wait_q[m]
                            \/ \E x \in Task : wait_q'[m] = Unlink(wait_q[m], x)
    PROVE  BoostInv'
<1>1. \A t \in Task : priority'[t] \in Int /\ priority[t] \in Int /\ BasePriority[t] \in Int
  BY PrioFacts, Constants, TaskAssumption DEF IInv, TypeOK, TaskTypeOK, Priority
<1>2. BaseInv'
  BY <1>1 DEF BoostInv, BaseInv
<1>3. BoostEnds'
  BY DEF BoostInv, BoostEnds, AliveStays
<1>4. ASSUME NEW m \in Mutex
      PROVE  /\ InOrder(wait_q'[m], Outlasts(priority')) /\ wait_q[m] \in Seq(Task)
             /\ ToSet(wait_q'[m]) \subseteq ToSet(wait_q[m])
  <2>1. wait_q[m] \in Seq(Task) /\ \A i \in DOMAIN wait_q[m] : wait_q[m][i] \in Task
    BY PrioFacts
  <2>2. InOrder(wait_q[m], Outlasts(priority'))
    BY <1>1, <2>1, OrderRises DEF BoostInv, QueueOrder
  <2>3. CASE wait_q'[m] = wait_q[m]
    BY <2>1, <2>2, <2>3
  <2>4. ASSUME NEW x \in Task, wait_q'[m] = Unlink(wait_q[m], x)
        PROVE  /\ InOrder(wait_q'[m], Outlasts(priority'))
               /\ ToSet(wait_q'[m]) \subseteq ToSet(wait_q[m])
    <3>1. InOrder(Unlink(wait_q[m], x), Outlasts(priority'))
      BY <2>1, <2>2, UnlinkInOrder
    <3>2. ToSet(Unlink(wait_q[m], x)) = ToSet(wait_q[m]) \ {x}
      BY PrioFacts, UnlinkRange
    <3>3. QED
      BY <2>4, <3>1, <3>2
  <2>5. QED
    BY <2>1, <2>3, <2>4
<1>5. QueueOrder'
  BY <1>4 DEF QueueOrder
<1>6. InheritedPriority'
  <2> SUFFICES ASSUME NEW m \in Mutex, NEW w \in ToSet(wait_q'[m])
               PROVE  priority'[owner[m]] >= BasePriority[w]
    BY DEF InheritedPriority
  <2>1. w \in ToSet(wait_q[m])
    BY <1>4
  <2>2. w \in Task /\ owner[m] \in Task
    BY <2>1, PrioFacts
  <2>3. priority[owner[m]] >= BasePriority[w]
    BY <2>1 DEF BoostInv, InheritedPriority
  <2>4. QED
    BY <1>1, <2>2, <2>3
<1>7. QED
  BY <1>2, <1>3, <1>5, <1>6 DEF BoostInv

\* A mutex changes hands: its new owner was first in the queue.
LEMMA HandOverBoost ==
    ASSUME IInv, LInv, IInv', AliveStays, BoostInv, NEW m \in Mutex,
           NEW held \in [Task -> Seq(Mutex)], HandOver(m, held),
           \A t \in Task : status[t] = "BLOCKED" => priority'[t] = priority[t],
           \A t \in Task : priority'[t] >= BasePriority[t],
           \A t \in Task : held[t] = <<>> /\ Alive(t)' => priority'[t] = BasePriority[t],
           \A x \in Mutex : x # m =>
             \A w \in ToSet(wait_q[x]) : priority'[owner[x]] >= BasePriority[w]
    PROVE  BoostInv'
<1>1. \A t \in Task : priority'[t] \in Int /\ priority[t] \in Int /\ BasePriority[t] \in Int
  BY PrioFacts, Constants, TaskAssumption DEF IInv, TypeOK, TaskTypeOK, Priority
<1>2. BaseInv'
  BY DEF BaseInv
<1>3. ASSUME NEW x \in Mutex PROVE InOrder(wait_q[x], Outlasts(priority'))
  <2>1. wait_q[x] \in Seq(Task)
        /\ \A i \in DOMAIN wait_q[x] : /\ wait_q[x][i] \in Task
                                       /\ priority'[wait_q[x][i]] = priority[wait_q[x][i]]
    BY PrioFacts
  <2>2. QED
    BY <1>1, <2>1, OrderRises DEF BoostInv, QueueOrder
<1>4. CASE wait_q[m] # <<>>
  <2>1. PICK w \in Task :
        /\ w = Head(wait_q[m]) /\ status[w] = "BLOCKED"
        /\ wait_q' = [wait_q EXCEPT ![m] = Tail(@)]
        /\ owner' = [owner EXCEPT ![m] = w]
        /\ held_mutexes' = [held EXCEPT ![w] = <<m>> \o @]
    BY <1>4, FirstWaiter, Types DEF HandOver, Own
  <2>2. /\ wait_q'[m] = Tail(wait_q[m]) /\ \A x \in Mutex \ {m} : wait_q'[x] = wait_q[x]
        /\ owner'[m] = w /\ \A x \in Mutex \ {m} : owner'[x] = owner[x]
        /\ \A t \in Task \ {w} : held_mutexes'[t] = held[t]
        /\ held_mutexes'[w] = <<m>> \o held[w]
    BY <2>1, Types
  <2>3. InOrder(Tail(wait_q[m]), Outlasts(priority'))
    BY <1>3, <1>4, PrioFacts, TailInOrder
  <2>4. QueueOrder'
    BY <1>3, <2>2, <2>3 DEF QueueOrder
  <2>5. InheritedPriority'
    <3>1. ASSUME NEW x \in Mutex, x # m
          PROVE  \A u \in ToSet(wait_q'[x]) : priority'[owner'[x]] >= BasePriority[u]
      BY <3>1, <2>2
    <3>2. \A u \in ToSet(Tail(wait_q[m])) : u \in ToSet(wait_q[m])
      BY <1>4, PrioFacts, TailRange
    <3>3. \A u \in ToSet(wait_q'[m]) : priority'[owner'[m]] >= BasePriority[u]
      BY <2>1, <2>2, <3>2, HeadOutlasts
    <3>4. QED
      BY <3>1, <3>3 DEF InheritedPriority
  <2>6. BoostEnds'
    <3>1. held_mutexes'[w] # <<>>
      BY <2>2, PushRange
    <3>2. QED
      BY <2>2, <3>1 DEF BoostEnds
  <2>7. QED
    BY <1>2, <2>4, <2>5, <2>6 DEF BoostInv
<1>5. CASE wait_q[m] = <<>>
  <2>1. UNCHANGED wait_q /\ owner' = [owner EXCEPT ![m] = NULL] /\ held_mutexes' = held
    BY <1>5 DEF HandOver
  <2>2. QueueOrder'
    BY <1>3, <2>1 DEF QueueOrder
  <2>3. InheritedPriority'
    BY <1>5, <2>1, EmptyRange, Types DEF InheritedPriority
  <2>4. BoostEnds'
    BY <2>1 DEF BoostEnds
  <2>5. QED
    BY <1>2, <2>2, <2>3, <2>4 DEF BoostInv
<1>6. QED
  BY <1>4, <1>5

\* An unlock: the floor covers the waiters of the mutexes that are still held.
LEMMA UnlockBoost ==
    ASSUME IInv, LInv, IInv', AliveStays, BoostInv, NEW c \in Task, NEW m \in Mutex,
           v_mutex_unlock(c, m)
    PROVE  BoostInv'
<1> DEFINE held == [held_mutexes EXCEPT ![c] = Unlink(@, m)]
<1>1. PICK p \in Priority : /\ FloorPriority(c, held[c], p)
                            /\ priority' = [priority EXCEPT ![c] = p]
  BY DEF v_mutex_unlock, mutex_unlock_common
<1>2. owner[m] = c /\ HandOver(m, held)
  BY DEF v_mutex_unlock, mutex_unlock_common
<1>3. status[c] = "RUNNING"
  BY UnlockUnblocked
<1>4. /\ held \in [Task -> Seq(Mutex)] /\ held[c] = Unlink(held_mutexes[c], m)
      /\ \A t \in Task \ {c} : held[t] = held_mutexes[t]
  BY UnlinkType, Types
<1>5. priority'[c] = p /\ \A t \in Task \ {c} : priority'[t] = priority[t]
  BY <1>1, Types
<1>6. ToSet(held[c]) = ToSet(held_mutexes[c]) \ {m}
  BY <1>4, UnlinkRange, Types DEF IInv, MutexOwnership
<1> HIDE DEF held
<1>7. p >= BasePriority[c] /\ \A x \in ToSet(held[c]) : p >= mutex_top_waiter_prio(x)
  <2> DEFINE floors == {BasePriority[c]} \cup {mutex_top_waiter_prio(x) : x \in ToSet(held[c])}
  <2>1. /\ \A q \in floors : q <= p
        /\ BasePriority[c] \in floors
        /\ \A x \in ToSet(held[c]) : mutex_top_waiter_prio(x) \in floors
    BY <1>1 DEF FloorPriority
  <2>2. \A x \in ToSet(held[c]) : mutex_top_waiter_prio(x) <= p
    BY <2>1
  <2>3. QED
    BY <2>1, <2>2
<1>8. held[c] = <<>> => p = BasePriority[c]
  BY <1>1, EmptyRange DEF FloorPriority
<1>9. \A t \in Task : priority'[t] >= BasePriority[t]
  BY <1>5, <1>7 DEF BoostInv, BaseInv
<1>10. \A t \in Task : held[t] = <<>> /\ Alive(t)' => priority'[t] = BasePriority[t]
  BY <1>4, <1>5, <1>8 DEF BoostInv, BoostEnds, AliveStays
<1>11. ASSUME NEW x \in Mutex, x # m, NEW w \in ToSet(wait_q[x])
       PROVE  priority'[owner[x]] >= BasePriority[w]
  <2>1. w \in Task /\ owner[x] \in Task
    BY PrioFacts
  <2>2. CASE owner[x] # c
    BY <1>5, <2>1, <2>2 DEF BoostInv, InheritedPriority
  <2>3. CASE owner[x] = c
    <3>1. x \in ToSet(held[c])
      BY <1>6, <1>11, <2>3 DEF IInv, MutexOwnership
    <3>2. wait_q[x] # <<>> /\ priority[Head(wait_q[x])] >= BasePriority[w]
      BY HeadOutlasts
    <3>3. p >= priority[Head(wait_q[x])]
      BY <1>7, <3>1, <3>2 DEF mutex_top_waiter_prio
    <3>4. Head(wait_q[x]) \in Task
      BY <3>2, PrioFacts, TailRange
    <3>5. p \in Int /\ priority[Head(wait_q[x])] \in Int /\ BasePriority[w] \in Int
      BY <2>1, <3>4, PrioFacts, TaskAssumption DEF Priority
    <3>6. QED
      BY <1>5, <2>3, <3>2, <3>3, <3>5
  <2>4. QED
    BY <2>2, <2>3
<1>12. \A t \in Task : status[t] = "BLOCKED" => priority'[t] = priority[t]
  BY <1>3, <1>5
<1>13. QED
  BY <1>2, <1>4, <1>9, <1>10, <1>11, <1>12, HandOverBoost

\* One mutex of a teardown.
LEMMA TeardownBoost ==
    ASSUME IInv, LInv, IInv', AliveStays, BoostInv, TeardownMutex
    PROVE  BoostInv'
<1> DEFINE t == handler.task
           m == Head(held_mutexes[t])
           held == [held_mutexes EXCEPT ![t] = Tail(@)]
<1>1. /\ t \in Task /\ handler.at = "teardown" /\ UNCHANGED <<priority, handler>>
      /\ m \in Mutex /\ HandOver(m, held) /\ Tail(held_mutexes[t]) \in Seq(Mutex)
  BY TeardownTask, TailRange, Types DEF TeardownMutex, IInv
<1>2. \A u \in Task : Alive(u)' => u # t
  BY <1>1 DEF Alive, InTeardown
<1>3. held \in [Task -> Seq(Mutex)] /\ \A u \in Task \ {t} : held[u] = held_mutexes[u]
  BY <1>1, Types
<1>4. \A u \in Task : held[u] = <<>> /\ Alive(u)' => priority'[u] = BasePriority[u]
  BY <1>1, <1>2, <1>3 DEF BoostInv, BoostEnds, AliveStays
<1> HIDE DEF m, held
<1>5. \A u \in Task : priority'[u] = priority[u]
  BY <1>1
<1>6. \A u \in Task : priority'[u] >= BasePriority[u]
  BY <1>5 DEF BoostInv, BaseInv
<1>7. \A x \in Mutex : x # m =>
        \A w \in ToSet(wait_q[x]) : priority'[owner[x]] >= BasePriority[w]
  BY <1>1 DEF BoostInv, InheritedPriority
<1>8. QED
  BY <1>1, <1>3, <1>4, <1>5, <1>6, <1>7, HandOverBoost

\* Steps that leave the priorities, the mutexes and their queues alone.
LEMMA BoostSame ==
    ASSUME IInv, LInv, IInv', AliveStays, BoostInv, UNCHANGED <<priority, owner, held_mutexes>>,
           \A m \in Mutex : \/ wait_q'[m] = wait_q[m]
                            \/ \E x \in Task : wait_q'[m] = Unlink(wait_q[m], x)
    PROVE  BoostInv'
<1>1. \A t \in Task : priority'[t] >= priority[t] /\ priority'[t] = priority[t]
  BY PrioFacts
<1>2. QED
  BY <1>1, BoostKept

\* A hop raises a task that holds a mutex, and not the caller.
LEMMA HopBoost ==
    ASSUME IInv, LInv, IInv', AliveStays, PrioInv, InheritHop
    PROVE  PrioInv'
<1> DEFINE c == handler.task
           o == owner[handler.obj]
<1>1. /\ handler.at = "inherit" /\ handler.obj \in Mutex /\ c \in Task /\ o \in Task
      /\ priority[o] < priority[c] /\ call[c].obj \in Mutex
  BY InheritFacts, Types DEF InheritHop, Outranked, IInv
<1>2. UNCHANGED <<status, owner, held_mutexes, wait_q, call>>
  BY DEF InheritHop
<1> HIDE DEF o, c
<1>3. CASE handler' = [handler EXCEPT !.at = "panic"] /\ UNCHANGED priority
  <2>1. handler'.at = "panic"
    BY <1>3 DEF IInv, TypeOK, CallTypeOK, Handler
  <2>2. QED
    BY <1>2, <1>3, <2>1, BoostSame DEF PrioInv, WalkInv
<1>4. CASE /\ task_change_priority(o, priority[c])
           /\ handler'.at = "inherit" /\ handler'.task = c
  <2>1. priority'[o] = priority[c] /\ \A t \in Task \ {o} : priority'[t] = priority[t]
    BY <1>1, <1>4, Types DEF task_change_priority
  <2>2. \A t \in Task : priority[t] \in Int /\ priority'[t] \in Int
    BY PrioFacts, TaskAssumption DEF IInv, TypeOK, TaskTypeOK, Priority
  <2>3. o # c /\ \A t \in Task : priority'[t] >= priority[t]
    BY <1>1, <2>1, <2>2
  <2>4. held_mutexes[o] # <<>>
    BY <1>1, EmptyRange DEF IInv, MutexOwnership, o
  <2>5. BoostInv'
    BY <1>2, <2>1, <2>3, <2>4, BoostKept DEF PrioInv
  <2>6. WalkInv'
    <3> SUFFICES owner[call[c].obj] = NULL \/ priority'[owner[call[c].obj]] >= priority'[c]
      BY <1>2, <1>4 DEF WalkInv
    <3>1. priority'[c] = priority[c]
      BY <1>1, <2>1, <2>3
    <3>2. CASE handler.obj = call[c].obj
      BY <1>1, <2>1, <2>2, <3>1, <3>2 DEF o
    <3>3. CASE handler.obj # call[c].obj
      <4>1. owner[call[c].obj] = NULL \/ priority[owner[call[c].obj]] >= priority[c]
        BY <1>1, <3>3 DEF PrioInv, WalkInv, c
      <4>2. owner[call[c].obj] = NULL \/ owner[call[c].obj] \in Task
        BY <1>1, Types
      <4>3. QED
        BY <1>1, <2>2, <2>3, <3>1, <4>1, <4>2
    <3>4. QED
      BY <3>2, <3>3
  <2>7. QED
    BY <2>5, <2>6 DEF PrioInv
<1>5. QED
  BY <1>3, <1>4 DEF InheritHop, c, o

\* A lock ends.  Who blocks has lent the owner its priority and stands behind those that
\* are as urgent.
LEMMA LockTakeBoost ==
    ASSUME IInv, LInv, IInv', AliveStays, PrioInv, LockTake
    PROVE  BoostInv'
<1> DEFINE c == handler.task
           m == call[c].obj
<1>1. c \in Task /\ m \in Mutex /\ m \in Obj /\ handler.at = "inherit"
  BY InheritFacts, Types DEF LockTake, IInv
<1>2. status[c] = "RUNNING"
  BY <1>1 DEF LInv, HandlerInv, RunInv
<1>3. owner[m] = NULL \/ priority[owner[m]] >= priority[c]
  <2>1. owner[m] \in Task \cup {NULL}
    BY <1>1, Types
  <2>2. handler.obj = m => owner[m] = NULL \/ ~(priority[owner[m]] < priority[c])
    BY <1>1, Types DEF LockTake, Outranked
  <2>3. handler.obj # m => owner[m] = NULL \/ priority[owner[m]] >= priority[c]
    BY <1>1 DEF PrioInv, WalkInv
  <2>4. QED
    BY <1>1, <2>1, <2>2, <2>3, PrioFacts
<1> HIDE DEF c, m
<1>4. CASE /\ count[m] > 0 /\ owner[m] # c /\ Own(m, c, held_mutexes)
           /\ UNCHANGED <<priority, wait_q>>
  <2>1. wait_q[m] = <<>>
    BY <1>1, <1>4, Types DEF IInv, NoLostWakeup, TypeOK, ObjTypeOK
  <2>2. /\ \A x \in Mutex \ {m} : owner'[x] = owner[x]
        /\ \A t \in Task \ {c} : held_mutexes'[t] = held_mutexes[t]
        /\ held_mutexes'[c] = <<m>> \o held_mutexes[c]
    BY <1>1, <1>4, Types DEF Own
  <2>3. held_mutexes'[c] # <<>>
    BY <1>1, <2>2, PushRange, Types
  <2>4. BaseInv' /\ QueueOrder'
    BY <1>4 DEF PrioInv, BoostInv, BaseInv, QueueOrder
  <2>5. InheritedPriority'
    BY <1>4, <2>1, <2>2, EmptyRange DEF PrioInv, BoostInv, InheritedPriority
  <2>6. BoostEnds'
    BY <1>4, <2>2, <2>3 DEF PrioInv, BoostInv, BoostEnds, AliveStays
  <2>7. QED
    BY <2>4, <2>5, <2>6 DEF BoostInv
<1>5. CASE UNCHANGED <<priority, wait_q, mutexVars>>
  BY <1>5, BoostSame DEF PrioInv
<1>6. CASE /\ count[m] = 0 /\ wait_q' = [wait_q EXCEPT ![m] = wait_q_enqueue(@, c)]
           /\ UNCHANGED <<priority, mutexVars>>
  <2> DEFINE q == wait_q[m]
             T == {w \in Task : priority[w] >= priority[c]}
             b == 1 + PrefixLen(q, T)
             R == Outlasts(priority)
  <2>1. /\ q \in Seq(Task) /\ DOMAIN q = 1..Len(q) /\ Len(q) \in Nat
        /\ \A i \in 1..Len(q) : q[i] \in Task
    BY <1>1, PrioFacts, LenProperties
  <2>2. wait_q'[m] = InsertAt(q, b, c) /\ \A x \in Mutex \ {m} : wait_q'[x] = wait_q[x]
    BY <1>1, <1>6, Types DEF wait_q_enqueue
  <2>3. /\ PrefixLen(q, T) \in 0..Len(q) /\ \A i \in 1..PrefixLen(q, T) : q[i] \in T
        /\ PrefixLen(q, T) < Len(q) => q[PrefixLen(q, T) + 1] \notin T
    BY <2>1, PrefixLenMeans
  <2>4. InOrder(q, R) /\ priority[c] >= BasePriority[c]
    BY <1>1 DEF PrioInv, BoostInv, QueueOrder, BaseInv
  <2>5. ASSUME NEW k \in 1..Len(q)
        PROVE  IF k < b THEN <<q[k], c>> \in R ELSE <<c, q[k]>> \in R
    <3>1. /\ q[k] \in Task /\ priority[q[k]] \in Int /\ BasePriority[q[k]] \in Int
          /\ priority[c] \in Int /\ BasePriority[c] \in Int
      BY <1>1, <2>1, PrioFacts
    <3>2. CASE k < b
      <4>1. q[k] \in T
        BY <2>1, <2>3, <3>2
      <4>2. priority[q[k]] >= BasePriority[c]
        BY <3>1, <4>1, <2>4
      <4>3. QED
        BY <1>1, <3>1, <3>2, <4>2 DEF Outlasts
    <3>3. CASE ~(k < b)
      <4>1. b \in 1..Len(q) /\ q[b] \notin T
        BY <2>1, <2>3, <3>3
      <4>2. q[b] \in Task /\ priority[q[b]] \in Int /\ BasePriority[q[b]] \in Int
        BY <2>1, <4>1, PrioFacts
      <4>3. priority[q[b]] < priority[c]
        BY <3>1, <4>1, <4>2
      <4>4. priority[q[b]] >= BasePriority[q[k]]
        <5>1. CASE b = k
          BY <4>2, <5>1 DEF PrioInv, BoostInv, BaseInv
        <5>2. CASE b < k
          BY <2>1, <2>4, <4>1, <5>2 DEF InOrder, Outlasts
        <5>3. QED
          BY <3>3, <4>1, <5>1, <5>2
      <4>5. priority[c] >= BasePriority[q[k]]
        BY <3>1, <4>2, <4>3, <4>4
      <4>6. QED
        BY <1>1, <3>1, <3>3, <4>5 DEF Outlasts
    <3>4. QED
      BY <3>2, <3>3
  <2>6. b \in 1..(Len(q) + 1)
    BY <2>1, PrefixLenBound
  <2> HIDE DEF b, R
  <2>7. InOrder(InsertAt(q, b, c), R) /\ ToSet(InsertAt(q, b, c)) = ToSet(q) \cup {c}
    <3>1. InOrder(InsertAt(q, b, c), R)
      BY <1>1, <2>1, <2>4, <2>5, <2>6, InsertInOrder
    <3>2. ToSet(InsertAt(q, b, c)) = ToSet(q) \cup {c}
      BY <1>1, <2>1, <2>6, InsertAtRange
    <3>3. QED
      BY <3>1, <3>2
  <2>8. QueueOrder'
    BY <1>6, <2>2, <2>7 DEF PrioInv, BoostInv, QueueOrder, R
  <2>9. owner[m] \in Task /\ priority[owner[m]] >= BasePriority[c]
    <3>1. owner[m] # NULL
      BY <1>1, <1>6 DEF IInv, MutexOwnership
    <3>2. owner[m] \in Task
      BY <1>1, <3>1, Types
    <3>3. QED
      BY <1>1, <1>3, <2>4, <3>1, <3>2, PrioFacts
  <2>10. InheritedPriority'
    <3>1. ASSUME NEW x \in Mutex, NEW w \in ToSet(wait_q'[x])
          PROVE  priority[owner[x]] >= BasePriority[w]
      <4>1. CASE x = m
        BY <2>2, <2>7, <2>9, <3>1, <4>1 DEF PrioInv, BoostInv, InheritedPriority
      <4>2. CASE x # m
        BY <2>2, <3>1, <4>2 DEF PrioInv, BoostInv, InheritedPriority
      <4>3. QED
        BY <4>1, <4>2
    <3>2. QED
      BY <1>6, <3>1 DEF InheritedPriority
  <2>11. BaseInv' /\ BoostEnds'
    BY <1>6 DEF PrioInv, BoostInv, BaseInv, BoostEnds, AliveStays
  <2>12. QED
    BY <2>8, <2>10, <2>11 DEF BoostInv
<1>7. QED
  BY <1>4, <1>5, <1>6 DEF LockTake, BlockOn, c, m

\* Every step keeps the priorities.
LEMMA StepPrio ==
    ASSUME FdLists = {}, IInv, LInv, NoMultiwait, IInv', StayDead, PrioInv, [Next]_vars
    PROVE  PrioInv'
<1>0. AliveStays /\ current_task \in Task /\ ~WakeObserver
  BY NobodyRevives, NoObserver, Types
<1>1. ASSUME BoostInv', handler'.at # "inherit" PROVE PrioInv'
  BY <1>1 DEF PrioInv, WalkInv
<1>2. ASSUME UNCHANGED <<priority, owner, held_mutexes>>,
             \A m \in Mutex : wait_q'[m] = wait_q[m]
      PROVE  BoostInv'
  BY <1>0, <1>2, BoostSame DEF PrioInv
<1>3. ASSUME NEW s \in Sem, NEW x, wait_q' = [wait_q EXCEPT ![s] = x]
      PROVE  \A m \in Mutex : wait_q'[m] = wait_q[m]
  BY <1>3, Types
<1>4. ASSUME NEW c \in Task, Syscall(c) PROVE PrioInv'
  <2>1. ASSUME NEW s \in Sem, NEW n \in TakeTicks, v_semaphore_take(c, s, n)
        PROVE  PrioInv'
    <3>1. \A m \in Mutex : wait_q'[m] = wait_q[m]
      BY <1>3, <2>1 DEF v_semaphore_take, BlockOn
    <3>2. UNCHANGED <<priority, owner, held_mutexes>> /\ handler' = UserMode
      BY <2>1 DEF v_semaphore_take, Executing
    <3>3. QED
      BY <1>1, <1>2, <3>1, <3>2, User
  <2>2. ASSUME NEW s \in Sem, v_semaphore_give(c, s) PROVE PrioInv'
    <3>1. \A m \in Mutex : wait_q'[m] = wait_q[m]
      BY <1>3, <2>2 DEF v_semaphore_give, semaphore_give_common
    <3>2. UNCHANGED <<priority, owner, held_mutexes>> /\ handler'.at # "inherit"
      BY <2>2, GiveHandler DEF v_semaphore_give, Executing
    <3>3. QED
      BY <1>1, <1>2, <3>1, <3>2
  <2>3. ASSUME NEW m \in Mutex, NEW n \in TakeTicks, v_mutex_lock(c, m, n) PROVE PrioInv'
    <3>1. /\ UNCHANGED <<priority, owner, held_mutexes, wait_q>>
          /\ handler'.task = c /\ handler'.obj = m /\ call'[c].obj = m
      BY <2>3, Types DEF v_mutex_lock
    <3>2. BoostInv'
      BY <1>2, <3>1
    <3>3. QED
      BY <3>1, <3>2 DEF PrioInv, WalkInv
  <2>4. ASSUME NEW m \in Mutex, v_mutex_unlock(c, m) PROVE PrioInv'
    <3>1. BoostInv'
      BY <1>0, <2>4, UnlockBoost DEF PrioInv
    <3>2. handler' = handler /\ handler = UserMode
      BY <2>4, UnlockUnblocked DEF v_mutex_unlock, mutex_unlock_common
    <3>3. QED
      BY <1>1, <3>1, <3>2, User
  <2>5. CASE \/ \E m \in Mutex : RecursiveRelock(c, m) \/ v_mutex_unlock_recursive(c, m)
             \/ task_yield(c) \/ v_wait_disarm_impl(c) \/ v_task_exit_impl(c)
             \/ \E t \in Task : task_exit_request(c, t)
             \/ \E n \in DelayTicks : task_delay(c, n)
    <3>1. UNCHANGED <<priority, owner, held_mutexes, wait_q>>
      BY <2>5 DEF RecursiveRelock, v_mutex_unlock_recursive, task_yield,
             v_wait_disarm_impl, v_task_exit_impl, task_exit_request, task_delay
    <3>2. handler = UserMode /\ (handler' = handler \/ \E t \in Task : TearDown(t))
      BY <2>5 DEF RecursiveRelock, v_mutex_unlock_recursive, task_yield,
             v_wait_disarm_impl, v_task_exit_impl, task_exit_request, task_delay, Executing
    <3>3. \A t \in Task : TearDown(t) => handler'.at = "teardown"
      BY DEF TearDown, UserMode
    <3>4. QED
      BY <1>1, <1>2, <3>1, <3>2, <3>3, User
  <2>6. QED
    BY <1>4, <2>1, <2>2, <2>3, <2>4, <2>5 DEF Syscall
<1>5. ASSUME NEW s \in Sem, v_semaphore_give_from_isr(s) PROVE PrioInv'
  <2>1. \A m \in Mutex : wait_q'[m] = wait_q[m]
    BY <1>3, <1>5 DEF v_semaphore_give_from_isr, semaphore_give_common
  <2>2. UNCHANGED <<priority, owner, held_mutexes>> /\ handler'.at # "inherit"
    BY <1>5, GiveHandler DEF v_semaphore_give_from_isr
  <2>3. QED
    BY <1>1, <1>2, <2>1, <2>2
<1>6. CASE InheritHop
  BY <1>0, <1>6, HopBoost
<1>7. CASE LockTake
  BY <1>0, <1>1, <1>7, LockTakeBoost, User DEF LockTake
<1>8. CASE ObserversDone \/ v_kernel_tick \/ WakeSleeper \/ SleepersDone \/ TickDone
           \/ PendSV \/ idle_task_function
  <2>1. UNCHANGED <<priority, owner, held_mutexes, wait_q>>
    BY <1>8 DEF ObserversDone, v_kernel_tick, WakeSleeper, SleepersDone, TickDone, PendSV,
           idle_task_function
  <2>2. handler'.at # "inherit"
    BY <1>8, User DEF ObserversDone, v_kernel_tick, WakeSleeper, SleepersDone, TickDone,
           PendSV, idle_task_function, UserMode
  <2>3. QED
    BY <1>1, <1>2, <2>1, <2>2
<1>9. CASE Eject
  <2>1. PICK t \in Task :
          /\ wait_sem[t] \in Obj /\ wait_q' = [wait_q EXCEPT ![wait_sem[t]] = Unlink(@, t)]
          /\ UNCHANGED <<priority, owner, held_mutexes, handler>>
    BY <1>9, EjectFacts
  <2>2. \A m \in Mutex : wait_q'[m] = wait_q[m] \/ wait_q'[m] = Unlink(wait_q[m], t)
    BY <2>1, Types
  <2>3. BoostInv'
    BY <1>0, <2>1, <2>2, BoostSame DEF PrioInv
  <2>4. QED
    BY <1>1, <1>9, <2>1, <2>3 DEF Eject
<1>10. CASE TeardownMutex
  BY <1>0, <1>1, <1>10, TeardownBoost DEF PrioInv, TeardownMutex
<1>11. CASE TeardownDone
  <2>1. PICK t \in Task : LeaveWaitQueue(t)
    BY <1>11, TeardownTask DEF TeardownDone, IInv
  <2>2. \A m \in Mutex : wait_q'[m] = wait_q[m] \/ wait_q'[m] = Unlink(wait_q[m], t)
    BY <2>1, Types DEF LeaveWaitQueue
  <2>3. BoostInv'
    BY <1>0, <1>11, <2>2, BoostSame DEF PrioInv, TeardownDone
  <2>4. QED
    BY <1>1, <1>11, <2>3, User DEF TeardownDone
<1>12. CASE UNCHANGED vars
  <2>1. UNCHANGED <<priority, owner, held_mutexes, wait_q, handler, call>>
    BY <1>12 DEF vars
  <2>2. QED
    BY <1>2, <2>1 DEF PrioInv, WalkInv
<1>13. QED
  BY <1>0, <1>4, <1>5, <1>6, <1>7, <1>8, <1>9, <1>10, <1>11, <1>12
     DEF Next, Interrupt, HandlerStep

\* Everybody starts at his base priority, and nobody waits.
LEMMA InitPrio == Init => PrioInv
<1> SUFFICES ASSUME Init PROVE PrioInv
  OBVIOUS
<1>1. BaseInv /\ BoostEnds
  BY Constants, TaskAssumption DEF Init, BaseInv, BoostEnds, Priority
<1>2. \A m \in Mutex : wait_q[m] = <<>>
  BY DEF Init, Obj
<1>3. QueueOrder /\ InheritedPriority
  BY <1>2, EmptyRange DEF QueueOrder, InheritedPriority, InOrder
<1>4. WalkInv
  BY User DEF Init, WalkInv
<1>5. QED
  BY <1>1, <1>3, <1>4 DEF PrioInv, BoostInv

\* No priority inversion, for any number of tasks and mutexes and any depth of the walk:
\* in a system whose tasks do not call v_wait and lock no mutex they own, the owner of a
\* mutex runs at least at the base priority of every task queued for it, through
\* hand-overs, timeouts, kills and partial unlocks, and who holds nothing runs at its own.
THEOREM InheritSafe ==
    ASSUME FdLists = {}, ~MayRelock
    PROVE  Spec => []Inheritance
<1>1. PrioInv => Inheritance
  BY DEF PrioInv, BoostInv, Inheritance
<1>2. IInv /\ LInv /\ NoMultiwait /\ [Next]_vars => LInv' /\ NoMultiwait' /\ StayDead
  BY StepLists
<1>3. IInv /\ IInv' /\ LInv /\ NoMultiwait /\ PrioInv /\ [Next]_vars => PrioInv'
  BY <1>2, StepPrio
<1>4. QED
  BY <1>1, <1>2, <1>3, InitLists, InitPrio, Inductive, PTL DEF Spec

\* Both: what the users of mutexes rely on holds for any number of tasks and mutexes,
\* in a system whose tasks do not call v_wait and lock no mutex they own.
THEOREM LocksSafe ==
    ASSUME FdLists = {}, ~MayRelock
    PROVE  Spec => []LocksSound
<1>1. Spec => []LockResultTrue
  BY LockResultSafe
<1>2. Spec => []Inheritance
  BY InheritSafe
<1>3. LockResultTrue /\ Inheritance => LocksSound
  BY DEF LocksSound
<1>4. QED
  BY <1>1, <1>2, <1>3, PTL
==============================================================================

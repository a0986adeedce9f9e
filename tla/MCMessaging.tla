------------------------------ MODULE MCMessaging ------------------------------
(***************************************************************************)
(* Instances for TLC of the parts by which tasks deal with one another: the*)
(* pipes of the bus, mutexes, the peripheral bus, and the tree of tasks.   *)
(* A behaviour runs one of them; the locks and the tree do so in v1, v2,   *)
(* ..., the others in their own variables.                                 *)
(***************************************************************************)
EXTENDS PeriphBus, BusPipe, TLC

CONSTANTS NONE, idle, ta, tb, tc, m1, m2, la, lb

VARIABLES
    part,   \* the component this behaviour runs
    v1, v2, v3, v4, v5, v6, v7, v8, v9, v10, v11, v12, v13, v14,
    v15, v16, v17, v18, v19, v20, v21

other == <<v1, v2, v3, v4, v5, v6, v7, v8, v9, v10, v11, v12, v13,
           v14, v15, v16, v17, v18, v19, v20, v21>>
MCVars == <<part, other, vars, pipe_vars>>

Symmetry == Permutations({m1, m2})

Kind(overwrite, isr, resubscribe) ==
    [overwrite |-> overwrite, isr |-> isr, resubscribe |-> resubscribe]

\* A task feeding a reader that stays, on either kind of pipe, and an interrupt
\* feeding a reader that comes and goes.
PipeUses == {Kind(FALSE, FALSE, FALSE), Kind(TRUE, FALSE, FALSE),
             Kind(FALSE, TRUE, TRUE), Kind(TRUE, TRUE, TRUE)}

\* The tasks in the order main() creates them, each one priority above the last.
Boot == <<idle, ta, tb, tc>>
TaskSet == {idle, ta, tb, tc}
MutexSet == {m1, m2}
Rising == [t \in TaskSet |-> CHOOSE i \in 0..3 : Boot[i + 1] = t]
ReadyAtBoot == [p \in 0..3 |-> <<Boot[p + 1]>>]
Nothing == {}
NoCounts == [s \in Nothing |-> 0]
OneTick == {1}

K == INSTANCE Kernel WITH
    Task <- TaskSet, Idle <- idle, Sem <- Nothing, Mutex <- MutexSet, NULL <- NONE,
    MaxPriority <- 3, BasePriority <- Rising, InitReady <- ReadyAtBoot, InitCount <- NoCounts,
    Limit <- NoCounts, MAX_PI_DEPTH <- 4, TakeTicks <- OneTick, WaitTicks <- Nothing,
    DelayTicks <- OneTick, Recursive <- Nothing, MaxRecursion <- 2, VAIOS_IPC_FD <- FALSE,
    FdLists <- Nothing, MayExit <- Nothing, MayRelock <- FALSE, status <- v1,
    priority <- v2, delay_ticks <- v3, ready_lists <- v4, blocked_list <- v5,
    delayed_list <- v6, current_task <- v7, wait_sem <- v8, wait_mutex <- v9,
    held_mutexes <- v10, count <- v11, wait_q <- v12, owner <- v13, recursion_count <- v14,
    in_multiwait <- v15, wnodes <- v16, observers <- v17, syscall_result <- v18, call <- v19,
    pendsv <- v20, handler <- v21

Supervised == <<[priority |-> 1, privileged |-> TRUE], [priority |-> 1, privileged |-> FALSE]>>
JustOne == {1}
Asks == {[policy |-> "default", max |-> 0], [policy |-> "restart", max |-> 1],
         [policy |-> "panic", max |-> 0]}

\* Tasks that spawn, kill and sleep; tasks that fault under changing policies;
\* tasks that save or are granted windows and are restarted.
Trees == {{"kill", "sleep"}, {"fault", "policy"}, {"fault", "save"}, {"fault", "grant"}}

\* No task at MAX_PRIORITY: get_task_by_id cannot see one that is ready there, and
\* its children would be reaped under it (MCTaskTree_top.cfg).
T == INSTANCE TaskTree WITH
    MAX_PRIORITY <- 2, VAIOS_TASK_MAX_CHILDREN <- 1, VAIOS_MPU_FAULT_RESTART <- FALSE,
    VAIOS_MPU_FAULT_RESTART_MAX <- 1, Roots <- Supervised, SpawnPriorities <- JustOne,
    SpawnPolicies <- Asks, Blobs <- JustOne, Uses <- Trees, MaxTasks <- 5, tcb <- v1,
    task_count <- v2, ready_lists <- v3, blocked_list <- v4, delayed_list <- v5,
    current_task <- v6, store <- v7, handler <- v8, panic <- v9, use <- v10, asked <- v11

Prios == [j \in {la, lb, Handle, Cyclic} |-> IF j \in {lb, Cyclic} THEN 1 ELSE 0]

\* A task can be killed where it waits or holds, and between the two sections of
\* v_pbus_lock; not inside dispatch().
Anywhere == {"idle", "enqueue", "take", "expired", "held"}

ASSUME PbusAssumption
ASSUME T!TreeAssumption

\* The variables the tree has no use for.
Above11 == <<v12, v13, v14, v15, v16, v17, v18, v19, v20, v21>>

\* The parts that have variables of their own.
OwnVars == {"pbus", "pipe"}

\* A pipe that stands by is one that drops.
MCInit ==
    /\ \/ part = "locks" /\ K!Init
       \/ /\ part = "tree" /\ T!Init
          /\ v12 = 0 /\ v13 = 0 /\ v14 = 0 /\ v15 = 0 /\ v16 = 0 /\ v17 = 0 /\ v18 = 0
          /\ v19 = 0 /\ v20 = 0 /\ v21 = 0
       \/ /\ part \in OwnVars
          /\ v1 = 0 /\ v2 = 0 /\ v3 = 0 /\ v4 = 0 /\ v5 = 0 /\ v6 = 0 /\ v7 = 0 /\ v8 = 0
          /\ v9 = 0 /\ v10 = 0 /\ v11 = 0 /\ v12 = 0 /\ v13 = 0 /\ v14 = 0 /\ v15 = 0 /\ v16 = 0
          /\ v17 = 0 /\ v18 = 0 /\ v19 = 0 /\ v20 = 0 /\ v21 = 0
    /\ Init /\ PipeInit /\ (part # "pipe" => use = Kind(FALSE, FALSE, FALSE))

locksNext == part = "locks" /\ K!Next /\ UNCHANGED <<part, vars, pipe_vars>>
treeNext == part = "tree" /\ T!Next /\ UNCHANGED <<part, vars, pipe_vars, Above11>>
pbusNext == part = "pbus" /\ Next /\ UNCHANGED <<part, pipe_vars, other>>
pipeNext == part = "pipe" /\ PipeNext /\ UNCHANGED <<part, vars, other>>

MCNext == locksNext \/ treeNext \/ pbusNext \/ pipeNext

MCSpec == MCInit /\ [][MCNext]_MCVars

-----------------------------------------------------------------------------
(* Kernel *)

\* With two mutexes, where owners wait for owners and a task may unlock one of those it
\* holds: a lock's result says who owns the mutex, an owner runs at least at the base
\* priority of its waiters and of the waiters of those, and a task that owns nothing
\* keeps nothing lent (mutex_lock_common, mutex_unlock_common).  The three tasks are
\* too few for a chain that forms behind a second waiter.
ChainsSound == part = "locks" => K!LocksSound /\ K!ChainLent

(* TaskTree *)

\* Over any sequence of spawns, kills, faults and restarts, a task's lineage keeps what
\* it was given and no more, and a task ends only by who may end it (v_task_spawn,
\* v_task_kill, reap_orphans, task_fault_restart).  The tasks stay below MAX_PRIORITY.
TreeSound ==
    /\ [](part = "tree" =>
           /\ T!TreeTypeOK
           /\ T!RestartFaithful
           /\ T!CheckpointOwned
           /\ T!ChildQuota
           /\ T!NoFaultPanic)
    /\ [][part = "tree" => T!EndStep]_MCVars
=============================================================================

------------------------------ MODULE MCProgress ------------------------------
(***************************************************************************)
(* Instances for TLC of the parts whose fairness is that of interrupts and *)
(* of the scheduler alone: the kernel's timeouts and round robin, and the  *)
(* pipe between two tasks in user mode.  A behaviour runs one of them; the *)
(* kernel does so in v1, v2, ..., the pipe in its own variables.           *)
(***************************************************************************)
EXTENDS Upipe, TLC

CONSTANTS x, y, NONE, idle, ta, tb, tc, m1

VARIABLES
    part,   \* the component this behaviour runs
    v1, v2, v3, v4, v5, v6, v7, v8, v9, v10, v11, v12, v13, v14,
    v15, v16, v17, v18, v19, v20, v21

other == <<v1, v2, v3, v4, v5, v6, v7, v8, v9, v10, v11, v12, v13,
           v14, v15, v16, v17, v18, v19, v20, v21>>
MCVars == <<part, other, vars>>

\* Two tasks of the highest priority, a third below them.
TaskSet == {idle, ta, tb, tc}
Peers == [t \in TaskSet |-> CASE t = idle -> 0 [] t = ta -> 1 [] OTHER -> 2]
ReadyAtBoot == [p \in 0..2 |-> CASE p = 0 -> <<idle>> [] p = 1 -> <<ta>> [] p = 2 -> <<tb, tc>>]
MutexSet == {m1}
Nothing == {}
NoCounts == [s \in Nothing |-> 0]
OneTick == {1}
OneOrTwo == {1, 2}

K == INSTANCE Kernel WITH
    Task <- TaskSet, Idle <- idle, Sem <- Nothing, Mutex <- MutexSet, NULL <- NONE,
    MaxPriority <- 2, BasePriority <- Peers, InitReady <- ReadyAtBoot, InitCount <- NoCounts,
    Limit <- NoCounts, MAX_PI_DEPTH <- 4, TakeTicks <- OneTick, WaitTicks <- Nothing,
    DelayTicks <- OneOrTwo, Recursive <- Nothing, MaxRecursion <- 2, VAIOS_IPC_FD <- FALSE,
    FdLists <- Nothing, MayExit <- Nothing, MayRelock <- FALSE, status <- v1,
    priority <- v2, delay_ticks <- v3, ready_lists <- v4, blocked_list <- v5,
    delayed_list <- v6, current_task <- v7, wait_sem <- v8, wait_mutex <- v9,
    held_mutexes <- v10, count <- v11, wait_q <- v12, owner <- v13, recursion_count <- v14,
    in_multiwait <- v15, wnodes <- v16, observers <- v17, syscall_result <- v18, call <- v19,
    pendsv <- v20, handler <- v21

MCInit ==
    /\ \/ part = "kernel" /\ K!Init
       \/ /\ part = "upipe"
          /\ v1 = 0 /\ v2 = 0 /\ v3 = 0 /\ v4 = 0 /\ v5 = 0 /\ v6 = 0 /\ v7 = 0 /\ v8 = 0
          /\ v9 = 0 /\ v10 = 0 /\ v11 = 0 /\ v12 = 0 /\ v13 = 0 /\ v14 = 0 /\ v15 = 0 /\ v16 = 0
          /\ v17 = 0 /\ v18 = 0 /\ v19 = 0 /\ v20 = 0 /\ v21 = 0
    /\ Init

kernelOnly == UNCHANGED <<part, vars>>
upipeOnly == UNCHANGED <<part, other>>

kernelNext == part = "kernel" /\ K!Next /\ kernelOnly
upipeNext == part = "upipe" /\ Next /\ upipeOnly

MCNext == kernelNext \/ upipeNext

\* A behaviour runs one component throughout, so the fairness of a disjunction of
\* steps of both is the fairness of each; the lines below are the conjuncts of the
\* two Fairness formulas, taken together that way.
MCFairness ==
    /\ SF_MCVars(part = "kernel" /\ K!v_kernel_tick /\ kernelOnly)
    /\ SF_MCVars(part = "kernel" /\ K!PendSV /\ kernelOnly)
    /\ WF_MCVars(\/ part = "kernel" /\ K!HandlerStep /\ kernelOnly
                 \/ part = "upipe" /\ Step("prod") /\ upipeOnly)
    /\ WF_MCVars(part = "upipe" /\ Step("cons") /\ upipeOnly)
    /\ WF_MCVars(part = "upipe" /\ Try("cons") /\ upipeOnly)
    /\ WF_MCVars(part = "upipe" /\ Read /\ upipeOnly)
    /\ WF_MCVars(part = "upipe" /\ v_upipe_release /\ upipeOnly)
    /\ WF_MCVars(part = "upipe" /\ (\E v \in Item : Fill(v)) /\ upipeOnly)
    /\ WF_MCVars(part = "upipe" /\ v_upipe_commit /\ upipeOnly)

MCSpec == MCInit /\ [][MCNext]_MCVars /\ MCFairness

-----------------------------------------------------------------------------
(* Kernel *)

\* A timed lock or a delay ends: with a deadline set, a blocked task does not stay
\* blocked for ever, whatever the others do (wake_up_delayed_tasks_isr).
TimedWaitEnds ==
    \A t \in TaskSet \ {idle} :
        part = "kernel" /\ v1[t] = "BLOCKED" /\ v3[t] # K!NoDeadline
            ~> part = "kernel" /\ v1[t] # "BLOCKED"

\* Round robin: a ready task of the highest priority always gets the processor, however
\* its peers behave (rl_append, scheduler).
TopPriorityRuns ==
    \A t \in {tb, tc} :
        part = "kernel" /\ v1[t] = "READY" ~> part = "kernel" /\ v1[t] = "RUNNING"
=============================================================================

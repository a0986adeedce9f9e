------------------------------ MODULE TaskTree -------------------------------
(***************************************************************************)
(* Who owns a task and what becomes of it when it faults: v_task_spawn,    *)
(* v_task_kill, the reaping of orphans, the fault policies, the restart of *)
(* a faulted task and its checkpoint (kernel/task.c), driven by the        *)
(* MemManage handler of the Cortex-M port, in the build with SVC, user     *)
(* separation, fault recovery and checkpoints.                             *)
(*                                                                         *)
(* Task ids only ever increase and id 1 is the idle task, so a task is its *)
(* id.  Blocking and waking, which Kernel models in full, are here the     *)
(* moves of a task between the scheduler's lists.  The reaping loop is one *)
(* action per pass; nothing else runs until the handler is back at "user". *)
(***************************************************************************)
EXTENDS Lists, TLC

CONSTANTS
    MAX_PRIORITY,                \* the highest priority
    VAIOS_TASK_MAX_CHILDREN,     \* live children a task may have
    VAIOS_MPU_FAULT_RESTART,     \* V_FAULT_DEFAULT restarts the task, else it ends it
    VAIOS_MPU_FAULT_RESTART_MAX, \* restarts of a task whose own maximum is 0
    Roots,                       \* what main() creates: a sequence of [priority, privileged]
    SpawnPriorities,             \* priorities the tasks ask for
    SpawnPolicies,               \* policies they ask for: [policy, max]
    Blobs,                       \* what they save in a checkpoint
    Uses,                        \* the sets of calls a system may make
    MaxTasks                     \* bound: the ids handed out

idle_task == 1
Id == 1..MaxTasks
NoTask == 0
NoBlob == 0
V_FAULT_DEFAULT == "default"
V_FAULT_KILL == "kill"
V_FAULT_RESTART == "restart"
V_FAULT_PANIC == "panic"
Policy == {V_FAULT_DEFAULT, V_FAULT_KILL, V_FAULT_RESTART, V_FAULT_PANIC}
Priority == 0..MAX_PRIORITY

TreeAssumption ==
    /\ MAX_PRIORITY \in Nat /\ VAIOS_TASK_MAX_CHILDREN \in Nat
    /\ VAIOS_MPU_FAULT_RESTART_MAX \in Nat \ {0} /\ VAIOS_MPU_FAULT_RESTART \in BOOLEAN
    /\ MaxTasks \in Nat /\ Len(Roots) < MaxTasks
    /\ Roots \in Seq([priority : Priority, privileged : BOOLEAN])
    /\ SpawnPriorities \subseteq Priority
    /\ Uses \subseteq SUBSET {"policy", "grant", "save", "fault", "kill", "sleep"}
    /\ SpawnPolicies \subseteq [policy : Policy, max : Nat] /\ NoBlob \notin Blobs

VARIABLES
    tcb,           \* the TCB of every id, READY to GONE
    task_count,    \* ids handed out
    ready_lists, blocked_list, delayed_list, current_task,
    store,         \* what each checkpoint buffer holds; named by its first owner
    handler,       \* the reaping loop, and the task to restart after it
    panic,         \* v_panic was called: by whom and why
    use,           \* the calls the tasks of this system make
    asked          \* ghost: what was asked for the task each incarnation stands for

vars == <<tcb, task_count, ready_lists, blocked_list, delayed_list, current_task, store,
          handler, panic, use, asked>>
listVars == <<ready_lists, blocked_list, delayed_list, current_task>>

UserMode == [at |-> "user", restart |-> NoTask]
NoPanic == [by |-> NoTask, why |-> "none"]

\* A fresh TCB, as task_create_named leaves it.
NewTcb(p) ==
    [status |-> "READY", priority |-> p, parent_id |-> NoTask, privileged |-> FALSE,
     fault_policy |-> V_FAULT_DEFAULT, fault_restart_max |-> 0, fault_restarts |-> 0,
     ckpt |-> NoTask, mmio |-> FALSE]
Unborn == [NewTcb(0) EXCEPT !.status = "GONE"]

\* What the ghost remembers of a task through its restarts, and whether its
\* policy is the word of privileged code.
Wish(parent, pol, priv) ==
    [parent |-> parent, policy |-> pol.policy, max |-> pol.max, privileged |-> priv,
     mmio |-> FALSE, saved |-> NoBlob, restarts |-> 0,
     trusted |-> parent = NoTask \/ tcb[parent].privileged]
Default == [policy |-> V_FAULT_DEFAULT, max |-> 0]

RootCount == Len(Roots) + 1

Init ==
    LET Root(t) == IF t = idle_task THEN [priority |-> 0, privileged |-> TRUE] ELSE Roots[t - 1]
    IN  /\ tcb = [t \in Id |->
                    IF t > RootCount THEN Unborn
                    ELSE [NewTcb(Root(t).priority) EXCEPT !.privileged = Root(t).privileged,
                            !.status = IF t = idle_task THEN "RUNNING" ELSE "READY"]]
        /\ task_count = RootCount
        /\ ready_lists = [p \in Priority |->
             SelectSeq([i \in 1..Len(Roots) |-> i + 1], LAMBDA t : Roots[t - 1].priority = p)]
        /\ blocked_list = <<>> /\ delayed_list = <<>> /\ current_task = idle_task
        /\ store = [t \in {} |-> NoBlob]
        /\ handler = UserMode /\ panic = NoPanic /\ use \in Uses
        /\ asked = [t \in 1..RootCount |-> Wish(NoTask, Default, Root(t).privileged)]
------------------------------------------------------------------------------
(* The lists *)

Live(t) == t \in Id /\ tcb[t].status \notin {"TERMINATED", "GONE"}

\* get_task_by_id: the running task, or one on a list; its loop stops short of
\* the ready list of the highest priority.
Reachable(t) ==
    \/ t = current_task
    \/ \E p \in Priority \ {MAX_PRIORITY} : t \in ToSet(ready_lists[p])
    \/ t \in ToSet(blocked_list) \cup ToSet(delayed_list)

\* The tasks in the order the ownership walks meet them: ready lists from the
\* lowest priority up, then the blocked and the delayed list.
WalkOrder ==
    FlattenSeq([p \in 1..(MAX_PRIORITY + 1) |-> ready_lists[p - 1]])
      \o blocked_list \o delayed_list

\* MUTANT: a walk that forgets the children that sleep.
count_children_Ready(parent) ==
    Cardinality({t \in Id : tcb[t].status = "READY" /\ tcb[t].parent_id = parent})

count_children(parent) ==
    Cardinality({t \in ToSet(WalkOrder) : tcb[t].parent_id = parent
                                            /\ tcb[t].status # "TERMINATED"})

\* MUTANT: any child is an orphan.
find_orphan_Any ==
    LET owned == SelectSeq(WalkOrder, LAMBDA t : tcb[t].parent_id # NoTask /\ Live(t))
    IN  IF owned = <<>> THEN NoTask ELSE Head(owned)

\* The first owned task the walk meets, if its owner is gone; NoTask otherwise.
find_orphan ==
    LET owned == SelectSeq(WalkOrder, LAMBDA t : tcb[t].parent_id # NoTask /\ Live(t))
        child == Head(owned)
        parent == tcb[child].parent_id
    IN  IF owned = <<>> \/ ~Reachable(child) \/ (Reachable(parent) /\ Live(parent))
        THEN NoTask ELSE child

\* The body of task_exit_request and v_task_exit_impl: off its list, torn down,
\* terminated, parked on blocked_list for the idle task.
Terminate(t) ==
    /\ tcb' = [tcb EXCEPT ![t].status = "TERMINATED"]
    /\ ready_lists' = [ready_lists EXCEPT ![tcb[t].priority] = Unlink(@, t)]
    /\ blocked_list' = Append(Unlink(blocked_list, t), t)
    /\ delayed_list' = Unlink(delayed_list, t)
    /\ UNCHANGED <<task_count, current_task, store, panic, asked, use>>

\* The calling task, at a moment it can make a system call or fault.
Running(t) ==
    /\ handler = UserMode /\ panic = NoPanic
    /\ t = current_task /\ tcb[t].status = "RUNNING"
------------------------------------------------------------------------------
(* Creation *)

\* task_create_named succeeded: the next id, on the ready list of its priority.
Create(fields, wish) ==
    LET id == task_count + 1
    IN  /\ task_count' = id
        /\ tcb' = [tcb EXCEPT ![id] = fields]
        /\ ready_lists' = [ready_lists EXCEPT ![fields.priority] = Append(@, id)]
        /\ asked' = Append(asked, wish)

\* What the heap says to the two allocations of task_create_named.
HeapAnswer == {"ok", "noTCB", "noStack"}

\* MUTANT: any task may give its child the panic policy.
MayAsk_All(parent, pol) == TRUE

\* An unprivileged task may not ask for the policy that panics.
MayAsk(parent, pol) == pol.policy = V_FAULT_PANIC => tcb[parent].privileged

\* What a spawn asks for: the default where no task faults, and where privileged code
\* sets the policies afterwards.
Requests ==
    IF "fault" \in use /\ "policy" \notin use THEN SpawnPolicies
    ELSE {pol \in SpawnPolicies : pol.policy = V_FAULT_DEFAULT}

\* v_task_spawn.  A task created but not found by get_task_by_id is left as
\* task_create_named made it.
v_task_spawn(t, p, pol, heap) ==
    /\ Running(t) /\ t # idle_task /\ task_count < MaxTasks
    /\ MayAsk(t, pol) /\ p <= tcb[t].priority
    /\ count_children(t) < VAIOS_TASK_MAX_CHILDREN
    /\ \/ /\ heap = "ok"
          /\ Create(IF p < MAX_PRIORITY
                    THEN [NewTcb(p) EXCEPT !.parent_id = t, !.fault_policy = pol.policy,
                                           !.fault_restart_max = pol.max]
                    ELSE NewTcb(p),
                    Wish(t, pol, FALSE))
          /\ UNCHANGED panic
       \/ /\ heap = "noStack"
          /\ panic' = [by |-> t, why |-> "no stack"]
          /\ UNCHANGED <<task_count, tcb, ready_lists, asked>>
    /\ UNCHANGED <<blocked_list, delayed_list, current_task, store, handler, use>>

\* task_set_fault_policy, called by privileged code.
task_set_fault_policy(t, c, pol) ==
    /\ "policy" \in use /\ Running(t) /\ tcb[t].privileged /\ t # idle_task /\ Reachable(c) /\ Live(c) /\ c # idle_task
    /\ tcb' = [tcb EXCEPT ![c].fault_policy = pol.policy, ![c].fault_restart_max = pol.max]
    /\ asked' = [asked EXCEPT ![c].policy = pol.policy, ![c].max = pol.max,
                              ![c].trusted = TRUE]
    /\ UNCHANGED <<task_count, listVars, store, handler, panic, use>>

\* v_task_grant_mmio, called by privileged code: the task's peripheral window.
v_task_grant_mmio(t, c) ==
    /\ "grant" \in use /\ Running(t) /\ tcb[t].privileged /\ t # idle_task /\ Reachable(c) /\ Live(c) /\ c # idle_task
    /\ ~tcb[c].mmio
    /\ tcb' = [tcb EXCEPT ![c].mmio = TRUE]
    /\ asked' = [asked EXCEPT ![c].mmio = TRUE]
    /\ UNCHANGED <<task_count, listVars, store, handler, panic, use>>

\* v_task_checkpoint: the buffer is allocated by the first one.
v_task_checkpoint(t, blob) ==
    /\ "save" \in use /\ Running(t) /\ t # idle_task
    /\ LET buffer == IF tcb[t].ckpt = NoTask THEN t ELSE tcb[t].ckpt
       IN  /\ tcb' = [tcb EXCEPT ![t].ckpt = buffer]
           /\ store' = (buffer :> blob) @@ store
    /\ asked' = [asked EXCEPT ![t].saved = blob]
    /\ UNCHANGED <<task_count, listVars, handler, panic, use>>

\* v_task_restore: what the caller gets back; the state does not change.
v_task_restore(t) == IF tcb[t].ckpt = NoTask THEN NoBlob ELSE store[tcb[t].ckpt]
------------------------------------------------------------------------------
(* The end of a task *)

MayKill(t, c) == tcb[c].parent_id = t

v_task_kill(t, c) ==
    /\ "kill" \in use /\ Running(t) /\ Reachable(c) /\ Live(c) /\ MayKill(t, c)
    /\ Terminate(c)
    /\ handler' = [UserMode EXCEPT !.at = "reap"]

v_task_exit_impl(t) ==
    /\ Running(t) /\ t # idle_task
    /\ Terminate(t)
    /\ handler' = [UserMode EXCEPT !.at = "reap"]

\* One pass of reap_orphans that finds one.
ReapOrphan ==
    /\ handler.at = "reap" /\ find_orphan # NoTask
    /\ Terminate(find_orphan)
    /\ UNCHANGED handler

task_fault_policy(t) ==
    IF tcb[t].fault_policy # V_FAULT_DEFAULT THEN tcb[t].fault_policy
    ELSE IF VAIOS_MPU_FAULT_RESTART THEN V_FAULT_RESTART ELSE V_FAULT_KILL

\* The build without VAIOS_MPU_FAULT_PRIV: a fault of a privileged task panics.
fault_policy_for(t) == IF tcb[t].privileged THEN V_FAULT_PANIC ELSE task_fault_policy(t)

\* v_port_memmanage for a fault in thread mode, up to the end of task_exit_request.
v_port_memmanage(t) ==
    /\ "fault" \in use /\ Running(t)
    /\ \/ /\ fault_policy_for(t) = V_FAULT_PANIC
          /\ panic' = [by |-> t, why |-> "fault"]
          /\ UNCHANGED <<tcb, task_count, listVars, store, handler, asked, use>>
       \/ /\ fault_policy_for(t) # V_FAULT_PANIC
          /\ Terminate(t)
          /\ handler' = [at |-> "reap",
                         restart |-> IF fault_policy_for(t) = V_FAULT_RESTART THEN t ELSE NoTask]

\* MUTANT: one restart more than allowed.
RestartMax_Over(t) ==
    1 + (IF tcb[t].fault_restart_max # 0 THEN tcb[t].fault_restart_max
         ELSE VAIOS_MPU_FAULT_RESTART_MAX)

\* The restarts a task is allowed.
RestartMax(t) ==
    IF tcb[t].fault_restart_max # 0 THEN tcb[t].fault_restart_max
    ELSE VAIOS_MPU_FAULT_RESTART_MAX

\* MUTANT: the count of restarts starts over.
Reborn_Fresh(t) ==
    [NewTcb(tcb[t].priority) EXCEPT !.parent_id = tcb[t].parent_id,
        !.fault_policy = tcb[t].fault_policy, !.fault_restart_max = tcb[t].fault_restart_max,
        !.privileged = tcb[t].privileged, !.ckpt = tcb[t].ckpt, !.mmio = tcb[t].mmio]

\* The TCB of the task that replaces t: bare when get_task_by_id cannot see it.
Reborn(t) ==
    IF tcb[t].priority = MAX_PRIORITY THEN NewTcb(tcb[t].priority)
    ELSE [tcb[t] EXCEPT !.status = "READY", !.fault_restarts = @ + 1]

\* MUTANT: the dead task keeps its pointer to the checkpoint.
Buried_Kept(t) == tcb[t]

\* What the restart leaves of the dead one: its checkpoint has moved.
Buried(t) ==
    IF tcb[t].priority = MAX_PRIORITY THEN tcb[t] ELSE [tcb[t] EXCEPT !.ckpt = NoTask]

\* The reaping is over; task_fault_restart if the policy said so.  It gives up
\* quietly when it has no restart or no memory left.
ReapDone(heap) ==
    LET t == handler.restart
    IN  /\ handler.at = "reap" /\ find_orphan = NoTask
        /\ handler' = UserMode
        /\ UNCHANGED <<blocked_list, delayed_list, current_task, store, panic, use>>
        /\ \/ /\ t # NoTask /\ heap = "ok" /\ task_count < MaxTasks
              /\ tcb[t].fault_restarts < RestartMax(t)
              /\ task_count' = task_count + 1
              /\ tcb' = [tcb EXCEPT ![t] = Buried(t), ![task_count + 1] = Reborn(t)]
              /\ ready_lists' = [ready_lists EXCEPT ![tcb[t].priority] =
                                   Append(@, task_count + 1)]
              /\ asked' = Append(asked, [asked[t] EXCEPT !.restarts = @ + 1])
           \/ /\ t # NoTask
                   => heap # "ok" \/ tcb[t].fault_restarts >= RestartMax(t)
                        \/ task_count = MaxTasks
              /\ UNCHANGED <<task_count, tcb, ready_lists, asked>>

\* The idle task frees the first terminated task of blocked_list.
IdleCollect ==
    LET dead == SelectSeq(blocked_list, LAMBDA t : ~Live(t))
        t == Head(dead)
    IN  /\ Running(idle_task) /\ dead # <<>>
        /\ blocked_list' = Unlink(blocked_list, t)
        /\ store' = [b \in DOMAIN store \ {tcb[t].ckpt} |-> store[b]]
        /\ tcb' = [tcb EXCEPT ![t].status = "GONE"]
        /\ UNCHANGED <<task_count, ready_lists, delayed_list, current_task, handler, panic, asked, use>>
------------------------------------------------------------------------------
(* The scheduler, as far as the tree sees it *)

\* The running task waits for a semaphore or delays itself; delayed_list is in
\* the order of deadlines, which the model leaves open.
Sleep(t, kind) ==
    /\ "sleep" \in use /\ Running(t) /\ t # idle_task
    /\ tcb' = [tcb EXCEPT ![t].status = kind]
    /\ \/ /\ kind = "BLOCKED" /\ blocked_list' = Append(blocked_list, t)
          /\ UNCHANGED delayed_list
       \/ /\ kind = "DELAYED"
          /\ \E i \in 1..(Len(delayed_list) + 1) :
               delayed_list' = InsertAt(delayed_list, i, t)
          /\ UNCHANGED blocked_list
    /\ UNCHANGED <<task_count, ready_lists, current_task, store, handler, panic, asked, use>>

Wake(t) ==
    /\ handler = UserMode /\ panic = NoPanic
    /\ \/ t \in ToSet(blocked_list) /\ Live(t)
       \/ delayed_list # <<>> /\ t = Head(delayed_list)
    /\ tcb' = [tcb EXCEPT ![t].status = "READY"]
    /\ ready_lists' = [ready_lists EXCEPT ![tcb[t].priority] = Append(@, t)]
    /\ blocked_list' = Unlink(blocked_list, t) /\ delayed_list' = Unlink(delayed_list, t)
    /\ UNCHANGED <<task_count, current_task, store, handler, panic, asked, use>>

\* get_next_task: the head of the most urgent ready list.
PendSV ==
    LET back == tcb[current_task].status = "RUNNING"
        lists == IF back THEN [ready_lists EXCEPT ![tcb[current_task].priority] =
                                 Append(@, current_task)]
                 ELSE ready_lists
        top == CHOOSE p \in Priority : lists[p] # <<>> /\ \A q \in Priority : q > p => lists[q] = <<>>
        next == Head(lists[top])
    IN  /\ handler = UserMode /\ panic = NoPanic
        /\ current_task' = next
        /\ ready_lists' = [lists EXCEPT ![top] = Tail(@)]
        /\ tcb' = IF back /\ next # current_task
                  THEN [tcb EXCEPT ![current_task].status = "READY", ![next].status = "RUNNING"]
                  ELSE [tcb EXCEPT ![next].status = "RUNNING"]
        /\ UNCHANGED <<task_count, blocked_list, delayed_list, store, handler, panic, asked, use>>

\* The system calls and faults are those of the task that runs.
Next ==
    \/ \E p \in SpawnPriorities, pol \in Requests, heap \in HeapAnswer :
         v_task_spawn(current_task, p, pol, heap)
    \/ \E c \in Id, pol \in SpawnPolicies : task_set_fault_policy(current_task, c, pol)
    \/ \E c \in Id : v_task_grant_mmio(current_task, c)
    \/ \E blob \in Blobs : v_task_checkpoint(current_task, blob)
    \/ \E c \in Id : v_task_kill(current_task, c)
    \/ v_task_exit_impl(current_task)
    \/ ReapOrphan
    \/ v_port_memmanage(current_task)
    \/ \E heap \in HeapAnswer : ReapDone(heap)
    \/ IdleCollect
    \/ \E kind \in {"BLOCKED", "DELAYED"} : Sleep(current_task, kind)
    \/ \E t \in Id : Wake(t)
    \/ PendSV

Spec == Init /\ [][Next]_vars
------------------------------------------------------------------------------
(* Properties *)

\* The most restarts any policy allows.
RestartBound == Max({VAIOS_MPU_FAULT_RESTART_MAX} \cup {pol.max : pol \in SpawnPolicies})

\* Every field of a TCB keeps its type, and no lineage is restarted more often
\* than the largest maximum in use, so the 8-bit counter cannot wrap.
TreeTypeOK ==
    /\ tcb \in [Id -> [status : {"READY", "RUNNING", "BLOCKED", "DELAYED", "TERMINATED", "GONE"},
                       priority : Priority, parent_id : 0..MaxTasks, privileged : BOOLEAN,
                       fault_policy : Policy, fault_restart_max : Nat,
                       fault_restarts : 0..RestartBound, ckpt : 0..MaxTasks,
                       mmio : BOOLEAN]]
    /\ task_count \in Id /\ current_task \in Id
    /\ ready_lists \in [Priority -> Seq(Id)]
    /\ blocked_list \in Seq(Id) /\ delayed_list \in Seq(Id)
    /\ store \in [DOMAIN store -> Blobs] /\ DOMAIN store \subseteq Id
    /\ handler \in [at : {"user", "reap"}, restart : 0..MaxTasks]

\* A restarted task is the task it replaces: the same owner, policy, privilege,
\* window and checkpoint as were asked for it, and every restart of its lineage
\* counted, across any number of faults, kills and policy changes
\* (task_fault_restart).
RestartFaithful ==
    \A t \in 1..task_count : Live(t) =>
        /\ tcb[t].parent_id = asked[t].parent
        /\ tcb[t].fault_policy = asked[t].policy
        /\ tcb[t].fault_restart_max = asked[t].max
        /\ tcb[t].fault_restarts = asked[t].restarts
        /\ tcb[t].privileged = asked[t].privileged
        /\ tcb[t].mmio = asked[t].mmio
        /\ v_task_restore(t) = asked[t].saved

\* Every checkpoint buffer has exactly one owner among the tasks whose TCB still
\* exists, so that the idle task's collection neither leaks one nor frees one
\* that a restarted task will read.
CheckpointOwned ==
    LET holders == {t \in Id : tcb[t].status # "GONE" /\ tcb[t].ckpt # NoTask}
    IN  /\ {tcb[t].ckpt : t \in holders} = DOMAIN store
        /\ \A t, u \in holders : tcb[t].ckpt = tcb[u].ckpt => t = u

\* A task never has more live children than VAIOS_TASK_MAX_CHILDREN, sleeping
\* and restarted ones included (count_children).
ChildQuota ==
    \A p \in Id : Live(p) =>
        Cardinality({c \in Id : Live(c) /\ tcb[c].parent_id = p}) <= VAIOS_TASK_MAX_CHILDREN

\* A fault of an unprivileged task stops the system only when privileged code
\* gave its lineage that policy: no unprivileged task can spawn a child whose
\* fault panics (v_task_spawn, v_port_memmanage).  Of faults only: a spawn whose
\* stack cannot be allocated panics whoever asks.
NoFaultPanic ==
    panic.why = "fault" => tcb[panic.by].privileged \/ asked[panic.by].trusted

EndStep ==
    \A t \in Id : Live(t) /\ ~Live(t)' =>
        t = current_task \/ tcb[t].parent_id = current_task \/ ~Live(tcb[t].parent_id)

\* A task ends by its own exit or fault, by its owner's v_task_kill, or because
\* its owner is gone; nobody else's step can end it.
EndsByRight == [][EndStep]_vars

\* When nothing is being reaped, no task outlives its owner: "a task that exits
\* takes the tasks it spawned with it" (task.c:620).
NoOrphans ==
    handler = UserMode =>
        \A t \in Id : Live(t) /\ tcb[t].parent_id # NoTask => Live(tcb[t].parent_id)

\* What the reaping loop takes next has lost its owner: find_orphan answers "the
\* id of one live task whose owner is gone" (task.c:427).
OrphansOnly ==
    handler.at = "reap" /\ find_orphan # NoTask => ~Live(tcb[find_orphan].parent_id)

\* Over any sequence of spawns, kills, faults and restarts, a task's lineage keeps what
\* it was given and no more, and a task ends only by who may end it (v_task_spawn,
\* v_task_kill, reap_orphans, task_fault_restart).
TreeSound ==
    [](TreeTypeOK /\ RestartFaithful /\ CheckpointOwned /\ ChildQuota /\ NoFaultPanic) /\ EndsByRight
==============================================================================

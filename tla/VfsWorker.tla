------------------------------ MODULE VfsWorker ------------------------------
(***************************************************************************)
(* Files for unprivileged tasks (kernel/vfs.c): a call becomes submit,     *)
(* wait and finish on a request slot, a worker task does the transfer, and *)
(* a dying task's files are closed for it.  The file system itself (FatFs, *)
(* behind the HAL) is external: a call of it succeeds or fails, and must   *)
(* have one caller at a time, which vfs_mutex sees to.                     *)
(*                                                                         *)
(* Submit, wait, finish and teardown are system calls: one action each.    *)
(* The worker runs in thread mode, so one action per critical section.     *)
(***************************************************************************)
EXTENDS Lists

CONSTANTS
    User,           \* unprivileged tasks
    Slot,           \* vfs_reqs[]: 1..VAIOS_VFS_IO_SLOTS
    File,           \* vfs_handles[]: 1..VAIOS_VFS_MAX_OPEN
    Worker, Priv,   \* the I/O worker and a privileged task that calls vfs_* itself
    NULL,           \* the null pointer
    Timeouts,       \* a wait may time out
    KillAt          \* bound: what a task may be doing when it is killed

VARIABLES
    req,            \* vfs_req_t of each slot
    handle,         \* vfs_handle_t of each handle
    work_sem,       \* vfs_work_sem
    vfs_mutex,      \* who holds the file system
    worker,         \* v_vfs_worker_step: where it is, its slot, its locals
    priv,           \* the privileged task
    user,           \* the tasks: where they are, their slot, the call they made
    clash           \* ghost: the file system was entered by two at once

vfs_vars == <<req, handle, work_sem, vfs_mutex, worker, priv, user, clash>>

\* Slots and handles are the elements of two arrays; the tasks are none of the others.
VfsBounds ==
    /\ Slot = 1..Cardinality(Slot) /\ Cardinality(Slot) \in Nat
    /\ File = 1..Cardinality(File) /\ Cardinality(File) \in Nat
    /\ NULL \notin User

Op == {"open", "read", "close"}
NoCall == <<NULL, 0>>       \* a call is its caller and a number
NoResult == [val |-> -1, by |-> NoCall]

\* A free slot: what it held is written over before it is read, but for the signal.
FreeSlot(done) ==
    [used |-> FALSE, queued |-> FALSE, op |-> "read", fd |-> 0, owner |-> NULL,
     result |-> NoResult, out_len |-> 0, done |-> done, call |-> NoCall]
Resting == [at |-> "take", slot |-> 0, call |-> NoCall, op |-> "read", fd |-> 0,
            res |-> -1, out |-> 0]

VfsInit ==
    /\ req = [s \in Slot |-> FreeSlot(0)]
    /\ handle = [f \in File |-> [used |-> FALSE, owner |-> NULL]]
    /\ work_sem = 0 /\ vfs_mutex = NULL /\ clash = FALSE /\ priv = "ready"
    /\ worker = Resting
    /\ user = [t \in User |-> [at |-> "ready", slot |-> 0, n |-> 0, answer |-> "none"]]

First(S) == CHOOSE s \in S : \A r \in S : s <= r
FreeSlots == {s \in Slot : ~req[s].used}

\* v_semaphore_give on vfs_work_sem, whose limit is the number of slots.
WorkAfter(gives) ==
    IF work_sem + gives > Cardinality(Slot) THEN Cardinality(Slot) ELSE work_sem + gives
------------------------------------------------------------------------------
(* The task's side *)

\* v_vfs_submit: the first free slot, filled, drained of a stale signal, queued.
v_vfs_submit(t, op, fd) ==
    LET s == First(FreeSlots)
        call == <<t, user[t].n>>
    IN  /\ user[t].at = "ready" /\ FreeSlots # {}
        /\ req' = [req EXCEPT ![s] =
             [used |-> TRUE, queued |-> TRUE, op |-> op, fd |-> fd, owner |-> t,
              result |-> NoResult, out_len |-> 0, done |-> 0, call |-> call]]
        /\ work_sem' = WorkAfter(1)
        /\ user' = [user EXCEPT ![t].at = "wait", ![t].slot = s, ![t].answer = "none"]
        /\ UNCHANGED <<handle, vfs_mutex, worker, priv, clash>>

\* v_vfs_wait: the signal, or the timeout.
v_vfs_wait(t) ==
    LET s == user[t].slot
    IN  /\ user[t].at = "wait"
        /\ \/ req[s].done = 1 /\ req' = [req EXCEPT ![s].done = 0]
           \/ req[s].done = 0 /\ Timeouts /\ UNCHANGED req
        /\ user' = [user EXCEPT ![t].at = "finish"]
        /\ UNCHANGED <<handle, work_sem, vfs_mutex, worker, priv, clash>>

\* v_vfs_finish: take the result, own an opened handle, free the slot.
v_vfs_finish(t) ==
    LET s == user[t].slot
        r == req[s].result
    IN  /\ user[t].at = "finish"
        /\ handle' = IF r.val > 0 /\ req[s].op = "open" /\ handle[r.val].used
                     THEN [handle EXCEPT ![r.val].owner = t] ELSE handle
        /\ req' = [req EXCEPT ![s] = FreeSlot(@.done)]
        /\ user' = [user EXCEPT ![t].at = "ready", ![t].slot = 0, ![t].n = (@ + 1) % 2,
             ![t].answer = IF r.by = <<t, user[t].n>> THEN "mine"
                           ELSE IF r = NoResult THEN "unanswered" ELSE "other"]
        /\ UNCHANGED <<work_sem, vfs_mutex, worker, priv, clash>>

\* What a task is doing, as far as its death matters.
Doing(t) ==
    IF user[t].at = "ready" THEN "ready"
    ELSE IF req[user[t].slot].result # NoResult THEN "answered"
    ELSE IF req[user[t].slot].op = "open" THEN "opening" ELSE "waiting"

\* MUTANT: the files of a dead task are left open.
OwnFiles_None(t) == {}

\* The handles a dead task leaves.
OwnFiles(t) == {f \in File : handle[f].used /\ handle[f].owner = t}

\* MUTANT: the slot of a dead task's request is free at once.
Orphaned_Freed(r) == FreeSlot(r.done)

\* A request in flight is left to the worker to release; one with output is not.
Orphaned(r) == IF r.out_len # 0 THEN FreeSlot(r.done) ELSE [r EXCEPT !.owner = NULL]

\* How many members of S come before x: the loops go through handles and slots in order.
Place(S, x) == Cardinality({y \in S : y < x})

\* The files of a dead task whose close goes to slot s: the k-th to the k-th free slot.
CloseIn(t, s) ==
    {f \in OwnFiles(t) : s \in FreeSlots /\ Place(OwnFiles(t), f) = Place(FreeSlots, s)}

\* v_vfs_task_teardown: each file is handed to the worker as an ownerless close,
\* or closed on the spot when there is no slot; requests in flight are abandoned.
v_vfs_task_teardown(t) ==
    LET sent == UNION {CloseIn(t, s) : s \in Slot}
        spot == OwnFiles(t) \ sent
    IN  /\ user[t].at # "dead" /\ Doing(t) \in KillAt
        /\ req' = [s \in Slot |->
             IF CloseIn(t, s) # {}
             THEN [req[s] EXCEPT !.used = TRUE, !.queued = TRUE, !.op = "close",
                                 !.fd = First(CloseIn(t, s)), !.out_len = 0, !.owner = NULL,
                                 !.result = NoResult, !.call = NoCall]
             ELSE IF req[s].used /\ req[s].owner = t
             THEN Orphaned(req[s])
             ELSE req[s]]
        /\ handle' = [f \in File |->
             IF f \in spot THEN [used |-> FALSE, owner |-> NULL]
             ELSE IF f \in OwnFiles(t) THEN [handle[f] EXCEPT !.owner = NULL] ELSE handle[f]]
        /\ clash' = (clash \/ (spot # {} /\ vfs_mutex # NULL))
        /\ work_sem' = WorkAfter(Cardinality(sent))
        /\ user' = [user EXCEPT ![t].at = "dead", ![t].slot = 0]
        /\ UNCHANGED <<vfs_mutex, worker, priv>>
------------------------------------------------------------------------------
(* v_vfs_worker_step *)

\* MUTANT: the semaphore is taken for all the requests there are.
TakeWork_All ==
    /\ worker.at = "take" /\ work_sem > 0
    /\ work_sem' = 0
    /\ worker' = [worker EXCEPT !.at = "pick"]
    /\ UNCHANGED <<req, handle, vfs_mutex, priv, user, clash>>

TakeWork ==
    /\ worker.at = "take" /\ work_sem > 0
    /\ work_sem' = work_sem - 1
    /\ worker' = [worker EXCEPT !.at = "pick"]
    /\ UNCHANGED <<req, handle, vfs_mutex, priv, user, clash>>

Queued == {s \in Slot : req[s].used /\ req[s].queued}

\* MUTANT: the scan keeps the last request it meets.
Picked_Last == CHOOSE s \in Queued : \A r \in Queued : r <= s

Picked == First(Queued)

\* Pick the first queued request, or go back if it has gone away.
PickRequest ==
    /\ worker.at = "pick"
    /\ \/ /\ Queued = {} /\ worker' = Resting /\ UNCHANGED req
       \/ /\ Queued # {}
          /\ req' = [req EXCEPT ![Picked].queued = FALSE]
          /\ worker' = [worker EXCEPT !.at = "exec", !.slot = Picked]
    /\ UNCHANGED <<handle, work_sem, vfs_mutex, priv, user, clash>>

FreeFiles == {f \in File : ~handle[f].used}

\* The switch on the operation: a handle is allocated or checked, and the file
\* system is entered or the request refused.
Execute ==
    LET r == req[worker.slot]
        f == IF r.op = "open" THEN First(FreeFiles) ELSE r.fd
        refused == IF r.op = "open" THEN FreeFiles = {} ELSE f = 0 \/ ~handle[f].used
    IN  /\ worker.at = "exec"
        /\ handle' = IF r.op = "open" /\ ~refused
                     THEN [handle EXCEPT ![f] = [used |-> TRUE, owner |-> NULL]] ELSE handle
        /\ worker' = [worker EXCEPT !.at = IF refused THEN "post" ELSE "lock", !.op = r.op,
                        !.call = r.call, !.fd = IF refused THEN 0 ELSE f, !.res = -1, !.out = 0]
        /\ UNCHANGED <<req, work_sem, vfs_mutex, priv, user, clash>>

\* MUTANT: the worker does not take vfs_mutex.
MayEnter_Always == TRUE

\* vfs_lock succeeds.
MayEnter == vfs_mutex = NULL

WorkerEnters ==
    /\ worker.at = "lock" /\ MayEnter
    /\ vfs_mutex' = Worker
    /\ clash' = (clash \/ vfs_mutex # NULL)
    /\ worker' = [worker EXCEPT !.at = "fs"]
    /\ UNCHANGED <<req, handle, work_sem, priv, user>>

\* The file system has answered, and vfs_mutex is released: a handle whose open
\* failed, or that was closed, is free.
FsAnswers(ok) ==
    LET f == worker.fd
    IN  /\ worker.at = "fs"
        /\ vfs_mutex' = NULL
        /\ handle' = IF worker.op = "close" \/ (worker.op = "open" /\ ~ok)
                     THEN [handle EXCEPT ![f] = [used |-> FALSE, owner |-> NULL]] ELSE handle
        /\ worker' = [worker EXCEPT !.at = "post",
             !.res = IF ~ok THEN -1 ELSE IF worker.op = "open" THEN f ELSE 0,
             !.out = IF ok /\ worker.op = "read" THEN 1 ELSE 0]
        /\ UNCHANGED <<req, work_sem, priv, user, clash>>

\* MUTANT: the slot of an abandoned request is not released.
Abandoned_Kept(r) == r

\* A request whose owner died: the slot is released, the result dropped.
Abandoned(r) == FreeSlot(r.done)

PostResult ==
    LET s == worker.slot
    IN  /\ worker.at = "post"
        /\ \/ /\ req[s].owner = NULL
              /\ req' = [req EXCEPT ![s] = Abandoned(@)]
              /\ worker' = Resting
           \/ /\ req[s].owner # NULL
              /\ req' = [req EXCEPT ![s].out_len = worker.out,
                           ![s].result = [val |-> worker.res, by |-> worker.call]]
              /\ worker' = [worker EXCEPT !.at = "give"]
        /\ UNCHANGED <<handle, work_sem, vfs_mutex, priv, user, clash>>

GiveDone ==
    /\ worker.at = "give"
    /\ req' = [req EXCEPT ![worker.slot].done = 1]
    /\ worker' = Resting
    /\ UNCHANGED <<handle, work_sem, vfs_mutex, priv, user, clash>>

\* A privileged task calls vfs_open, vfs_read, ... itself, under vfs_mutex.
PrivEnters ==
    /\ priv = "ready" /\ vfs_mutex = NULL
    /\ vfs_mutex' = Priv /\ priv' = "fs"
    /\ UNCHANGED <<req, handle, work_sem, worker, user, clash>>
PrivLeaves ==
    /\ priv = "fs"
    /\ vfs_mutex' = NULL /\ priv' = "ready"
    /\ UNCHANGED <<req, handle, work_sem, worker, user, clash>>

VfsNext ==
    \/ \E t \in User : v_vfs_submit(t, "open", 0)
    \/ \E t \in User, op \in {"read", "close"}, f \in File :
         handle[f].owner = t /\ v_vfs_submit(t, op, f)
    \/ \E t \in User : v_vfs_wait(t)
    \/ \E t \in User : v_vfs_finish(t)
    \/ \E t \in User : v_vfs_task_teardown(t)
    \/ TakeWork
    \/ PickRequest
    \/ Execute
    \/ WorkerEnters
    \/ \E ok \in BOOLEAN : FsAnswers(ok)
    \/ PostResult
    \/ GiveDone
    \/ PrivEnters
    \/ PrivLeaves

\* The worker is a task that gets to run, file system calls return, and vfs_mutex
\* is handed to its waiters (Kernel), so the worker gets it in the end.
VfsFairness ==
    /\ WF_vfs_vars(TakeWork \/ PickRequest \/ Execute \/ PostResult \/ GiveDone)
    /\ WF_vfs_vars(\E ok \in BOOLEAN : FsAnswers(ok)) /\ WF_vfs_vars(PrivLeaves) /\ SF_vfs_vars(WorkerEnters)
    /\ \A t \in User : WF_vfs_vars(v_vfs_wait(t))

VfsSpec == VfsInit /\ [][VfsNext]_vfs_vars /\ VfsFairness
------------------------------------------------------------------------------
(* Properties *)

\* The worker has this slot in hand.
InHand(s) == worker.slot = s /\ worker.at \notin {"take", "pick"}

\* A call returns the result of its own request, done exactly by the worker: not
\* a stale signal's, not another request's (v_vfs_submit, v_vfs_finish).
AnswerMine == \A t \in User : user[t].answer \in {"none", "mine"}

\* A slot in use has a task that will free it, or is on its way through the worker.
SlotsAccounted ==
    \A s \in Slot : req[s].used =>
        \/ req[s].owner # NULL /\ user[req[s].owner].slot = s /\ user[req[s].owner].at # "dead"
        \/ req[s].queued \/ InHand(s)

\* A handle in use belongs to a live task, or a request in progress is opening or
\* closing it: a dead task's files get closed, not lost (v_vfs_task_teardown).
FilesAccounted ==
    \A f \in File : handle[f].used =>
        \/ handle[f].owner # NULL /\ user[handle[f].owner].at # "dead"
        \/ \E s \in Queued : req[s].op = "close" /\ req[s].fd = f
        \/ \E s \in Slot : InHand(s) /\ (worker.fd = f \/ req[s].fd = f)
        \/ \E s \in Slot : req[s].used /\ req[s].result.val = f /\ req[s].op = "open"

\* No queued request is forgotten: the semaphore counts at least as many as are
\* queued, but for the one the worker is about to pick.
NoForgottenRequest ==
    Cardinality(Queued) <= work_sem + (IF worker.at = "pick" THEN 1 ELSE 0)

\* The file system has one caller at a time.
FsExclusive == ~clash

\* A task waits for the answer to a request in the first slot.
WaitsFirst(t) == user[t].at = "wait" /\ user[t].slot = First(Slot)

\* The request in the first slot is answered whatever the others do.  (Of the later
\* slots that cannot be said: the worker scans from the first one every time, so a
\* task that keeps asking through a lower slot starves them.)
FirstSlotServed == \A t \in User : WaitsFirst(t) ~> ~WaitsFirst(t)

\* A request is answered to the one who made it, and no slot, handle or request is
\* leaked or forgotten when its task dies on the way (v_vfs_submit, v_vfs_wait,
\* v_vfs_finish, v_vfs_worker_step, v_vfs_task_teardown).
RequestsSound ==
    AnswerMine /\ SlotsAccounted /\ FilesAccounted /\ NoForgottenRequest /\ FsExclusive
==============================================================================

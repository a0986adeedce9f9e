-------------------------------- MODULE Mpmc ---------------------------------
(***************************************************************************)
(* The multi-producer multi-consumer queue (kernel/structure.c): a ring    *)
(* under a mutex, with two counting semaphores that say how many elements  *)
(* and how many holes there are, and two binary hints for tasks that reach *)
(* the queue through a descriptor.                                         *)
(*                                                                         *)
(* A privileged task calls mpmc_* in thread mode, where every lock, take   *)
(* and give is a system call of its own: one action each.  An unprivileged *)
(* task's v_queue_try_send, v_queue_try_recv and v_queue_wait are one      *)
(* system call, so one action each.                                        *)
(***************************************************************************)
EXTENDS Integers, Sequences, FiniteSets

CONSTANTS
    Priv,           \* tasks that call mpmc_* directly
    User,           \* tasks that use a queue descriptor
    Capacity,       \* q->capacity
    MeetsLock,      \* bound: a system call may come to a point where it would wait
    ResetRaces,     \* bound: mpmc_reset may run while other calls are in progress
    NULL            \* no owner

VARIABLES
    policy,         \* q->policy
    ring,           \* q->buffer
    head, tail, count,
    lock,           \* who holds q->lock
    lockq,          \* who is parked on it
    not_empty, not_full,
    wake_rd, wake_wr,
    caller,         \* where each task is, and what it asks for
    content         \* ghost: what the queue holds, oldest first

vars == <<policy, ring, head, tail, count, lock, lockq, not_empty, not_full, wake_rd, wake_wr,
          caller, content>>

Task == Priv \cup User
Mod(n) == n % Capacity
AtMost(n, limit) == IF n > limit THEN limit ELSE n
Idle == [at |-> "idle", op |-> "none"]

Overwrite == policy = "overwrite"

\* mpmc_init, mpmc_set_policy, v_queue_register.
Init ==
    /\ policy \in {"drop", "overwrite"}
    /\ ring = [i \in 0..(Capacity - 1) |-> NULL] /\ content = <<>>
    /\ head = 0 /\ tail = 0 /\ count = 0 /\ lock = NULL /\ lockq = <<>>
    /\ not_empty = 0 /\ not_full = Capacity /\ wake_rd = 0 /\ wake_wr = 0
    /\ caller = [t \in Task |-> Idle]

\* A call may begin: a reset that must not be raced keeps the others out.
MayBegin == ResetRaces \/ \A u \in Task : caller[u].op # "reset"

Goto(t, at) == caller' = [caller EXCEPT ![t].at = at]
Return(t) == caller' = [caller EXCEPT ![t] = Idle]
QUEUE == <<ring, head, tail, count, content>>
SEMS == <<not_empty, not_full, wake_rd, wake_wr>>
LOCK == <<lock, lockq>>

\* v_mutex_unlock: the mutex is handed to whoever is parked on it.
Unlock == IF lockq = <<>> THEN lock' = NULL /\ UNCHANGED lockq
          ELSE lock' = Head(lockq) /\ lockq' = Tail(lockq)

Sleepers(at) == {t \in User : caller[t].at = at}
------------------------------------------------------------------------------
(* What a push and a pop do to the ring *)

PushRing(item) ==
    /\ ring' = [ring EXCEPT ![head] = item]
    /\ head' = Mod(head + 1) /\ count' = count + 1
    /\ content' = Append(content, item)
    /\ UNCHANGED tail

PopRing ==
    /\ tail' = IF tail + 1 >= Capacity THEN 0 ELSE tail + 1
    /\ count' = count - 1
    /\ content' = IF content = <<>> THEN content ELSE Tail(content)
    /\ UNCHANGED <<ring, head>>

\* The oldest element gives way: head and tail move together.
OverwriteRing(item) ==
    /\ ring' = [ring EXCEPT ![head] = item]
    /\ head' = Mod(head + 1) /\ tail' = Mod(tail + 1)
    /\ content' = Append(Tail(content), item)
    /\ UNCHANGED count
------------------------------------------------------------------------------
(* A privileged task: mpmc_push_timeout, mpmc_pop_timeout, mpmc_peek, mpmc_reset *)

\* Take not_full.  With nothing there an overwriting push goes for the oldest
\* element, another push waits or gives up.
PushTake(t) ==
    /\ caller[t] = Idle /\ MayBegin
    /\ \/ /\ not_full > 0 /\ not_full' = not_full - 1
          /\ caller' = [caller EXCEPT ![t] = [at |-> "lock", op |-> "push"]]
       \/ /\ not_full = 0 /\ Overwrite /\ UNCHANGED not_full
          /\ caller' = [caller EXCEPT ![t] = [at |-> "lock", op |-> "overwrite"]]
    /\ UNCHANGED <<QUEUE, LOCK, not_empty, wake_rd, wake_wr>>

PopTake(t) ==
    /\ caller[t] = Idle /\ MayBegin /\ not_empty > 0
    /\ not_empty' = not_empty - 1
    /\ caller' = [caller EXCEPT ![t] = [at |-> "lock", op |-> "pop"]]
    /\ UNCHANGED <<QUEUE, LOCK, not_full, wake_rd, wake_wr>>

\* mpmc_size, mpmc_peek, mpmc_reset start with the lock.
LookOrReset(t, op) ==
    /\ caller[t] = Idle /\ MayBegin
    /\ op = "reset" => ResetRaces \/ \A u \in Task : caller[u] = Idle
    /\ caller' = [caller EXCEPT ![t] = [at |-> "lock", op |-> op]]
    /\ UNCHANGED <<QUEUE, LOCK, SEMS>>

\* MUTANT: the section runs without the mutex.
Lock_None(t) ==
    /\ caller[t].at = "lock" /\ t \in Priv
    /\ Goto(t, "in")
    /\ UNCHANGED <<QUEUE, LOCK, SEMS>>

Lock(t) ==
    /\ caller[t].at = "lock" /\ t \in Priv
    /\ \/ lock = NULL /\ lock' = t /\ Goto(t, "in") /\ UNCHANGED lockq
       \/ lock # NULL /\ lockq' = Append(lockq, t) /\ Goto(t, "parked") /\ UNCHANGED lock
    /\ UNCHANGED <<QUEUE, SEMS>>

\* The mutex was handed over.
Granted(t) ==
    /\ caller[t].at = "parked" /\ t \in Priv /\ lock = t
    /\ Goto(t, "in")
    /\ UNCHANGED <<QUEUE, LOCK, SEMS>>

\* The element is copied in, then the head is moved.
PushIn(t) ==
    /\ caller[t] = [at |-> "in", op |-> "push"]
    /\ ring' = [ring EXCEPT ![head] = t] /\ Goto(t, "stored")
    /\ UNCHANGED <<head, tail, count, content, LOCK, SEMS>>

PushMove(t) ==
    /\ caller[t] = [at |-> "stored", op |-> "push"]
    /\ head' = Mod(head + 1) /\ count' = count + 1 /\ content' = Append(content, t)
    /\ Unlock /\ Goto(t, "give")
    /\ UNCHANGED <<ring, tail, SEMS>>

PopIn(t) ==
    /\ caller[t] = [at |-> "in", op |-> "pop"]
    /\ PopRing /\ Unlock /\ Goto(t, "give")
    /\ UNCHANGED SEMS

\* q->count == q->capacity under the lock.
StillFull == count = Capacity

\* Overwrite the oldest, or find that someone popped meanwhile and try again.
OverwriteIn(t) ==
    /\ caller[t] = [at |-> "in", op |-> "overwrite"]
    /\ \/ StillFull /\ OverwriteRing(t) /\ Unlock /\ Return(t)
       \/ ~StillFull /\ Unlock /\ Goto(t, "again") /\ UNCHANGED QUEUE
    /\ UNCHANGED SEMS

\* The second take, then the one that waits a tick: it may fail.
OverwriteRetry(t) ==
    /\ caller[t] = [at |-> "again", op |-> "overwrite"]
    /\ \/ /\ not_full > 0 /\ not_full' = not_full - 1
          /\ caller' = [caller EXCEPT ![t] = [at |-> "lock", op |-> "push"]]
       \/ not_full = 0 /\ Return(t) /\ UNCHANGED not_full
    /\ UNCHANGED <<QUEUE, LOCK, not_empty, wake_rd, wake_wr>>

LookIn(t) ==
    /\ caller[t] = [at |-> "in", op |-> "peek"]
    /\ Unlock /\ Return(t)
    /\ UNCHANGED <<QUEUE, SEMS>>

\* mpmc_reset holds the mutex while it drains and refills the semaphores.
ResetIn(t) ==
    /\ caller[t] = [at |-> "in", op |-> "reset"]
    /\ head' = 0 /\ tail' = 0 /\ count' = 0 /\ content' = <<>>
    /\ not_empty' = 0 /\ not_full' = Capacity
    /\ Unlock /\ Return(t)
    /\ UNCHANGED <<ring, wake_rd, wake_wr>>

\* MUTANT: a pop gives back no hole.
GiveSem_Lost(t) ==
    /\ caller[t].at = "give"
    /\ not_empty' = IF caller[t].op = "push" THEN AtMost(not_empty + 1, Capacity) ELSE not_empty
    /\ UNCHANGED not_full /\ Goto(t, "hint")
    /\ UNCHANGED <<QUEUE, LOCK, wake_rd, wake_wr>>

\* v_semaphore_give on not_empty (a push) or not_full (a pop).
GiveSem(t) ==
    /\ caller[t].at = "give"
    /\ \/ /\ caller[t].op = "push"
          /\ not_empty' = AtMost(not_empty + 1, Capacity) /\ UNCHANGED not_full
       \/ /\ caller[t].op = "pop"
          /\ not_full' = AtMost(not_full + 1, Capacity) /\ UNCHANGED not_empty
    /\ Goto(t, "hint")
    /\ UNCHANGED <<QUEUE, LOCK, wake_rd, wake_wr>>

\* v_semaphore_give on a hint, and t's call goes on to next: a task asleep on the
\* hint is woken, or the hint is kept.
GiveHint(t, next, at, hint) ==
    \/ /\ Sleepers(at) = {} /\ hint' = 1 /\ caller' = [caller EXCEPT ![t] = next]
    \/ \E u \in Sleepers(at) :
         caller' = [caller EXCEPT ![t] = next, ![u].at = "retry"] /\ hint' = hint

\* MUTANT: no hint for tasks that wait through a descriptor.
Hint_None(t) ==
    /\ caller[t].at = "hint"
    /\ Return(t)
    /\ UNCHANGED <<QUEUE, LOCK, SEMS>>

Hint(t) ==
    /\ caller[t].at = "hint"
    /\ \/ caller[t].op = "push" /\ GiveHint(t, Idle, "wait_rd", wake_rd) /\ UNCHANGED wake_wr
       \/ caller[t].op = "pop" /\ GiveHint(t, Idle, "wait_wr", wake_wr) /\ UNCHANGED wake_rd
    /\ UNCHANGED <<QUEUE, LOCK, not_empty, not_full>>
------------------------------------------------------------------------------
(* A task with a descriptor: v_queue_send and v_queue_recv (q_transfer)     *)

\* v_mutex_lock in a system call: a held mutex parks the caller, and the body
\* goes on without it; the unlock at its end is refused.
LockFree == lock = NULL
SyscallLock(t) ==
    \/ LockFree /\ UNCHANGED LOCK
    \/ ~LockFree /\ MeetsLock /\ lockq' = Append(lockq, t) /\ UNCHANGED lock

After == [at |-> IF LockFree THEN "idle" ELSE "parked", op |-> "none"]

\* v_queue_try_send: one attempt.  A full queue sends the caller to wait.
TrySend(t) ==
    /\ (caller[t] = Idle /\ MayBegin) \/ caller[t] = [at |-> "retry", op |-> "send"]
    /\ \/ /\ not_full > 0 /\ not_full' = not_full - 1
          /\ SyscallLock(t) /\ PushRing(t)
          /\ not_empty' = AtMost(not_empty + 1, Capacity)
          /\ GiveHint(t, After, "wait_rd", wake_rd)
          /\ UNCHANGED wake_wr
       \/ /\ not_full = 0 /\ ~Overwrite
          /\ caller' = [caller EXCEPT ![t] = [at |-> "towait", op |-> "send"]]
          /\ UNCHANGED <<QUEUE, LOCK, SEMS>>
       \/ /\ not_full = 0 /\ Overwrite /\ StillFull
          /\ SyscallLock(t) /\ OverwriteRing(t)
          /\ caller' = [caller EXCEPT ![t] = After]
          /\ UNCHANGED SEMS
       \/ /\ not_full = 0 /\ Overwrite /\ ~StillFull /\ MeetsLock \* waits a tick for a hole
          /\ caller' = [caller EXCEPT ![t] = [at |-> "parked", op |-> "none"]]
          /\ UNCHANGED <<QUEUE, LOCK, SEMS>>

TryRecv(t) ==
    /\ (caller[t] = Idle /\ MayBegin) \/ caller[t] = [at |-> "retry", op |-> "recv"]
    /\ \/ /\ not_empty > 0 /\ not_empty' = not_empty - 1
          /\ SyscallLock(t) /\ PopRing
          /\ not_full' = AtMost(not_full + 1, Capacity)
          /\ GiveHint(t, After, "wait_wr", wake_wr)
          /\ UNCHANGED wake_rd
       \/ /\ not_empty = 0
          /\ caller' = [caller EXCEPT ![t] = [at |-> "towait", op |-> "recv"]]
          /\ UNCHANGED <<QUEUE, LOCK, SEMS>>

\* mpmc_is_full, mpmc_is_empty.
Ready(op) == IF op = "send" THEN count # Capacity ELSE count # 0

\* v_queue_wait: return if ready, else take the hint, or sleep, or time out.
Wait(t) ==
    /\ caller[t].at = "towait" /\ LockFree
    /\ \/ Ready(caller[t].op) /\ Goto(t, "retry") /\ UNCHANGED <<wake_rd, wake_wr>>
       \/ /\ ~Ready(caller[t].op) /\ caller[t].op = "recv" /\ UNCHANGED wake_wr
          /\ \/ wake_rd = 1 /\ wake_rd' = 0 /\ Goto(t, "retry")
             \/ wake_rd = 0 /\ UNCHANGED wake_rd /\ Goto(t, "wait_rd")
       \/ /\ ~Ready(caller[t].op) /\ caller[t].op = "send" /\ UNCHANGED wake_rd
          /\ \/ wake_wr = 1 /\ wake_wr' = 0 /\ Goto(t, "retry")
             \/ wake_wr = 0 /\ UNCHANGED wake_wr /\ Goto(t, "wait_wr")
    /\ UNCHANGED <<QUEUE, LOCK, not_empty, not_full>>

\* The wait times out, and v_queue_send or v_queue_recv gives up.
GiveUp(t) ==
    /\ caller[t].at \in {"wait_rd", "wait_wr"}
    /\ Return(t)
    /\ UNCHANGED <<QUEUE, LOCK, SEMS>>

\* A task parked in the middle of a system call: granted the mutex, its call
\* returns, and nothing gives the mutex back.
ParkedReturns(t) ==
    /\ caller[t].at = "parked" /\ lock = t
    /\ Return(t)
    /\ UNCHANGED <<QUEUE, LOCK, SEMS>>

Step ==
    \/ \E t \in Priv : PushTake(t)
    \/ \E t \in Priv : PopTake(t)
    \/ \E t \in Priv, op \in {"peek", "reset"} : LookOrReset(t, op)
    \/ \E t \in Priv : Lock(t)
    \/ \E t \in Priv : Granted(t)
    \/ \E t \in Priv : PushIn(t)
    \/ \E t \in Priv : PushMove(t)
    \/ \E t \in Priv : PopIn(t)
    \/ \E t \in Priv : OverwriteIn(t)
    \/ \E t \in Priv : OverwriteRetry(t)
    \/ \E t \in Priv : LookIn(t)
    \/ \E t \in Priv : ResetIn(t)
    \/ \E t \in Priv : GiveSem(t)
    \/ \E t \in Priv : Hint(t)
    \/ \E t \in User : TrySend(t)
    \/ \E t \in User : TryRecv(t)
    \/ \E t \in User : Wait(t)
    \/ \E t \in User : GiveUp(t)
    \/ \E t \in User : ParkedReturns(t)

Next == Step /\ UNCHANGED policy

Spec == Init /\ [][Next]_vars
------------------------------------------------------------------------------
(* Properties *)

\* The tasks at a point of an operation.
Where(at, ops) == Cardinality({t \in Task : caller[t].at \in at /\ caller[t].op \in ops})

\* The ring between tail and head holds exactly what was pushed and not popped or
\* overwritten, in order, whatever calls run at once (mpmc_push_timeout,
\* mpmc_pop_timeout, mpmc_reset).
RingExact ==
    /\ count = Len(content)
    /\ \A i \in 1..Len(content) : ring[Mod(tail + i - 1)] = content[i]

\* The semaphores account for every element and every hole, but for the calls that
\* have taken one and not used it yet or made one and not said so yet.
SemsAgree ==
    /\ not_empty + Where({"lock", "parked", "in"}, {"pop"}) + Where({"give"}, {"push"}) = count
    /\ not_full + Where({"lock", "parked", "in", "stored"}, {"push"}) + Where({"give"}, {"pop"})
         = Capacity - count

\* A task asleep on a hint while the queue is ready for it has another task on
\* the way to use the queue or to give the hint: no wakeup is lost.
NoLostHint ==
    /\ Sleepers("wait_rd") # {} /\ count > 0 =>
         \/ wake_rd = 1 \/ Where({"give", "hint"}, {"push"}) > 0
         \/ Where({"retry"}, {"recv"}) > 0 \/ Where({"lock", "parked", "in"}, {"pop"}) > 0
    /\ Sleepers("wait_wr") # {} /\ count < Capacity =>
         \/ wake_wr = 1 \/ Where({"give", "hint"}, {"pop"}) > 0
         \/ Where({"retry"}, {"send"}) > 0 \/ Where({"lock", "parked", "in", "stored"}, {"push"}) > 0

\* A queue system call makes one attempt and never waits: its task is not parked
\* on the queue's mutex, and no task sleeps holding it (q_try).
OneAttemptNoWaiting ==
    \A t \in User : caller[t].at # "parked" /\ lock # t

\* The ring, its two semaphores and its two hints agree whatever calls run at once:
\* nothing is lost, doubled or slept on (mpmc_push_timeout, mpmc_pop_timeout).
MpmcSound == RingExact /\ SemsAgree /\ NoLostHint
==============================================================================

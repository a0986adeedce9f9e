-------------------------------- MODULE Upipe --------------------------------
(***************************************************************************)
(* v_upipe: a single-producer single-consumer ring in memory that the MPU  *)
(* maps into two tasks (include/upipe.h), with the three system calls that *)
(* let an end sleep and its peer wake it (kernel/task.c).                  *)
(*                                                                         *)
(* The ring is worked on in user mode, so every access to a shared field   *)
(* is a step of its own and the two ends interleave between any two of     *)
(* them; a system call is one step (see Kernel).  The wake semaphore of an *)
(* end has that end as its only waiter: a token and a parked flag.         *)
(***************************************************************************)
EXTENDS Integers, Sequences, FiniteSets

CONSTANTS
    Item,        \* what a slot can hold
    n,           \* slots of the ring
    Mod          \* the counters wr and rd wrap at Mod (2^32 in the code)

ASSUME RingAssumption ==
    /\ Item # {} /\ n \in Nat \ {0, 1} /\ Mod \in Nat
    /\ \E k \in 1..Mod : Mod = n * k /\ k > 1

End == {"prod", "cons"}
Peer(e) == IF e = "prod" THEN "cons" ELSE "prod"

VARIABLES
    wr, rd,      \* slots committed and released, free running
    slot,        \* contents of the ring
    wait_flag,   \* wait_wr of the producer, wait_rd of the consumer
    token,       \* count of the wake semaphore of each end
    pc,          \* where each end is
    item,        \* what the consumer has read of the slot it peeked
    out,         \* what its last release delivered
    restarted    \* ghost: an end has faulted and been restarted

ringVars == <<wr, rd, slot>>
vars == <<ringVars, wait_flag, token, pc, item, out, restarted>>

\* v_upipe_create: a zeroed block; the ends have it from v_upipe_self.
Init ==
    /\ wr = 0 /\ rd = 0
    /\ slot \in [0..(n - 1) -> {CHOOSE i \in Item : TRUE}]
    /\ wait_flag = [e \in End |-> FALSE]
    /\ token = [e \in End |-> 0]
    /\ pc = [e \in End |-> "try"]
    /\ item = slot[0] /\ out = <<>> /\ restarted = FALSE

Used == (wr - rd) % Mod

\* MUTANT: one slot too many.
Ready_OffByOne(e) == IF e = "prod" THEN Used <= n ELSE wr # rd

\* The end can go on: room for the producer, data for the consumer.
Ready(e) == IF e = "prod" THEN Used < n ELSE wr # rd

Goto(e, to) == pc' = [pc EXCEPT ![e] = to] /\ UNCHANGED restarted

\* v_upipe_reserve and v_upipe_peek.
Try(e) ==
    /\ pc[e] = "try"
    /\ Goto(e, IF Ready(e) THEN "use" ELSE "raise")
    /\ UNCHANGED <<ringVars, wait_flag, token, item, out>>

\* The producer fills the slot v_upipe_slot gave it.
Fill(v) ==
    /\ pc["prod"] = "use"
    /\ slot' = [slot EXCEPT ![wr % n] = v]
    /\ Goto("prod", "commit")
    /\ UNCHANGED <<wr, rd, wait_flag, token, item, out>>

\* The consumer reads it.
Read ==
    /\ pc["cons"] = "use"
    /\ item' = slot[rd % n]
    /\ Goto("cons", "commit")
    /\ UNCHANGED <<ringVars, wait_flag, token, out>>

\* MUTANT: no look at the peer's flag.
v_upipe_commit_Silent ==
    /\ pc["prod"] = "commit"
    /\ wr' = (wr + 1) % Mod
    /\ Goto("prod", "try")
    /\ UNCHANGED <<rd, slot, wait_flag, token, item, out>>

v_upipe_commit ==
    /\ pc["prod"] = "commit"
    /\ wr' = (wr + 1) % Mod
    /\ Goto("prod", "notify")
    /\ UNCHANGED <<rd, slot, wait_flag, token, item, out>>

v_upipe_release ==
    /\ pc["cons"] = "commit"
    /\ rd' = (rd + 1) % Mod /\ out' = <<item>>
    /\ Goto("cons", "notify")
    /\ UNCHANGED <<wr, slot, wait_flag, token, item>>

\* The second half of commit and release: kick a peer whose flag is up.
Notify(e) ==
    /\ pc[e] = "notify"
    /\ Goto(e, IF wait_flag[Peer(e)] THEN "kick" ELSE "try")
    /\ UNCHANGED <<ringVars, wait_flag, token, item, out>>

\* Give the peer's semaphore: wake it, or leave a token.
v_upipe_kick(e) ==
    /\ pc[e] = "kick"
    /\ pc' = [pc EXCEPT ![e] = "try",
                        ![Peer(e)] = IF @ = "parked" THEN "lower" ELSE @]
    /\ token' = IF pc[Peer(e)] = "parked" THEN token
                ELSE [token EXCEPT ![Peer(e)] = 1]
    /\ UNCHANGED <<ringVars, wait_flag, item, out, restarted>>

\* MUTANT: the flag is raised after the re-check.
v_upipe_wait_LateFlag(e) ==
    /\ pc[e] = "raise"
    /\ Goto(e, IF Ready(e) THEN "lower" ELSE "sleep")
    /\ UNCHANGED <<ringVars, wait_flag, token, item, out>>

\* v_upipe_wait, first line: the flag goes up.
v_upipe_wait(e) ==
    /\ pc[e] = "raise"
    /\ wait_flag' = [wait_flag EXCEPT ![e] = TRUE]
    /\ Goto(e, "recheck")
    /\ UNCHANGED <<ringVars, token, item, out>>

\* v_upipe_wait: the look at the ring after the flag is up.
Recheck(e) ==
    /\ pc[e] = "recheck"
    /\ Goto(e, IF Ready(e) THEN "lower" ELSE "sleep")
    /\ UNCHANGED <<ringVars, wait_flag, token, item, out>>

\* The system call: ready, a token, or park.
v_upipe_sleep(e) ==
    /\ pc[e] = "sleep"
    /\ \/ /\ Ready(e) \/ token[e] = 1
          /\ token' = IF Ready(e) THEN token ELSE [token EXCEPT ![e] = 0]
          /\ Goto(e, "lower")
       \/ /\ ~Ready(e) /\ token[e] = 0
          /\ Goto(e, "parked")
          /\ UNCHANGED token
    /\ UNCHANGED <<ringVars, wait_flag, item, out>>

\* The tick ejects a parked end.
Timeout(e) ==
    /\ pc[e] = "parked"
    /\ Goto(e, "lower")
    /\ UNCHANGED <<ringVars, wait_flag, token, item, out>>

\* v_upipe_wait, last line; the caller loops.
Lower(e) ==
    /\ pc[e] = "lower"
    /\ wait_flag' = [wait_flag EXCEPT ![e] = FALSE]
    /\ Goto(e, "try")
    /\ UNCHANGED <<ringVars, token, item, out>>

\* MUTANT: the restarted task clears the ring it reattaches to.
Restart_Cleared(e) ==
    /\ pc[e] \notin {"parked", "try"}
    /\ pc' = [pc EXCEPT ![e] = "try"] /\ restarted' = TRUE
    /\ wr' = 0 /\ rd' = 0
    /\ UNCHANGED <<slot, wait_flag, token, item, out>>

\* task_fault_restart: the new task has the same end of the same pipe and
\* starts its code over; the ring is as the dead one left it.
Restart(e) ==
    /\ pc[e] \notin {"parked", "try"}
    /\ pc' = [pc EXCEPT ![e] = "try"] /\ restarted' = TRUE
    /\ UNCHANGED <<ringVars, wait_flag, token, item, out>>

Step(e) ==
    \/ Notify(e) \/ v_upipe_kick(e)
    \/ v_upipe_wait(e) \/ Recheck(e) \/ v_upipe_sleep(e) \/ Lower(e)

Next ==
    \/ \E e \in End : Try(e) \/ Step(e) \/ Timeout(e) \/ Restart(e)
    \/ \E v \in Item : Fill(v)
    \/ v_upipe_commit
    \/ Read \/ v_upipe_release

Spec == Init /\ [][Next]_vars

\* An end that is in the middle of an operation goes on with it, and the
\* consumer comes back for more; the producer may stop producing.
Fairness ==
    /\ \A e \in End : WF_vars(Step(e))
    /\ WF_vars(Try("cons")) /\ WF_vars(Read) /\ WF_vars(v_upipe_release)
    /\ WF_vars(\E v \in Item : Fill(v)) /\ WF_vars(v_upipe_commit)

FairSpec == Spec /\ Fairness
------------------------------------------------------------------------------
(* Properties *)

\* The counters stay within a ring of each other across the wrap, and every end
\* is at a step of its protocol with a binary token.
TypeOK ==
    /\ wr \in 0..(Mod - 1) /\ rd \in 0..(Mod - 1) /\ Used <= n
    /\ slot \in [0..(n - 1) -> Item] /\ item \in Item
    /\ restarted \in BOOLEAN
    /\ wait_flag \in [End -> BOOLEAN] /\ token \in [End -> 0..1]
    /\ pc \in [End -> {"try", "use", "commit", "notify", "kick", "raise",
                       "recheck", "sleep", "parked", "lower"}]

\* "no lost wakeup" (v_upipe_wait): an end sleeps on a ring that has become
\* ready only while its peer is still on the way to kick it.  (An end that
\* faults between its commit and its kick does lose it.)
NoLostKick ==
    \A e \in End : pc[e] = "parked" /\ Ready(e) =>
        pc[Peer(e)] \in {"notify", "kick"} \/ restarted

\* The ring as a queue: what is committed and not yet released.
Queue == [i \in 1..Used |-> slot[(rd + i - 1) % n]]

F == INSTANCE Fifo WITH q <- Queue, out <- out, Capacity <- n

\* The ring is a first-in first-out channel of n items: no item is lost,
\* repeated, reordered or overwritten while the consumer reads it, across
\* wrap-around and whatever the ends are doing, a fault and restart of either
\* at any point of its code included.
FifoSpec == F!Spec

\* Under fair scheduling and with no fault, a consumer asleep on data wakes up,
\* and so does a producer asleep on room, even if no timeout ever comes.
SleeperWakes ==
    \A e \in End : pc[e] = "parked" /\ Ready(e) ~> pc[e] # "parked" \/ restarted

\* Every committed item is consumed if no end faults: the consumer never sleeps
\* for ever on a ring with data in it.
DataConsumed == \A r \in 0..(Mod - 1) : wr # rd /\ rd = r ~> rd # r \/ restarted

\* The ring's counters never say more than it holds, and while nobody has faulted no end
\* sleeps on what its peer has done (v_upipe_commit, v_upipe_wait).
RingSound == TypeOK /\ NoLostKick
==============================================================================

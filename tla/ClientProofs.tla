----------------------------- MODULE ClientProofs -----------------------------
(***************************************************************************)
(* Two protocols by which a task deals with a peer it does not control.    *)
(*                                                                         *)
(* The user-space pipe, for any number of slots, any counter width that is *)
(* a multiple of it and any items: the ring never says more than it holds, *)
(* no wakeup is lost, and the ring implements the bounded channel of Fifo  *)
(* at the grain of its loads and stores, faults and restarts included.     *)
(*                                                                         *)
(* The file system worker, for any number of tasks, slots and handles, in  *)
(* a system whose waits have no timeout and whose tasks are killed neither *)
(* while they open a file nor between the answer and its collection.       *)
(***************************************************************************)
EXTENDS Upipe, VfsWorker, ListLemmas

\* An end goes on with an operation only while the check it started on still holds: its
\* peer's counter can only give it more room, or more data (v_upipe_reserve, v_upipe_peek).
GrantHolds ==
    /\ pc["prod"] \in {"use", "commit"} => Used < n
    /\ pc["cons"] \in {"use", "commit"} => wr # rd
    /\ pc["cons"] = "commit" => item = slot[rd % n]

\* An end that has not faulted keeps its flag up from before its second look at the ring
\* until after it is awake (v_upipe_wait).
FlagUp ==
    \A e \in End : pc[e] \in {"recheck", "sleep", "parked", "lower"} =>
        wait_flag[e] \/ restarted

\* The inductive invariant.
IInv == RingSound /\ GrantHolds /\ FlagUp
------------------------------------------------------------------------------
(* The ring's arithmetic *)

\* A counter wraps at a multiple of the ring's size, which is more than the ring.
LEMMA Sizes ==
    n \in Nat \ {0} /\ Mod \in Nat \ {0} /\ n < Mod
<1>1. PICK k \in 1..Mod : Mod = n * k /\ k > 1
  BY RingAssumption
<1>2. n \in Nat /\ n > 0 /\ Mod \in Nat \ {0} /\ k \in Nat \ {0}
  BY RingAssumption, <1>1
<1>3. n * k > n
  BY <1>1, <1>2
<1>4. QED
  BY <1>1, <1>2, <1>3

\* A wrap changes no slot's name.
LEMMA WrapSlot ==
    ASSUME NEW a \in Int PROVE (a % Mod) % n = a % n
<1>1. PICK k \in 1..Mod : Mod = n * k /\ k > 1
  BY RingAssumption
<1>2. n \in Nat \ {0} /\ k \in Nat \ {0}
  BY RingAssumption, <1>1
<1>3. (a % (n * k)) % n = a % n
  BY <1>2, ModOfMod, Zenon
<1>4. QED
  BY <1>1, <1>3, Zenon

\* The next value of a counter is one, and names the next slot.
LEMMA Advance ==
    ASSUME NEW x \in 0..(Mod - 1)
    PROVE  /\ (x + 1) % Mod \in 0..(Mod - 1)
           /\ (x + 1) % Mod = IF x + 1 = Mod THEN 0 ELSE x + 1
<1>1. (x + 1) % Mod = IF x + 1 = Mod THEN 0 ELSE x + 1
  BY Sizes, CounterNext
<1>2. QED
  BY Sizes, <1>1

\* How far one counter is ahead of the other.
LEMMA Distance ==
    ASSUME NEW x \in 0..(Mod - 1), NEW y \in 0..(Mod - 1)
    PROVE  /\ (x - y) % Mod = IF x >= y THEN x - y ELSE x - y + Mod
           /\ (x - y) % Mod \in 0..(Mod - 1)
           /\ (x - y) % Mod = 0 <=> x = y
<1>1. (x - y) % Mod = IF x >= y THEN x - y ELSE x - y + Mod
  BY Sizes, CounterDiff
<1>2. QED
  BY Sizes, <1>1

\* How much is in the ring, before and after a step.
LEMMA UsedIs ==
    ASSUME wr \in 0..(Mod - 1), rd \in 0..(Mod - 1)
    PROVE  /\ Used = IF wr >= rd THEN wr - rd ELSE wr - rd + Mod
           /\ Used \in 0..(Mod - 1)
           /\ Used = 0 <=> wr = rd
BY Distance, Zenon DEF Used

\* The same in the next state.
LEMMA UsedIsPrime ==
    ASSUME wr' \in 0..(Mod - 1), rd' \in 0..(Mod - 1)
    PROVE  /\ Used' = IF wr' >= rd' THEN wr' - rd' ELSE wr' - rd' + Mod
           /\ Used' \in 0..(Mod - 1)
           /\ Used' = 0 <=> wr' = rd'
BY Distance, Zenon DEF Used

\* A commit puts one more in, a release takes one out, across the wrap.
LEMMA CommitUsed ==
    ASSUME wr \in 0..(Mod - 1), rd \in 0..(Mod - 1), Used < n,
           wr' = (wr + 1) % Mod, rd' = rd
    PROVE  wr' \in 0..(Mod - 1) /\ Used' = Used + 1
<1>1. wr' \in 0..(Mod - 1) /\ wr' = IF wr + 1 = Mod THEN 0 ELSE wr + 1
  BY Advance
<1>2. QED
  BY Sizes, UsedIs, UsedIsPrime, <1>1

\* A release takes one away.
LEMMA ReleaseUsed ==
    ASSUME wr \in 0..(Mod - 1), rd \in 0..(Mod - 1), wr # rd,
           rd' = (rd + 1) % Mod, wr' = wr
    PROVE  rd' \in 0..(Mod - 1) /\ Used' = Used - 1
<1>1. rd' \in 0..(Mod - 1) /\ rd' = IF rd + 1 = Mod THEN 0 ELSE rd + 1
  BY Advance
<1>2. QED
  BY Sizes, UsedIs, UsedIsPrime, <1>1

\* The slot after the last one used, and each one used: the producer's slot is none of
\* those the consumer has still to read.
LEMMA SlotFree ==
    ASSUME wr \in 0..(Mod - 1), rd \in 0..(Mod - 1), Used < n
    PROVE  /\ wr % n = (rd + Used) % n
           /\ \A i \in 1..Used : (rd + i - 1) % n # wr % n
<1>1. Used \in 0..(Mod - 1) /\ Used = IF wr >= rd THEN wr - rd ELSE wr - rd + Mod
  BY UsedIs
<1>2. wr % n = (rd + Used) % n
  <2>1. CASE wr >= rd
    BY <1>1, <2>1
  <2>2. CASE wr < rd
    <3>1. rd + Used = wr + Mod
      BY Sizes, <1>1, <2>2
    <3>2. (wr + Mod * 1) % Mod = wr % Mod
      BY Sizes, ModShift, wr \in Int, 1 \in Int, Zenon
    <3>3. wr + Mod * 1 \in Int /\ wr \in Int /\ rd + Used = wr + Mod * 1
      BY Sizes, <3>1
    <3>4. ((wr + Mod * 1) % Mod) % n = (wr + Mod * 1) % n /\ (wr % Mod) % n = wr % n
      BY <3>3, WrapSlot
    <3>5. QED
      BY <3>2, <3>3, <3>4, Zenon
  <2>3. QED
    BY <2>1, <2>2
<1>3. ASSUME NEW i \in 1..Used
      PROVE  (rd + i - 1) % n # wr % n
  <2>1. Used - i + 1 \in 1..(n - 1) /\ rd + i - 1 \in Int
    BY Sizes, <1>1
  <2>2. (rd + i - 1 + (Used - i + 1)) % n # (rd + i - 1) % n
    BY Sizes, <2>1, ModApart
  <2>3. rd + i - 1 + (Used - i + 1) = rd + Used
    BY <1>1
  <2>4. QED
    BY <1>2, <2>2, <2>3
<1>4. QED
  BY <1>2, <1>3

\* A slot number is one of the ring's.
LEMMA SlotIs ==
    ASSUME NEW a \in Int PROVE a % n \in 0..(n - 1)
BY Sizes
------------------------------------------------------------------------------
(* The steps *)

USE DEF End, Peer, ringVars, vars

\* An empty ring with both ends about to try.
LEMMA InitSafe == Init => IInv
<1> SUFFICES ASSUME Init PROVE IInv
  OBVIOUS
<1>1. (CHOOSE i \in Item : TRUE) \in Item
  BY RingAssumption
<1>2. wr \in 0..(Mod - 1) /\ rd \in 0..(Mod - 1) /\ wr = rd /\ 0 \in 0..(n - 1)
  BY Sizes DEF Init
<1>3. Used <= n
  BY <1>2, UsedIs, Sizes
<1>4. slot \in [0..(n - 1) -> Item] /\ item \in Item
  BY <1>1, <1>2 DEF Init
<1>5. wait_flag \in [End -> BOOLEAN]
  BY DEF Init
<1>6. token \in [End -> 0..1]
  BY DEF Init
<1>7. restarted \in BOOLEAN
  BY DEF Init
<1>8. pc \in [End -> {"try", "use", "commit", "notify", "kick", "raise",
                       "recheck", "sleep", "parked", "lower"}]
  BY DEF Init
<1>9. TypeOK
  BY <1>2, <1>3, <1>4, <1>5, <1>6, <1>7, <1>8 DEF TypeOK
<1>10. NoLostKick /\ GrantHolds /\ FlagUp
  BY DEF Init, NoLostKick, GrantHolds, FlagUp
<1>11. QED
  BY <1>9, <1>10 DEF IInv, RingSound

\* A step that leaves the ring alone leaves it as ready for either end as it was.
LEMMA RingKept ==
    ASSUME UNCHANGED ringVars
    PROVE  Used' = Used /\ \A e \in End : Ready(e)' = Ready(e)
BY DEF Used, Ready

\* An end that goes on has found the ring ready (v_upipe_reserve, v_upipe_peek).
LEMMA TrySafe ==
    ASSUME IInv, NEW e \in End, Try(e) PROVE IInv'
<1> USE DEF IInv, RingSound, Try, Goto
<1>1. UNCHANGED ringVars
  OBVIOUS
<1>2. TypeOK'
  BY <1>1, RingKept DEF TypeOK
<1>3. NoLostKick'
  <2> SUFFICES ASSUME NEW f \in End, pc'[f] = "parked", Ready(f)'
               PROVE  pc'[Peer(f)] \in {"notify", "kick"} \/ restarted'
    BY DEF NoLostKick
  <2>1. Ready(f)
    BY <1>1 DEF Ready, Used
  <2>2. QED
    BY <2>1 DEF TypeOK, NoLostKick
<1>4. GrantHolds'
  BY <1>1, RingKept DEF TypeOK, GrantHolds, Ready
<1>5. FlagUp'
  BY DEF TypeOK, FlagUp
<1>6. QED
  BY <1>2, <1>3, <1>4, <1>5

\* A peer whose flag is up is on its way to be kicked; one asleep has its flag up.
LEMMA NotifySafe ==
    ASSUME IInv, NEW e \in End, Notify(e) PROVE IInv'
<1> USE DEF IInv, RingSound, Notify, Goto
<1>1. UNCHANGED ringVars
  OBVIOUS
<1>2. TypeOK'
  BY <1>1, RingKept DEF TypeOK
<1>3. NoLostKick'
  <2> SUFFICES ASSUME NEW f \in End, pc'[f] = "parked", Ready(f)'
               PROVE  pc'[Peer(f)] \in {"notify", "kick"} \/ restarted'
    BY DEF NoLostKick
  <2>1. Ready(f)
    BY <1>1 DEF Ready, Used
  <2>2. QED
    BY <2>1 DEF TypeOK, NoLostKick, FlagUp
<1>4. GrantHolds'
  BY <1>1, RingKept DEF TypeOK, GrantHolds
<1>5. FlagUp'
  BY DEF TypeOK, FlagUp
<1>6. QED
  BY <1>2, <1>3, <1>4, <1>5

\* The kick wakes whoever sleeps (v_upipe_kick).
LEMMA KickSafe ==
    ASSUME IInv, NEW e \in End, v_upipe_kick(e) PROVE IInv'
<1> USE DEF IInv, RingSound, v_upipe_kick, Goto
<1>1. UNCHANGED ringVars
  OBVIOUS
<1>2. TypeOK'
  BY <1>1, RingKept DEF TypeOK
<1>3. NoLostKick'
  <2> SUFFICES ASSUME NEW f \in End, pc'[f] = "parked", Ready(f)'
               PROVE  pc'[Peer(f)] \in {"notify", "kick"} \/ restarted'
    BY DEF NoLostKick
  <2>1. Ready(f)
    BY <1>1 DEF Ready, Used
  <2>2. QED
    BY <2>1 DEF TypeOK, NoLostKick
<1>4. GrantHolds'
  BY <1>1, RingKept DEF TypeOK, GrantHolds
<1>5. FlagUp'
  BY DEF TypeOK, FlagUp
<1>6. QED
  BY <1>2, <1>3, <1>4, <1>5

\* The flag goes up before the second look (v_upipe_wait).
LEMMA WaitSafe ==
    ASSUME IInv, NEW e \in End, v_upipe_wait(e) PROVE IInv'
<1> USE DEF IInv, RingSound, v_upipe_wait, Goto
<1>1. UNCHANGED ringVars
  OBVIOUS
<1>2. TypeOK'
  BY <1>1, RingKept DEF TypeOK
<1>3. NoLostKick'
  <2> SUFFICES ASSUME NEW f \in End, pc'[f] = "parked", Ready(f)'
               PROVE  pc'[Peer(f)] \in {"notify", "kick"} \/ restarted'
    BY DEF NoLostKick
  <2>1. Ready(f)
    BY <1>1 DEF Ready, Used
  <2>2. QED
    BY <2>1 DEF TypeOK, NoLostKick
<1>4. GrantHolds'
  BY <1>1, RingKept DEF TypeOK, GrantHolds
<1>5. FlagUp'
  BY DEF TypeOK, FlagUp
<1>6. QED
  BY <1>2, <1>3, <1>4, <1>5

\* The second look (v_upipe_wait).
LEMMA RecheckSafe ==
    ASSUME IInv, NEW e \in End, Recheck(e) PROVE IInv'
<1> USE DEF IInv, RingSound, Recheck, Goto
<1>1. UNCHANGED ringVars
  OBVIOUS
<1>2. TypeOK'
  BY <1>1, RingKept DEF TypeOK
<1>3. NoLostKick'
  <2> SUFFICES ASSUME NEW f \in End, pc'[f] = "parked", Ready(f)'
               PROVE  pc'[Peer(f)] \in {"notify", "kick"} \/ restarted'
    BY DEF NoLostKick
  <2>1. Ready(f)
    BY <1>1 DEF Ready, Used
  <2>2. QED
    BY <2>1 DEF TypeOK, NoLostKick
<1>4. GrantHolds'
  BY <1>1, RingKept DEF TypeOK, GrantHolds
<1>5. FlagUp'
  BY DEF TypeOK, FlagUp
<1>6. QED
  BY <1>2, <1>3, <1>4, <1>5

\* Only an end whose ring is not ready goes to sleep (v_upipe_sleep).
LEMMA SleepSafe ==
    ASSUME IInv, NEW e \in End, v_upipe_sleep(e) PROVE IInv'
<1> USE DEF IInv, RingSound, v_upipe_sleep, Goto
<1>1. UNCHANGED ringVars
  OBVIOUS
<1>2. TypeOK'
  BY <1>1, RingKept DEF TypeOK
<1>3. NoLostKick'
  <2> SUFFICES ASSUME NEW f \in End, pc'[f] = "parked", Ready(f)'
               PROVE  pc'[Peer(f)] \in {"notify", "kick"} \/ restarted'
    BY DEF NoLostKick
  <2>1. Ready(f)
    BY <1>1 DEF Ready, Used
  <2>2. QED
    BY <2>1 DEF TypeOK, NoLostKick
<1>4. GrantHolds'
  BY <1>1, RingKept DEF TypeOK, GrantHolds
<1>5. FlagUp'
  BY DEF TypeOK, FlagUp
<1>6. QED
  BY <1>2, <1>3, <1>4, <1>5

\* An end the tick ejects is awake.
LEMMA TimeoutSafe ==
    ASSUME IInv, NEW e \in End, Timeout(e) PROVE IInv'
<1> USE DEF IInv, RingSound, Timeout, Goto
<1>1. UNCHANGED ringVars
  OBVIOUS
<1>2. TypeOK'
  BY <1>1, RingKept DEF TypeOK
<1>3. NoLostKick'
  <2> SUFFICES ASSUME NEW f \in End, pc'[f] = "parked", Ready(f)'
               PROVE  pc'[Peer(f)] \in {"notify", "kick"} \/ restarted'
    BY DEF NoLostKick
  <2>1. Ready(f)
    BY <1>1 DEF Ready, Used
  <2>2. QED
    BY <2>1 DEF TypeOK, NoLostKick
<1>4. GrantHolds'
  BY <1>1, RingKept DEF TypeOK, GrantHolds
<1>5. FlagUp'
  BY DEF TypeOK, FlagUp
<1>6. QED
  BY <1>2, <1>3, <1>4, <1>5

\* The flag comes down when its end is awake.
LEMMA LowerSafe ==
    ASSUME IInv, NEW e \in End, Lower(e) PROVE IInv'
<1> USE DEF IInv, RingSound, Lower, Goto
<1>1. UNCHANGED ringVars
  OBVIOUS
<1>2. TypeOK'
  BY <1>1, RingKept DEF TypeOK
<1>3. NoLostKick'
  <2> SUFFICES ASSUME NEW f \in End, pc'[f] = "parked", Ready(f)'
               PROVE  pc'[Peer(f)] \in {"notify", "kick"} \/ restarted'
    BY DEF NoLostKick
  <2>1. Ready(f)
    BY <1>1 DEF Ready, Used
  <2>2. QED
    BY <2>1 DEF TypeOK, NoLostKick
<1>4. GrantHolds'
  BY <1>1, RingKept DEF TypeOK, GrantHolds
<1>5. FlagUp'
  BY DEF TypeOK, FlagUp
<1>6. QED
  BY <1>2, <1>3, <1>4, <1>5

\* A faulted end starts over; the promises to a sleeper are off (task_fault_restart).
LEMMA RestartSafe ==
    ASSUME IInv, NEW e \in End, Restart(e) PROVE IInv'
<1> USE DEF IInv, RingSound, Restart, Goto
<1>1. UNCHANGED ringVars
  OBVIOUS
<1>2. TypeOK'
  BY <1>1, RingKept DEF TypeOK
<1>3. NoLostKick'
  <2> SUFFICES ASSUME NEW f \in End, pc'[f] = "parked", Ready(f)'
               PROVE  pc'[Peer(f)] \in {"notify", "kick"} \/ restarted'
    BY DEF NoLostKick
  <2>1. Ready(f)
    BY <1>1 DEF Ready, Used
  <2>2. QED
    BY <2>1 DEF TypeOK, NoLostKick
<1>4. GrantHolds'
  BY <1>1, RingKept DEF TypeOK, GrantHolds
<1>5. FlagUp'
  BY DEF TypeOK, FlagUp
<1>6. QED
  BY <1>2, <1>3, <1>4, <1>5

\* The producer fills a slot the consumer has not to read (v_upipe_slot).
LEMMA FillSafe ==
    ASSUME IInv, NEW v \in Item, Fill(v) PROVE IInv'
<1> USE DEF IInv, RingSound, Fill, Goto
<1>1. wr \in 0..(Mod - 1) /\ rd \in 0..(Mod - 1) /\ Used < n
  BY DEF TypeOK, GrantHolds
<1>2. wr % n \in 0..(n - 1) /\ rd % n \in 0..(n - 1)
  BY <1>1, SlotIs
<1>3. slot' \in [0..(n - 1) -> Item]
  BY <1>2 DEF TypeOK
<1>4. Used' = Used /\ \A e \in End : Ready(e)' <=> Ready(e)
  BY DEF Used, Ready
<1>5. TypeOK'
  BY <1>3, <1>4 DEF TypeOK
<1>6. NoLostKick'
  BY <1>4 DEF TypeOK, NoLostKick
<1>7. GrantHolds'
  <2>1. wr # rd => rd % n # wr % n
    <3>1. wr # rd => 1 \in 1..Used
      BY <1>1, UsedIs
    <3>2. rd + 1 - 1 = rd
      BY <1>1
    <3>3. QED
      BY <1>1, <3>1, <3>2, SlotFree
  <2>2. wr # rd => slot'[rd % n] = slot[rd % n]
    BY <1>2, <2>1 DEF TypeOK
  <2>3. QED
    BY <1>1, <1>4, <2>2 DEF TypeOK, GrantHolds
<1>8. FlagUp'
  BY DEF TypeOK, FlagUp
<1>9. QED
  BY <1>5, <1>6, <1>7, <1>8

\* The consumer reads a slot that is committed.
LEMMA ReadSafe ==
    ASSUME IInv, Read PROVE IInv'
<1> USE DEF IInv, RingSound, Read, Goto
<1>1. rd % n \in 0..(n - 1)
  BY SlotIs DEF TypeOK
<1>2. Used' = Used /\ \A e \in End : Ready(e)' <=> Ready(e)
  BY DEF Used, Ready
<1>3. TypeOK'
  BY <1>1, <1>2 DEF TypeOK
<1>4. NoLostKick'
  BY <1>2 DEF TypeOK, NoLostKick
<1>5. GrantHolds'
  BY <1>2 DEF TypeOK, GrantHolds
<1>6. FlagUp'
  BY DEF TypeOK, FlagUp
<1>7. QED
  BY <1>3, <1>4, <1>5, <1>6

\* A commit makes the ring ready for nobody but the consumer, whom the producer is now
\* on its way to look at; and it leaves the consumer what it was reading.
LEMMA CommitSafe ==
    ASSUME IInv, v_upipe_commit PROVE IInv'
<1> USE DEF IInv, RingSound, v_upipe_commit, Goto
<1>1. wr \in 0..(Mod - 1) /\ rd \in 0..(Mod - 1) /\ Used < n
  BY DEF TypeOK, GrantHolds
<1>2. wr' \in 0..(Mod - 1) /\ Used' = Used + 1
  BY <1>1, CommitUsed
<1>3. Used \in 0..(Mod - 1) /\ Used' <= n /\ wr' # rd'
  BY <1>1, <1>2, UsedIs, UsedIsPrime, Sizes
<1>4. TypeOK'
  BY <1>2, <1>3 DEF TypeOK
<1>5. NoLostKick'
  <2>1. Ready("prod")' => Ready("prod")
    BY <1>2, <1>3, Sizes DEF Ready
  <2>2. QED
    BY <2>1 DEF TypeOK, NoLostKick
<1>6. GrantHolds'
  BY <1>3 DEF TypeOK, GrantHolds
<1>7. FlagUp'
  BY DEF TypeOK, FlagUp
<1>8. QED
  BY <1>4, <1>5, <1>6, <1>7

\* A release, the other way round.
LEMMA ReleaseSafe ==
    ASSUME IInv, v_upipe_release PROVE IInv'
<1> USE DEF IInv, RingSound, v_upipe_release, Goto
<1>1. wr \in 0..(Mod - 1) /\ rd \in 0..(Mod - 1) /\ wr # rd /\ Used <= n
  BY DEF TypeOK, GrantHolds
<1>2. rd' \in 0..(Mod - 1) /\ Used' = Used - 1
  BY <1>1, ReleaseUsed
<1>3. Used \in 1..(Mod - 1) /\ Used' < n
  BY <1>1, <1>2, UsedIs, Sizes
<1>4. TypeOK'
  BY <1>2, <1>3, Sizes DEF TypeOK
<1>5. NoLostKick'
  <2>1. Ready("cons")' => Ready("cons")
    BY <1>1 DEF Ready
  <2>2. QED
    BY <2>1 DEF TypeOK, NoLostKick
<1>6. GrantHolds'
  BY <1>3 DEF TypeOK, GrantHolds
<1>7. FlagUp'
  BY DEF TypeOK, FlagUp
<1>8. QED
  BY <1>4, <1>5, <1>6, <1>7

\* Every step keeps the invariant.
LEMMA StepSafe == IInv /\ [Next]_vars => IInv'
<1> SUFFICES ASSUME IInv, [Next]_vars PROVE IInv'
  OBVIOUS
<1>1. ASSUME NEW e \in End, Step(e) PROVE IInv'
  BY <1>1, NotifySafe, KickSafe, WaitSafe, RecheckSafe, SleepSafe, LowerSafe DEF Step
<1>2. ASSUME NEW e \in End, Try(e) \/ Timeout(e) \/ Restart(e) PROVE IInv'
  BY <1>2, TrySafe, TimeoutSafe, RestartSafe
<1>3. CASE (\E v \in Item : Fill(v)) \/ Read \/ v_upipe_commit \/ v_upipe_release
  BY <1>3, FillSafe, ReadSafe, CommitSafe, ReleaseSafe
<1>4. CASE UNCHANGED vars
  BY <1>4 DEF IInv, RingSound, TypeOK, NoLostKick, GrantHolds, FlagUp, Ready, Used
<1>5. QED
  BY <1>1, <1>2, <1>3, <1>4 DEF Next

\* The ring never says more than it holds, and no end that has not faulted sleeps on what
\* its peer has done, for any ring: v_upipe_commit, v_upipe_release and v_upipe_wait as
\* they interleave.
THEOREM RingSafe == Spec => []RingSound
<1>1. IInv => RingSound
  BY DEF IInv
<1>2. QED
  BY InitSafe, StepSafe, <1>1, PTL DEF Spec
------------------------------------------------------------------------------
(* The ring implements the channel *)

\* What the channel holds, before and after a step.
LEMMA QueueIs ==
    ASSUME TypeOK
    PROVE  /\ Queue \in Seq(Item) /\ Len(Queue) = Used /\ Used \in Nat
           /\ \A i \in 1..Used : Queue[i] = slot[(rd + i - 1) % n]
<1>1. Used \in Nat /\ rd \in Nat /\ slot \in [0..(n - 1) -> Item]
  BY UsedIs DEF TypeOK
<1>2. \A i \in 1..Used : (rd + i - 1) % n \in 0..(n - 1)
  <2>1. \A i \in 1..Used : rd + i - 1 \in Int
    BY <1>1
  <2>2. QED
    BY <2>1, SlotIs, Zenon
<1>3. /\ Queue \in [1..Used -> Item]
      /\ \A i \in 1..Used : Queue[i] = slot[(rd + i - 1) % n]
  BY <1>1, <1>2 DEF Queue
<1>4. QED
  BY <1>1, <1>3, FcnIsSeq

\* The same in the next state.
LEMMA QueueIsPrime ==
    ASSUME TypeOK'
    PROVE  /\ Queue' \in Seq(Item) /\ Len(Queue') = Used' /\ Used' \in Nat
           /\ \A i \in 1..Used' : Queue'[i] = slot'[(rd' + i - 1) % n]
<1>1. Used' \in Nat /\ rd' \in Nat /\ slot' \in [0..(n - 1) -> Item]
  BY UsedIsPrime DEF TypeOK
<1>2. \A i \in 1..Used' : (rd' + i - 1) % n \in 0..(n - 1)
  <2>1. \A i \in 1..Used' : rd' + i - 1 \in Int
    BY <1>1
  <2>2. QED
    BY <2>1, SlotIs, Zenon
<1>3. /\ Queue' \in [1..Used' -> Item]
      /\ \A i \in 1..Used' : Queue'[i] = slot'[(rd' + i - 1) % n]
  BY <1>1, <1>2 DEF Queue
<1>4. QED
  BY <1>1, <1>3, FcnIsSeq

\* A new ring is an empty channel.
LEMMA InitRefines == Init => F!Init
<1> SUFFICES ASSUME Init PROVE F!Init
  OBVIOUS
<1>1. TypeOK
  BY InitSafe DEF IInv, RingSound
<1>2. Used = 0
  BY <1>1, UsedIs DEF TypeOK, Init
<1>3. Queue = <<>>
  BY <1>1, <1>2, QueueIs, EmptySeq
<1>4. QED
  BY <1>3 DEF Init, F!Init

\* Filling a slot puts nothing into the channel: the slot is outside it.
LEMMA FillRefines ==
    ASSUME IInv, NEW v \in Item, Fill(v)
    PROVE  UNCHANGED <<Queue, out>>
<1>1. TypeOK /\ TypeOK' /\ Used < n /\ Used' = Used /\ rd' = rd /\ out' = out
  BY FillSafe DEF IInv, RingSound, GrantHolds, Fill, Used
<1>2. \A i \in 1..Used : slot'[(rd + i - 1) % n] = slot[(rd + i - 1) % n]
  <2>1. ASSUME NEW i \in 1..Used
        PROVE  (rd + i - 1) % n \in 0..(n - 1) /\ (rd + i - 1) % n # wr % n
    BY <1>1, SlotFree, SlotIs DEF TypeOK
  <2>2. QED
    BY <2>1 DEF Fill, TypeOK
<1>3. \A i \in 1..Used : Queue'[i] = Queue[i]
  BY <1>1, <1>2, QueueIs, QueueIsPrime
<1>4. Queue' = Queue
  BY <1>1, <1>3, QueueIs, QueueIsPrime, SeqEqual
<1>5. QED
  BY <1>1, <1>4

\* A commit puts the slot at the channel's end.
LEMMA CommitRefines ==
    ASSUME IInv, v_upipe_commit
    PROVE  F!Put
<1>1. TypeOK /\ TypeOK' /\ Used < n /\ rd' = rd /\ slot' = slot /\ out' = out
  BY CommitSafe DEF IInv, RingSound, GrantHolds, v_upipe_commit
<1>2. Used' = Used + 1
  BY <1>1, CommitUsed DEF TypeOK, v_upipe_commit
<1>3. Len(Queue') > Len(Queue) /\ Len(Queue') <= n
  BY <1>1, <1>2, QueueIs, QueueIsPrime, Sizes
<1>4. \A i \in DOMAIN Queue' : Queue'[i] \in Item
  BY <1>1, QueueIsPrime, ElementOfSeq, LenProperties
<1>5. \A i \in 1..Len(Queue) : Queue'[i] = Queue[i]
  BY <1>1, <1>2, QueueIs, QueueIsPrime
<1>6. SubSeq(Queue', 1, Len(Queue)) = Queue
  <2> DEFINE p == SubSeq(Queue', 1, Len(Queue))
  <2>1. \A i \in 1..Len(Queue) : Queue'[i] \in Item
    BY <1>5, <1>1, QueueIs
  <2>2. /\ p \in Seq(Item) /\ Len(p) = Len(Queue)
        /\ \A i \in 1..Len(Queue) : p[i] = Queue'[i]
    BY <2>1, <1>1, QueueIs, SubSeqProperties
  <2>3. QED
    BY <1>1, <1>5, <2>2, QueueIs, SeqEqual
<1>7. QED
  BY <1>1, <1>3, <1>4, <1>6 DEF F!Put

\* A release gets the channel's first item, the one the consumer has read.
LEMMA ReleaseRefines ==
    ASSUME IInv, v_upipe_release
    PROVE  F!Get
<1>1. /\ TypeOK /\ TypeOK' /\ wr # rd /\ item = slot[rd % n]
      /\ rd' = (rd + 1) % Mod /\ slot' = slot /\ out' = <<item>> /\ wr' = wr
  BY ReleaseSafe DEF IInv, RingSound, GrantHolds, v_upipe_release
<1>2. Used' = Used - 1 /\ Used \in Nat \ {0} /\ rd \in Int
  BY <1>1, ReleaseUsed, UsedIs DEF TypeOK
<1>3. Queue[1] = item
  <2>1. rd + 1 - 1 = rd /\ 1 \in 1..Used
    BY <1>2
  <2>2. QED
    BY <1>1, <2>1, QueueIs
<1>4. \A i \in 1..Used' : Queue'[i] = Queue[i + 1]
  <2> SUFFICES ASSUME NEW i \in 1..Used' PROVE Queue'[i] = Queue[i + 1]
    OBVIOUS
  <2>1. Queue'[i] = slot[(rd' + i - 1) % n]
    BY <1>1, QueueIsPrime
  <2>2. i + 1 \in 1..Used /\ Queue[i + 1] = slot[(rd + (i + 1) - 1) % n]
    BY <1>1, <1>2, QueueIs
  <2>3. (rd' + i - 1) % n = (rd + (i + 1) - 1) % n
    <3>1. rd' = IF rd + 1 = Mod THEN 0 ELSE rd + 1
      BY <1>1, Advance DEF TypeOK
    <3>2. CASE rd + 1 # Mod
      BY <1>2, <3>1, <3>2
    <3>3. CASE rd + 1 = Mod
      <4>1. i - 1 \in Int /\ rd' + i - 1 = i - 1 /\ rd + (i + 1) - 1 = i - 1 + Mod * 1
        BY <1>2, <3>1, <3>3, Sizes
      <4>2. (i - 1 + Mod * 1) % Mod = (i - 1) % Mod
        BY <4>1, Sizes, ModShift, 1 \in Int, Zenon
      <4>3. i - 1 + Mod * 1 \in Int
        BY <4>1, Sizes
      <4>4. /\ ((i - 1 + Mod * 1) % Mod) % n = (i - 1 + Mod * 1) % n
            /\ ((i - 1) % Mod) % n = (i - 1) % n
        BY <4>1, <4>3, WrapSlot
      <4>5. QED
        BY <4>1, <4>2, <4>4, Zenon
    <3>4. QED
      BY <3>2, <3>3
  <2>4. QED
    BY <2>1, <2>2, <2>3
<1>5. 1 \in 1..Len(Queue) /\ Len(Queue) = Used /\ Len(Queue') = Used - 1
  BY <1>1, <1>2, QueueIs, QueueIsPrime
<1>6. <<item>> = SubSeq(Queue, 1, 1)
  <2>1. Queue[1] \in Item /\ 1 \in Int
    BY <1>1, <1>5, QueueIs
  <2>2. /\ SubSeq(Queue, 1, 1) \in Seq(Item) /\ Len(SubSeq(Queue, 1, 1)) = 1
        /\ SubSeq(Queue, 1, 1)[1] = Queue[1]
    BY <2>1, SubSeqProperties
  <2>3. <<item>> \in Seq(Item) /\ Len(<<item>>) = 1 /\ <<item>>[1] = item
    BY <1>3, <2>1
  <2>4. QED
    BY <1>3, <2>2, <2>3, SeqEqual
<1>7. Queue' = SubSeq(Queue, 1 + 1, Len(Queue))
  <2> DEFINE r == SubSeq(Queue, 2, Len(Queue))
  <2>1. \A i \in 2..Len(Queue) : Queue[i] \in Item
    BY <1>1, <1>5, QueueIs
  <2>2. /\ r \in Seq(Item) /\ Len(r) = Used - 1
        /\ \A i \in 1..(Used - 1) : r[i] = Queue[i + 1]
    BY <1>2, <1>5, <2>1, SubSeqProperties
  <2>3. QED
    BY <1>1, <1>2, <1>4, <1>5, <2>2, QueueIsPrime, SeqEqual
<1>8. QED
  BY <1>1, <1>5, <1>6, <1>7 DEF F!Get

\* Every other step leaves the channel alone.
LEMMA StepRefines == IInv /\ [Next]_vars => [F!Put \/ F!Get]_(F!vars)
<1> SUFFICES ASSUME IInv, [Next]_vars
             PROVE  F!Put \/ F!Get \/ UNCHANGED <<Queue, out>>
  BY DEF F!vars
<1>1. CASE UNCHANGED <<wr, rd, slot, out>>
  BY <1>1 DEF Queue, Used
<1>2. ASSUME NEW e \in End, Try(e) \/ Step(e) \/ Timeout(e) \/ Restart(e)
      PROVE  UNCHANGED <<wr, rd, slot, out>>
  BY <1>2 DEF Step, Try, Notify, v_upipe_kick, v_upipe_wait, Recheck, v_upipe_sleep, Lower,
              Timeout, Restart
<1>3. CASE UNCHANGED vars \/ Read
  BY <1>1, <1>3 DEF Read
<1>4. QED
  BY <1>1, <1>2, <1>3, FillRefines, CommitRefines, ReleaseRefines DEF Next

\* v_upipe is a first-in first-out channel of n items whatever the size of the ring: the
\* stores into the slots and the moves of the counters, each a step of its own, the wraps
\* and the restarts of faulted ends are the channel's puts, gets or nothing.
THEOREM RingIsFifo == Spec => FifoSpec
<1>1. Spec => []IInv
  BY InitSafe, StepSafe, PTL DEF Spec
<1>2. QED
  BY <1>1, InitRefines, StepRefines, PTL DEF Spec, FifoSpec, F!Spec
------------------------------------------------------------------------------
(* First, and the place of an element in the order *)

\* The smallest of a set of positions.
LEMMA Least ==
    ASSUME NEW top \in Nat, NEW S \in SUBSET (1..top), S # {}
    PROVE  First(S) \in S /\ \A r \in S : First(S) <= r
<1> DEFINE P == {k \in 1..top : \A j \in 1..k : j \notin S}
           c == Cardinality(P)
<1>1. c \in 0..top /\ P = 1..c
  <2>1. P \in SUBSET (1..top)
    OBVIOUS
  <2>2. \A i \in P : \A k \in 1..i : k \in P
    OBVIOUS
  <2> HIDE DEF P
  <2>3. QED
    BY <2>1, <2>2, PrefixSet
<1> HIDE DEF c
<1>2. c + 1 \in 1..top
  <2>1. PICK x \in S : TRUE
    OBVIOUS
  <2>2. x \in 1..top /\ x \notin P
    OBVIOUS
  <2>3. QED
    BY <1>1, <2>2
<1>3. \A j \in 1..c : j \notin S
  BY <1>1
<1>4. c + 1 \in S
  <2>1. c + 1 \notin P
    <3>1. c + 1 \notin 1..c
      BY <1>1
    <3>2. QED
      BY <1>1, <3>1
  <2>2. PICK j \in 1..(c + 1) : j \in S
    BY <1>2, <2>1
  <2>3. j = c + 1
    BY <1>1, <1>3, <2>2
  <2>4. QED
    BY <2>2, <2>3
<1>5. \A r \in S : c + 1 <= r
  BY <1>1, <1>3
<1>6. QED
  BY <1>4, <1>5 DEF First

\* A set of positions is finite.
LEMMA FinitePart ==
    ASSUME NEW top \in Nat, NEW S \in SUBSET (1..top)
    PROVE  IsFiniteSet(S) /\ Cardinality(S) \in 0..top
<1>1. IsFiniteSet(1..top) /\ Cardinality(1..top) = top
  BY FS_Interval
<1>2. IsFiniteSet(S) /\ Cardinality(S) <= top
  BY <1>1, FS_Subset
<1>3. Cardinality(S) \in Nat
  BY <1>2, FS_CardinalityType
<1>4. QED
  BY <1>2, <1>3

\* Two members of a set have different places, below its cardinality.
LEMMA PlaceApart ==
    ASSUME NEW top \in Nat, NEW S \in SUBSET (1..top)
    PROVE  /\ \A x \in S : Place(S, x) \in 0..(Cardinality(S) - 1)
           /\ \A x, y \in S : Place(S, x) = Place(S, y) => x = y
<1>1. IsFiniteSet(S) /\ Cardinality(S) \in Nat
  BY FinitePart
<1> DEFINE B(x) == {y \in S : y < x}
<1>2. \A x : IsFiniteSet(B(x)) /\ Cardinality(B(x)) \in Nat
  BY <1>1, FS_Subset, FS_CardinalityType
<1>3. \A x \in S : Cardinality(B(x)) < Cardinality(S)
  <2> SUFFICES ASSUME NEW x \in S PROVE Cardinality(B(x)) < Cardinality(S)
    OBVIOUS
  <2>1. B(x) \in SUBSET S /\ B(x) # S
    OBVIOUS
  <2> HIDE DEF B
  <2>2. QED
    BY <1>1, <1>2, <2>1, FS_Subset
<1>4. ASSUME NEW x \in S, NEW y \in S, x < y PROVE Cardinality(B(x)) < Cardinality(B(y))
  <2>1. B(x) \in SUBSET B(y)
    <3> SUFFICES ASSUME NEW z \in S, z < x PROVE z < y
      OBVIOUS
    <3>1. x \in Int /\ y \in Int /\ z \in Int
      OBVIOUS
    <3>2. QED
      BY <1>4, <3>1
  <2>2. x \in B(y) /\ x \notin B(x)
    BY <1>4
  <2>3. B(x) # B(y)
    BY <2>2
  <2> HIDE DEF B
  <2>4. QED
    BY <1>2, <2>1, <2>3, FS_Subset
<1>5. \A x, y \in S : Cardinality(B(x)) = Cardinality(B(y)) => x = y
  <2> SUFFICES ASSUME NEW x \in S, NEW y \in S, x # y
               PROVE  Cardinality(B(x)) # Cardinality(B(y))
    OBVIOUS
  <2>1. x < y \/ y < x
    OBVIOUS
  <2> HIDE DEF B
  <2>2. QED
    BY <1>2, <1>4, <2>1
<1>6. QED
  BY <1>1, <1>2, <1>3, <1>5 DEF Place

\* A set of positions that is no larger than another has its places among the other's.
LEMMA PlaceTaken ==
    ASSUME NEW top \in Nat, NEW S \in SUBSET (1..top), NEW m \in Nat, NEW T \in SUBSET (1..m),
           Cardinality(S) <= Cardinality(T), NEW x \in S
    PROVE  \E y \in T : Place(S, x) = Place(T, y)
<1> DEFINE c == Cardinality(T)
           f == [y \in T |-> Place(T, y)]
<1>0. Cardinality(S) \in 0..top /\ IsFiniteSet(T) /\ Cardinality(T) \in 0..m
  BY FinitePart
<1>1. IsFiniteSet(T) /\ c \in Nat
  BY <1>0
<1>2. \A y \in T : Place(T, y) \in 0..(c - 1)
  BY PlaceApart
<1>3. \A y, z \in T : Place(T, y) = Place(T, z) => y = z
  BY PlaceApart
<1> HIDE DEF c
<1>4. f \in Injection(T, 0..(c - 1))
  BY <1>2, <1>3 DEF Injection, IsInjective
<1>5. IsFiniteSet(0..(c - 1)) /\ Cardinality(0..(c - 1)) = c
  BY <1>1, FS_Interval
<1>6. f \in Surjection(T, 0..(c - 1))
  BY <1>4, <1>5, FS_Injection DEF c
<1>7. Place(S, x) \in 0..(c - 1)
  <2>1. Cardinality(S) \in Nat /\ Cardinality(S) <= c
    BY <1>0 DEF c
  <2>2. Place(S, x) \in 0..(Cardinality(S) - 1)
    BY PlaceApart
  <2>3. QED
    BY <1>1, <2>1, <2>2
<1>8. QED
  BY <1>6, <1>7 DEF Surjection
------------------------------------------------------------------------------
(* The invariant *)

Calls == (User \X {0, 1}) \cup {NoCall}
Results == [val : File \cup {-1, 0}, by : Calls]
Request ==
    [used : BOOLEAN, queued : BOOLEAN, op : Op, fd : File \cup {0}, owner : User \cup {NULL},
     result : Results, out_len : {0, 1}, done : {0, 1}, call : Calls]
Hands ==
    [at : {"take", "pick", "exec", "lock", "fs", "post", "give"}, slot : Slot \cup {0},
     call : Calls, op : Op, fd : File \cup {0}, res : File \cup {-1, 0}, out : {0, 1}]
Asker ==
    [at : {"ready", "wait", "finish", "dead"}, slot : Slot \cup {0}, n : {0, 1},
     answer : {"none", "mine", "unanswered", "other"}]

\* The types of what the worker and its clients share.
VType ==
    /\ req \in [Slot -> Request]
    /\ handle \in [File -> [used : BOOLEAN, owner : User \cup {NULL}]]
    /\ work_sem \in 0..Cardinality(Slot) /\ worker \in Hands /\ user \in [User -> Asker]

\* A result was posted in slot s and not collected.
Answered(s) == req[s].result # NoResult

\* A task between submit and finish has its slot, with its request and only its result.
UserOk(t) ==
    LET s == user[t].slot IN
    /\ user[t].at \in {"ready", "dead"} <=> s = 0
    /\ user[t].at \in {"wait", "finish"} =>
         /\ req[s].used /\ req[s].owner = t /\ req[s].call = <<t, user[t].n>>
         /\ Answered(s) => req[s].result.by = <<t, user[t].n>>
    /\ user[t].at = "finish" => Answered(s) /\ req[s].done = 0 /\ ~InHand(s)
    /\ user[t].answer \in {"none", "mine"}

\* A slot is free, or queued, or in hand, or answered; the signal comes after the answer,
\* and the answer goes to a task that is there.
SlotOk(s) ==
    /\ ~req[s].used => ~req[s].queued /\ req[s].owner = NULL /\ ~Answered(s)
    /\ req[s].queued => ~Answered(s) /\ ~InHand(s)
    /\ req[s].used /\ ~Answered(s) => req[s].queued \/ InHand(s)
    /\ Answered(s) => req[s].owner # NULL
    /\ ~Answered(s) => req[s].done = 0 /\ req[s].out_len = 0
    /\ req[s].owner # NULL => user[req[s].owner].slot = s
    /\ req[s].used /\ req[s].owner = NULL => req[s].op # "open"

\* The request in hand is not answered until its signal is all that is missing.
WorkerOk ==
    LET s == worker.slot IN
    /\ worker.at \notin {"take", "pick"} =>
         /\ s \in Slot /\ req[s].used /\ ~req[s].queued /\ req[s].done = 0
         /\ Answered(s) <=> worker.at = "give"
    /\ worker.at \in {"lock", "fs", "post"} => worker.op = req[s].op /\ worker.call = req[s].call
    /\ worker.at \in {"lock", "fs"} => worker.fd \in File

\* A handle in use has a live owner or is being opened or closed.
FileOk(f) ==
    handle[f].used =>
        \/ handle[f].owner # NULL /\ user[handle[f].owner].at # "dead"
        \/ \E s \in Slot : req[s].queued /\ req[s].op = "close" /\ req[s].fd = f
        \/ worker.at = "exec" /\ req[worker.slot].op = "close" /\ req[worker.slot].fd = f
        \/ worker.at \in {"lock", "fs"} /\ worker.op # "read" /\ worker.fd = f
        \/ worker.at = "post" /\ worker.op = "open" /\ worker.res = f /\ worker.fd = f
        \/ \E s \in Slot : req[s].result.val = f /\ req[s].op = "open"

VInv ==
    /\ VType /\ WorkerOk
    /\ (\A t \in User : UserOk(t)) /\ (\A s \in Slot : SlotOk(s)) /\ (\A f \in File : FileOk(f))

\* Waits have no timeout; nobody is killed who opens a file or has an answer to collect.
Patient == VfsBounds /\ ~Timeouts /\ KillAt \subseteq {"ready", "waiting"}
------------------------------------------------------------------------------
(* The steps *)

\* The first free slot, the first queued one and the first free handle.
LEMMA Firsts ==
    ASSUME VfsBounds
    PROVE  /\ FreeSlots # {} => First(FreeSlots) \in FreeSlots
           /\ Queued # {} => First(Queued) \in Queued
           /\ FreeFiles # {} => First(FreeFiles) \in FreeFiles
<1>1. Cardinality(Slot) \in Nat /\ Cardinality(File) \in Nat
  BY DEF VfsBounds
<1>2. /\ FreeSlots \in SUBSET (1..Cardinality(Slot)) /\ Queued \in SUBSET (1..Cardinality(Slot))
      /\ FreeFiles \in SUBSET (1..Cardinality(File))
  BY DEF VfsBounds, FreeSlots, Queued, FreeFiles
<1>3. QED
  BY <1>1, <1>2, Least

\* The positions are integers, and 0 and -1 are none of them.
LEMMA Positions ==
    ASSUME VfsBounds
    PROVE  /\ 0 \notin Slot /\ 0 \notin File /\ -1 \notin File /\ NULL \notin User
           /\ \A f \in File : f > 0 /\ f \in Int
           /\ \A t \in User, k \in {0, 1} : NoCall # <<t, k>>
           /\ NoResult.val = -1 /\ NoResult.by = NoCall
BY DEF VfsBounds, NoCall, NoResult

\* A record of every kind.
LEMMA Records ==
    ASSUME VfsBounds
    PROVE  /\ NoCall \in Calls /\ NoResult \in Results
           /\ \A d \in {0, 1} : FreeSlot(d) \in Request
           /\ Resting \in Hands
BY DEF Calls, Results, NoCall, NoResult, FreeSlot, Request, Resting, Hands, Op

\* A request whose signal is given or taken.
LEMMA Signal ==
    ASSUME NEW q \in Request, NEW d \in {0, 1}, NEW r, r = [q EXCEPT !.done = d]
    PROVE  /\ r \in Request
           /\ r.used = q.used /\ r.queued = q.queued /\ r.op = q.op /\ r.fd = q.fd
           /\ r.owner = q.owner /\ r.result = q.result /\ r.out_len = q.out_len
           /\ r.done = d /\ r.call = q.call
BY DEF Request

\* A request that is picked.
LEMMA Picking ==
    ASSUME NEW q \in Request, NEW r, r = [q EXCEPT !.queued = FALSE]
    PROVE  /\ r \in Request
           /\ r.used = q.used /\ r.queued = FALSE /\ r.op = q.op /\ r.fd = q.fd
           /\ r.owner = q.owner /\ r.result = q.result /\ r.out_len = q.out_len
           /\ r.done = q.done /\ r.call = q.call
BY DEF Request

\* A request that is abandoned.
LEMMA Abandoning ==
    ASSUME NEW q \in Request, NEW r, r = [q EXCEPT !.owner = NULL]
    PROVE  /\ r \in Request
           /\ r.used = q.used /\ r.queued = q.queued /\ r.op = q.op /\ r.fd = q.fd
           /\ r.owner = NULL /\ r.result = q.result /\ r.out_len = q.out_len
           /\ r.done = q.done /\ r.call = q.call
BY DEF Request

\* The work in slot x is what it was.
SameWork(x) ==
    /\ req'[x].queued = req[x].queued /\ req'[x].op = req[x].op
    /\ req'[x].fd = req[x].fd /\ req'[x].result = req[x].result

\* What a step of the tasks has to leave alone for a handle to be accounted for.
LEMMA FileFrame ==
    ASSUME NEW f \in File, FileOk(f), worker' = worker, handle'[f] = handle[f],
           worker.at = "exec" => worker.slot \in Slot,
           handle[f].owner # NULL /\ user[handle[f].owner].at # "dead"
             => user'[handle[f].owner].at # "dead",
           \A x \in Slot : \/ req[x].queued
                           \/ req[x].result.val = f /\ req[x].op = "open"
                           \/ worker.at = "exec" /\ worker.slot = x
                           => SameWork(x)
    PROVE  FileOk(f)'
<1> SUFFICES ASSUME handle[f].used
             PROVE  FileOk(f)'
  BY DEF FileOk
<1>1. CASE handle[f].owner # NULL /\ user[handle[f].owner].at # "dead"
  BY <1>1 DEF FileOk
<1>2. ASSUME NEW x \in Slot, req[x].queued, req[x].op = "close", req[x].fd = f PROVE FileOk(f)'
  <2>1. SameWork(x)
    BY <1>2
  <2>2. QED
    BY <1>2, <2>1 DEF FileOk, SameWork
<1>3. CASE worker.at = "exec" /\ req[worker.slot].op = "close" /\ req[worker.slot].fd = f
  BY <1>3 DEF FileOk, SameWork
<1>4. CASE \/ worker.at \in {"lock", "fs"} /\ worker.op # "read" /\ worker.fd = f
           \/ worker.at = "post" /\ worker.op = "open" /\ worker.res = f /\ worker.fd = f
  BY <1>4 DEF FileOk
<1>5. ASSUME NEW x \in Slot, req[x].result.val = f, req[x].op = "open" PROVE FileOk(f)'
  <2>1. SameWork(x)
    BY <1>5
  <2>2. QED
    BY <1>5, <2>1 DEF FileOk, SameWork
<1>6. QED
  BY <1>1, <1>2, <1>3, <1>4, <1>5 DEF FileOk

\* The request in slot x is the same task's, for the same call, with the same result.
SameCall(x) ==
    /\ req'[x].used = req[x].used /\ req'[x].owner = req[x].owner
    /\ req'[x].call = req[x].call /\ req'[x].result = req[x].result

\* A task keeps its slot, and the worker does not pick it up again.
LEMMA CallFrame ==
    ASSUME NEW u \in User, UserOk(u), user'[u] = user[u],
           user[u].at \in {"wait", "finish"} => SameCall(user[u].slot),
           user[u].at = "finish" =>
             /\ req'[user[u].slot].done = req[user[u].slot].done
             /\ worker'.slot # user[u].slot \/ worker'.at \in {"take", "pick"}
    PROVE  UserOk(u)'
<1>1. PICK s : s = user[u].slot
  OBVIOUS
<1>2. user'[u].slot = s /\ user'[u].at = user[u].at /\ user'[u].n = user[u].n
      /\ user'[u].answer = user[u].answer
  BY <1>1
<1>3. CASE user[u].at \in {"wait", "finish"}
  <2>1. SameCall(s)
    BY <1>1, <1>3
  <2>2. Answered(s)' <=> Answered(s)
    BY <2>1 DEF Answered, SameCall
  <2>3. user[u].at = "finish" => ~InHand(s)' /\ req'[s].done = req[s].done
    BY <1>1 DEF InHand
  <2>4. QED
    BY <1>1, <1>2, <1>3, <2>1, <2>2, <2>3 DEF UserOk, SameCall
<1>4. CASE user[u].at \notin {"wait", "finish"}
  BY <1>1, <1>2, <1>4 DEF UserOk
<1>5. QED
  BY <1>3, <1>4

\* The same, when the slot is what it was.
LEMMA UserFrame ==
    ASSUME NEW u \in User, UserOk(u), user'[u] = user[u],
           user[u].at \in {"wait", "finish"} => req'[user[u].slot] = req[user[u].slot],
           user[u].at = "finish" => worker'.slot # user[u].slot \/ worker'.at \in {"take", "pick"}
    PROVE  UserOk(u)'
<1>1. user[u].at \in {"wait", "finish"} => SameCall(user[u].slot)
  BY DEF SameCall
<1>2. QED
  BY <1>1, CallFrame

\* A task makes a request.
LEMMA SubmitKeeps ==
    ASSUME Patient, VInv, NEW t \in User, NEW op \in Op, NEW fd \in File \cup {0},
           v_vfs_submit(t, op, fd)
    PROVE  VInv'
<1> DEFINE r == [used |-> TRUE, queued |-> TRUE, op |-> op, fd |-> fd, owner |-> t,
                 result |-> NoResult, out_len |-> 0, done |-> 0, call |-> <<t, user[t].n>>]
<1>1. VfsBounds
  BY DEF Patient
<1>2. PICK s \in Slot : s = First(FreeSlots) /\ ~req[s].used
  BY <1>1, Firsts DEF v_vfs_submit, FreeSlots
<1>3. /\ user[t].at = "ready" /\ req' = [req EXCEPT ![s] = r] /\ work_sem' = WorkAfter(1)
      /\ user' = [user EXCEPT ![t].at = "wait", ![t].slot = s, ![t].answer = "none"]
      /\ UNCHANGED <<handle, worker>>
  BY <1>2 DEF v_vfs_submit
<1>4. /\ user'[t].at = "wait" /\ user'[t].slot = s /\ user'[t].answer = "none"
      /\ user'[t].n = user[t].n /\ user'[t] \in Asker /\ r \in Request
      /\ \A u \in User \ {t} : user'[u] = user[u]
  <2>1. user[t] \in Asker /\ user' = [user EXCEPT ![t] = [user[t] EXCEPT !.at = "wait",
                                        !.slot = s, !.answer = "none"]]
    BY <1>3 DEF VInv, VType
  <2>2. r \in Request
    BY <1>1, <2>1, Records DEF Request, Asker, Calls
  <2>3. QED
    BY <2>1, <2>2 DEF VInv, VType, Asker
<1>5. /\ req'[s] = r /\ \A x \in Slot \ {s} : req'[x] = req[x]
      /\ req' \in [Slot -> Request]
  BY <1>3, <1>4 DEF VInv, VType
<1>6. r.used /\ r.queued /\ r.owner = t /\ r.result = NoResult /\ r.done = 0 /\ r.out_len = 0
      /\ r.call = <<t, user[t].n>>
  OBVIOUS
<1> HIDE DEF r
<1>7. VType'
  <2>1. work_sem' \in 0..Cardinality(Slot)
    BY <1>1, <1>3 DEF VInv, VType, WorkAfter, VfsBounds
  <2>2. user' \in [User -> Asker]
    BY <1>3, <1>4 DEF VInv, VType
  <2>3. QED
    BY <1>3, <1>5, <2>1, <2>2 DEF VInv, VType
<1>8. worker.at \notin {"take", "pick"} => worker.slot # s /\ worker.slot \in Slot
  BY <1>2 DEF VInv, WorkerOk
<1>9. ASSUME NEW u \in User PROVE UserOk(u)'
  <2>1. CASE u = t
    BY <1>1, <1>4, <1>5, <1>6, <2>1, Positions DEF UserOk, Answered
  <2>2. CASE u # t
    <3>1. user'[u] = user[u] /\ UserOk(u)
      BY <1>4, <2>2 DEF VInv
    <3>2. user[u].at \in {"wait", "finish"} => user[u].slot # s /\ user[u].slot \in Slot
      BY <1>2, <3>1 DEF VInv, VType, Asker, UserOk
    <3>3. user[u].at = "finish"
            => worker'.slot # user[u].slot \/ worker'.at \in {"take", "pick"}
      BY <1>3, <3>1 DEF UserOk, InHand
    <3>4. user[u].at \in {"wait", "finish"} => req'[user[u].slot] = req[user[u].slot]
      BY <1>5, <3>2
    <3>5. QED
      BY <3>1, <3>3, <3>4, UserFrame
  <2>3. QED
    BY <2>1, <2>2
<1>10. ASSUME NEW x \in Slot PROVE SlotOk(x)'
  <2>1. CASE x = s
    BY <1>1, <1>3, <1>4, <1>5, <1>6, <1>8, <2>1, Positions DEF SlotOk, Answered, InHand
  <2>2. CASE x # s
    <3>1. req'[x] = req[x] /\ SlotOk(x)
      BY <1>5, <2>2 DEF VInv
    <3>2. user[t].slot = 0
      BY <1>3 DEF VInv, UserOk
    <3>3. req[x].owner # t
      BY <1>1, <3>1, <3>2, Positions DEF SlotOk
    <3>4. req[x].owner # NULL => user'[req[x].owner] = user[req[x].owner]
      BY <1>4, <3>3 DEF VInv, VType, Request
    <3>5. QED
      BY <1>3, <3>1, <3>4 DEF SlotOk, Answered, InHand
  <2>3. QED
    BY <2>1, <2>2
<1>11. WorkerOk'
  BY <1>3, <1>5, <1>8 DEF VInv, WorkerOk, Answered
<1>12. ASSUME NEW f \in File PROVE FileOk(f)'
  <2>1. \A u \in User : user[u].at # "dead" => user'[u].at # "dead"
    BY <1>4
  <2>2. handle[f].owner \in User \cup {NULL}
    BY DEF VInv, VType
  <2>3. \A x \in Slot : req[x].queued \/ req[x].result.val = f => x # s
    BY <1>1, <1>2, Positions DEF VInv, SlotOk, Answered
  <2>4. \A x \in Slot : x # s => SameWork(x)
    BY <1>5 DEF SameWork
  <2>5. worker.at = "exec" => worker.slot \in Slot /\ worker.slot # s
    BY <1>8
  <2>6. FileOk(f) /\ worker' = worker /\ handle'[f] = handle[f]
    BY <1>3 DEF VInv
  <2>7. handle[f].owner # NULL /\ user[handle[f].owner].at # "dead"
          => user'[handle[f].owner].at # "dead"
    BY <2>1, <2>2
  <2>8. QED
    BY <2>3, <2>4, <2>5, <2>6, <2>7, FileFrame
<1>13. QED
  BY <1>7, <1>9, <1>10, <1>11, <1>12 DEF VInv

\* A task is woken by its signal.
LEMMA WaitKeeps ==
    ASSUME Patient, VInv, NEW t \in User, v_vfs_wait(t)
    PROVE  VInv'
<1>1. VfsBounds /\ ~Timeouts
  BY DEF Patient
<1>2. PICK s \in Slot : s = user[t].slot /\ req[s].used /\ req[s].owner = t /\ user[t].at = "wait"
  BY <1>1, Positions DEF v_vfs_wait, VInv, VType, Asker, UserOk
<1>3. /\ req[s].done = 1 /\ req' = [req EXCEPT ![s].done = 0]
      /\ user' = [user EXCEPT ![t].at = "finish"]
      /\ UNCHANGED <<handle, work_sem, worker>>
  BY <1>1, <1>2 DEF v_vfs_wait
<1>4. /\ user'[t] = [user[t] EXCEPT !.at = "finish"] /\ user'[t] \in Asker
      /\ user'[t].at = "finish" /\ user'[t].slot = s /\ user'[t].answer = user[t].answer
      /\ user'[t].n = user[t].n /\ \A u \in User \ {t} : user'[u] = user[u]
  BY <1>2, <1>3 DEF VInv, VType, Asker
<1>5. /\ req'[s] \in Request
      /\ req'[s].done = 0 /\ req'[s].used = req[s].used /\ req'[s].owner = t
      /\ req'[s].out_len = req[s].out_len /\ req'[s].call = req[s].call /\ SameWork(s)
      /\ \A x \in Slot \ {s} : req'[x] = req[x]
  <2>1. req[s] \in Request /\ req'[s] = [req[s] EXCEPT !.done = 0]
    BY <1>3 DEF VInv, VType
  <2>2. \A x \in Slot \ {s} : req'[x] = req[x]
    BY <1>3 DEF VInv, VType
  <2>3. /\ req'[s] \in Request /\ req'[s].done = 0 /\ req'[s].used = req[s].used
        /\ req'[s].queued = req[s].queued /\ req'[s].op = req[s].op /\ req'[s].fd = req[s].fd
        /\ req'[s].owner = req[s].owner /\ req'[s].result = req[s].result
        /\ req'[s].out_len = req[s].out_len /\ req'[s].call = req[s].call
    <3>1. 0 \in {0, 1}
      OBVIOUS
    <3>2. QED
      BY <2>1, <3>1, Signal
  <2>4. QED
    BY <1>2, <2>2, <2>3 DEF SameWork
<1>6. VType'
  BY <1>3, <1>4, <1>5 DEF VInv, VType
<1>7. Answered(s) /\ \A x \in Slot : Answered(x)' <=> Answered(x)
  BY <1>3, <1>5 DEF VInv, SlotOk, Answered, SameWork
<1>8. ASSUME NEW u \in User PROVE UserOk(u)'
  <2>1. CASE u = t
    <3>1. UserOk(t) /\ ~InHand(s)
      BY <1>3 DEF VInv, WorkerOk, InHand
    <3>2. s # 0 /\ ~InHand(s)'
      BY <1>1, <1>3, <3>1, Positions DEF InHand
    <3>3. /\ user'[t].slot = s /\ user'[t].at = "finish" /\ user'[t].n = user[t].n
          /\ req'[s].used /\ req'[s].owner = t /\ req'[s].call = req[s].call
          /\ req'[s].done = 0 /\ req'[s].result = req[s].result /\ Answered(s)'
      BY <1>2, <1>4, <1>5, <1>7 DEF SameWork
    <3>4. req[s].call = <<t, user[t].n>> /\ req[s].result.by = <<t, user[t].n>>
      BY <1>2, <1>7, <3>1 DEF UserOk
    <3>5. user'[t].answer \in {"none", "mine"}
      BY <1>4, <3>1 DEF UserOk
    <3>6. QED
      BY <2>1, <3>2, <3>3, <3>4, <3>5 DEF UserOk, InHand, Answered
  <2>2. CASE u # t
    <3>1. user'[u] = user[u] /\ UserOk(u)
      BY <1>4, <2>2 DEF VInv
    <3>2. user[u].at \in {"wait", "finish"} => user[u].slot # s /\ user[u].slot \in Slot
      BY <1>1, <1>2, <2>2, <3>1, Positions DEF VInv, VType, Asker, UserOk
    <3>3. user[u].at = "finish"
            => worker'.slot # user[u].slot \/ worker'.at \in {"take", "pick"}
      BY <1>3, <3>1 DEF UserOk, InHand
    <3>4. user[u].at \in {"wait", "finish"} => req'[user[u].slot] = req[user[u].slot]
      BY <1>5, <3>2
    <3>5. QED
      BY <3>1, <3>3, <3>4, UserFrame
  <2>3. QED
    BY <2>1, <2>2
<1>9. ASSUME NEW x \in Slot PROVE SlotOk(x)'
  <2>1. SlotOk(x)
    BY DEF VInv
  <2>2. /\ req'[x].used = req[x].used /\ req'[x].owner = req[x].owner /\ SameWork(x)
        /\ req'[x].out_len = req[x].out_len
    BY <1>2, <1>5 DEF SameWork
  <2>3. Answered(x) \/ req'[x].done = req[x].done
    BY <1>5, <1>7
  <2>4. req[x].owner # NULL => user'[req[x].owner].slot = user[req[x].owner].slot
    <3>1. \A u \in User : user'[u].slot = user[u].slot
      BY ZenonT(40), <1>2, <1>4
    <3>2. req[x].owner \in User \cup {NULL}
      BY DEF VInv, VType, Request
    <3>3. QED
      BY <3>1, <3>2
  <2>5. QED
    BY <1>3, <1>7, <2>1, <2>2, <2>3, <2>4 DEF SlotOk, InHand, SameWork
<1>10. WorkerOk'
  BY <1>2, <1>3, <1>5, <1>7 DEF VInv, WorkerOk, SameWork
<1>11. ASSUME NEW f \in File PROVE FileOk(f)'
  <2>1. \A u \in User : user[u].at # "dead" => user'[u].at # "dead"
    BY <1>4
  <2>2. handle[f].owner \in User \cup {NULL} /\ FileOk(f)
    BY DEF VInv, VType
  <2>3. \A x \in Slot : SameWork(x)
    BY <1>5 DEF SameWork
  <2>4. worker.at = "exec" => worker.slot \in Slot
    BY DEF VInv, WorkerOk
  <2>5. QED
    BY <1>3, <2>1, <2>2, <2>3, <2>4, FileFrame
<1>12. QED
  BY <1>6, <1>8, <1>9, <1>10, <1>11 DEF VInv

\* A task collects its answer, frees the slot and owns the file it opened.
LEMMA FinishKeeps ==
    ASSUME Patient, VInv, NEW t \in User, v_vfs_finish(t)
    PROVE  VInv'
<1>1. VfsBounds
  BY DEF Patient
<1>2. PICK s \in Slot : /\ s = user[t].slot /\ req[s].used /\ req[s].owner = t
                        /\ user[t].at = "finish" /\ Answered(s) /\ req[s].done = 0
                        /\ req[s].result.by = <<t, user[t].n>>
  BY <1>1, Positions DEF v_vfs_finish, VInv, VType, Asker, UserOk
<1> DEFINE v == req[s].result.val
           open == v > 0 /\ req[s].op = "open" /\ handle[v].used
<1>3. /\ handle' = IF open THEN [handle EXCEPT ![v].owner = t] ELSE handle
      /\ req' = [req EXCEPT ![s] = FreeSlot(req[s].done)]
      /\ user' = [user EXCEPT ![t].at = "ready", ![t].slot = 0, ![t].n = (@ + 1) % 2,
                              ![t].answer = "mine"]
      /\ UNCHANGED <<work_sem, worker>>
  BY <1>2 DEF v_vfs_finish
<1>4. /\ user'[t].at = "ready" /\ user'[t].slot = 0 /\ user'[t].answer = "mine"
      /\ user'[t] \in Asker /\ \A u \in User \ {t} : user'[u] = user[u]
  <2>1. user[t] \in Asker /\ user[t].n \in {0, 1}
    BY DEF VInv, VType, Asker
  <2>2. PICK k \in {0, 1} : k = (user[t].n + 1) % 2
    BY <2>1
  <2>3. user'[t] = [user[t] EXCEPT !.at = "ready", !.slot = 0, !.n = k, !.answer = "mine"]
    BY <1>3, <2>1, <2>2 DEF VInv, VType
  <2>4. \A u \in User \ {t} : user'[u] = user[u]
    BY <1>3 DEF VInv, VType
  <2>5. user'[t] = [at |-> "ready", slot |-> 0, n |-> k, answer |-> "mine"]
    BY <2>1, <2>3 DEF Asker
  <2>6. QED
    BY <2>4, <2>5 DEF Asker
<1>5. /\ req'[s] = FreeSlot(0) /\ req'[s] \in Request
      /\ ~req'[s].used /\ ~req'[s].queued /\ req'[s].owner = NULL /\ req'[s].done = 0
      /\ req'[s].out_len = 0 /\ req'[s].result = NoResult
      /\ \A x \in Slot \ {s} : req'[x] = req[x] /\ SameWork(x)
  <2>1. req' = [req EXCEPT ![s] = FreeSlot(0)] /\ FreeSlot(0) \in Request
    BY <1>1, <1>2, <1>3, Records
  <2>2. req'[s] = FreeSlot(0) /\ \A x \in Slot \ {s} : req'[x] = req[x]
    BY <2>1 DEF VInv, VType
  <2>3. QED
    BY <2>1, <2>2 DEF FreeSlot, SameWork
<1>6. handle' \in [File -> [used : BOOLEAN, owner : User \cup {NULL}]]
      /\ \A f \in File : \/ handle'[f] = handle[f]
                         \/ handle'[f].owner = t
  <2>1. v \in File \cup {-1, 0}
    BY DEF VInv, VType, Request, Results
  <2>2. open => v \in File
    BY <2>1
  <2> HIDE DEF v, open
  <2>3. QED
    BY <1>3, <2>2 DEF VInv, VType
<1>7. open => handle'[v].owner = t
  BY <1>3, <1>6 DEF VInv, VType, Request
<1>8. VType'
  BY <1>3, <1>4, <1>5, <1>6 DEF VInv, VType
<1>9. worker.at \notin {"take", "pick"} => worker.slot # s /\ worker.slot \in Slot
  BY <1>2 DEF VInv, SlotOk, WorkerOk, UserOk, InHand
<1>10. ASSUME NEW u \in User PROVE UserOk(u)'
  <2>1. CASE u = t
    BY <1>4, <2>1 DEF UserOk
  <2>2. CASE u # t
    <3>1. user'[u] = user[u] /\ UserOk(u)
      BY <1>4, <2>2 DEF VInv
    <3>2. user[u].at \in {"wait", "finish"} => user[u].slot # s /\ user[u].slot \in Slot
      BY <1>1, <1>2, <2>2, <3>1, Positions DEF VInv, VType, Asker, UserOk
    <3>3. user[u].at = "finish"
            => worker'.slot # user[u].slot \/ worker'.at \in {"take", "pick"}
      BY <1>3, <3>1 DEF UserOk, InHand
    <3>4. user[u].at \in {"wait", "finish"} => req'[user[u].slot] = req[user[u].slot]
      BY <1>5, <3>2
    <3>5. QED
      BY <3>1, <3>3, <3>4, UserFrame
  <2>3. QED
    BY <2>1, <2>2
<1>11. ASSUME NEW x \in Slot PROVE SlotOk(x)'
  <2>1. CASE x = s
    BY <1>5, <2>1 DEF SlotOk, Answered
  <2>2. CASE x # s
    <3>1. req'[x] = req[x] /\ SlotOk(x)
      BY <1>5, <2>2 DEF VInv
    <3>2. req[x].owner # t
      BY <1>1, <1>2, <2>2, <3>1, Positions DEF SlotOk
    <3>3. req[x].owner # NULL => user'[req[x].owner] = user[req[x].owner]
      BY <1>4, <3>2 DEF VInv, VType, Request
    <3>4. QED
      BY <1>3, <3>1, <3>3 DEF SlotOk, Answered, InHand
  <2>3. QED
    BY <2>1, <2>2
<1>12. WorkerOk'
  BY <1>3, <1>5, <1>9 DEF VInv, WorkerOk, Answered
<1>13. ASSUME NEW f \in File PROVE FileOk(f)'
  <2>1. CASE open /\ v = f
    BY <1>1, <1>4, <1>7, <2>1, Positions DEF FileOk
  <2>2. CASE ~(open /\ v = f) /\ handle[f].used
    <3>1. handle'[f] = handle[f]
      BY <1>3, <2>2 DEF VInv, VType
    <3>2. ~(v = f /\ req[s].op = "open")
      BY <1>1, <2>2, Positions
    <3>3. FileOk(f) /\ worker' = worker
      BY <1>3 DEF VInv
    <3>4. handle[f].owner # NULL /\ user[handle[f].owner].at # "dead"
            => user'[handle[f].owner].at # "dead"
      BY <1>4 DEF VInv, VType
    <3>5. worker.at = "exec" => worker.slot \in Slot /\ worker.slot # s
      BY <1>9
    <3>6. ~req[s].queued
      BY <1>2 DEF VInv, SlotOk
    <3>7. QED
      BY <1>5, <3>1, <3>2, <3>3, <3>4, <3>5, <3>6, FileFrame
  <2>3. CASE ~handle[f].used
    <3>1. handle'[f] = handle[f] \/ (open /\ v = f)
      BY <1>3 DEF VInv, VType
    <3>2. QED
      BY <2>1, <2>3, <3>1 DEF FileOk
  <2>4. QED
    BY <2>1, <2>2, <2>3
<1>14. QED
  BY <1>8, <1>10, <1>11, <1>12, <1>13 DEF VInv

\* The worker waits, or looks and finds nothing; a privileged task comes and goes.
LEMMA RestKeeps ==
    ASSUME Patient, VInv, UNCHANGED <<req, handle, user>>, work_sem' \in 0..Cardinality(Slot),
           \/ worker' = worker
           \/ worker' \in Hands /\ worker.at \in {"take", "pick"} /\ worker'.at \in {"take", "pick"}
    PROVE  VInv'
<1>1. CASE worker' = worker
  BY <1>1 DEF VInv, VType, WorkerOk, UserOk, SlotOk, FileOk, Answered, InHand
<1>2. CASE worker' # worker
  <2>1. worker' \in Hands /\ worker.at \in {"take", "pick"} /\ worker'.at \in {"take", "pick"}
    BY <1>2
  <2>2. VType' /\ WorkerOk'
    BY <2>1 DEF VInv, VType, WorkerOk
  <2>3. ASSUME NEW u \in User PROVE UserOk(u)'
    BY <2>1, UserFrame DEF VInv
  <2>4. ASSUME NEW x \in Slot PROVE SlotOk(x)'
    BY <2>1 DEF VInv, SlotOk, Answered, InHand
  <2>5. ASSUME NEW f \in File PROVE FileOk(f)'
    BY <2>1 DEF VInv, FileOk
  <2>6. QED
    BY <2>2, <2>3, <2>4, <2>5 DEF VInv
<1>3. QED
  BY <1>1, <1>2

\* The worker takes the semaphore.
LEMMA TakeKeeps ==
    ASSUME Patient, VInv, TakeWork
    PROVE  VInv'
<1>1. worker' \in Hands /\ worker'.at = "pick"
  <2>1. worker \in Hands /\ worker' = [worker EXCEPT !.at = "pick"]
    BY DEF VInv, VType, TakeWork
  <2>2. QED
    BY <2>1 DEF Hands
<1>2. work_sem' \in 0..Cardinality(Slot)
  <2>1. Cardinality(Slot) \in Nat
    BY DEF Patient, VfsBounds
  <2>2. QED
    BY <2>1 DEF VInv, VType, TakeWork
<1>3. QED
  BY <1>1, <1>2, RestKeeps DEF TakeWork

\* The worker picks the first queued request, if there is one.
LEMMA PickKeeps ==
    ASSUME Patient, VInv, PickRequest
    PROVE  VInv'
<1>1. VfsBounds
  BY DEF Patient
<1>2. CASE Queued = {}
  <2>1. worker' = Resting /\ worker.at = "pick" /\ UNCHANGED <<req, handle, user, work_sem>>
    BY <1>2 DEF PickRequest
  <2>2. worker' \in Hands /\ worker'.at = "take" /\ work_sem' \in 0..Cardinality(Slot)
    BY <1>1, <2>1, Records DEF Resting, VInv, VType
  <2>3. QED
    BY <2>1, <2>2, RestKeeps
<1>3. CASE Queued # {}
  <2>1. PICK s \in Slot : s = Picked /\ req[s].used /\ req[s].queued
    BY <1>1, <1>3, Firsts DEF Queued, Picked
  <2>2. /\ worker.at = "pick" /\ req' = [req EXCEPT ![s].queued = FALSE]
        /\ worker' = [worker EXCEPT !.at = "exec", !.slot = s]
        /\ UNCHANGED <<handle, work_sem, user>>
    BY <1>3, <2>1 DEF PickRequest
  <2>3. worker' \in Hands /\ worker'.at = "exec" /\ worker'.slot = s
    BY <2>2 DEF VInv, VType, Hands
  <2>4. /\ req'[s] \in Request
        /\ req'[s].used = req[s].used /\ req'[s].queued = FALSE /\ req'[s].op = req[s].op
        /\ req'[s].fd = req[s].fd /\ req'[s].owner = req[s].owner
        /\ req'[s].result = req[s].result /\ req'[s].out_len = req[s].out_len
        /\ req'[s].done = req[s].done /\ req'[s].call = req[s].call
    <3>1. req[s] \in Request /\ req'[s] = [req[s] EXCEPT !.queued = FALSE]
      BY <2>2 DEF VInv, VType
    <3>2. QED
      BY ZenonT(40), <3>1, Picking
  <2>5. \A x \in Slot \ {s} : req'[x] = req[x]
    BY <2>2 DEF VInv, VType
  <2>6. ~Answered(s) /\ req[s].done = 0
    BY <2>1 DEF VInv, SlotOk
  <2>7. VType'
    BY <2>2, <2>3, <2>4 DEF VInv, VType
  <2>8. WorkerOk'
    BY <2>1, <2>3, <2>4, <2>6 DEF WorkerOk, Answered
  <2>9. \A x \in Slot : SameCall(x) /\ req'[x].done = req[x].done
    BY <2>4, <2>5 DEF SameCall
  <2>10. ASSUME NEW u \in User PROVE UserOk(u)'
    <3>1. UserOk(u) /\ user'[u] = user[u]
      BY <2>2 DEF VInv
    <3>2. user[u].at \in {"wait", "finish"} => user[u].slot \in Slot
      BY <1>1, <3>1, Positions DEF VInv, VType, Asker, UserOk
    <3>3. user[u].at = "finish" => user[u].slot # s
      BY <2>6, <3>1 DEF UserOk
    <3>4. QED
      BY <2>3, <2>9, <3>1, <3>2, <3>3, CallFrame
  <2>11. ASSUME NEW x \in Slot PROVE SlotOk(x)'
    <3>1. SlotOk(x) /\ ~InHand(x)
      BY <2>2 DEF VInv, InHand
    <3>2. CASE x = s
      BY <2>1, <2>2, <2>3, <2>4, <2>6, <3>1, <3>2 DEF SlotOk, Answered, InHand
    <3>3. CASE x # s
      <4>1. req'[x] = req[x] /\ ~InHand(x)'
        BY <2>3, <2>5, <3>3 DEF InHand
      <4>2. QED
        BY <2>2, <3>1, <4>1 DEF SlotOk, Answered
    <3>4. QED
      BY <3>2, <3>3
  <2>12. ASSUME NEW f \in File PROVE FileOk(f)'
    <3>1. FileOk(f) /\ handle' = handle /\ user' = user /\ worker.at = "pick"
      BY <2>2 DEF VInv
    <3>2. SUFFICES ASSUME handle[f].used PROVE FileOk(f)'
      BY <3>1 DEF FileOk
    <3>3. CASE handle[f].owner # NULL /\ user[handle[f].owner].at # "dead"
      BY <3>1, <3>3 DEF FileOk
    <3>4. ASSUME NEW x \in Slot, req[x].queued, req[x].op = "close", req[x].fd = f PROVE FileOk(f)'
      BY <2>3, <2>4, <2>5, <3>4 DEF FileOk
    <3>5. ASSUME NEW x \in Slot, req[x].result.val = f, req[x].op = "open" PROVE FileOk(f)'
      BY <2>4, <2>5, <3>5 DEF FileOk
    <3>6. QED
      BY <3>1, <3>2, <3>3, <3>4, <3>5 DEF FileOk
  <2>13. QED
    BY <2>7, <2>8, <2>10, <2>11, <2>12 DEF VInv
<1>4. QED
  BY <1>2, <1>3

\* What the worker does on the way, with the request in its slot untouched.
LEMMA HandFrame ==
    ASSUME Patient, VInv, UNCHANGED <<req, user>>,
           worker.at \in {"exec", "lock", "fs"}, worker'.at \in {"lock", "fs", "post"},
           worker'.slot = worker.slot
    PROVE  (\A u \in User : UserOk(u)') /\ (\A x \in Slot : SlotOk(x)')
<1>1. ASSUME NEW u \in User PROVE UserOk(u)'
  <2>1. UserOk(u)
    BY DEF VInv
  <2>2. user[u].at = "finish" => worker'.slot # user[u].slot
    BY <2>1 DEF UserOk, InHand
  <2>3. QED
    BY <2>1, <2>2, UserFrame
<1>2. ASSUME NEW x \in Slot PROVE SlotOk(x)'
  BY DEF VInv, SlotOk, Answered, InHand
<1>3. QED
  BY <1>1, <1>2

\* The worker allocates or checks the handle.
LEMMA ExecuteKeeps ==
    ASSUME Patient, VInv, Execute
    PROVE  VInv'
<1>1. VfsBounds
  BY DEF Patient
<1>2. PICK s \in Slot : /\ s = worker.slot /\ worker.at = "exec" /\ ~Answered(s)
                        /\ req[s].used /\ ~req[s].queued /\ req[s].done = 0
  BY DEF Execute, VInv, WorkerOk
<1>3. PICK r \in Request : r = req[s]
  BY DEF VInv, VType
<1>4. PICK f : f = IF r.op = "open" THEN First(FreeFiles) ELSE r.fd
  OBVIOUS
<1>5. PICK refused \in BOOLEAN :
        refused <=> IF r.op = "open" THEN FreeFiles = {} ELSE f = 0 \/ ~handle[f].used
  OBVIOUS
<1>6. /\ handle' = IF r.op = "open" /\ ~refused
                   THEN [handle EXCEPT ![f] = [used |-> TRUE, owner |-> NULL]] ELSE handle
      /\ worker' = [worker EXCEPT !.at = IF refused THEN "post" ELSE "lock", !.op = r.op,
                      !.call = r.call, !.fd = IF refused THEN 0 ELSE f, !.res = -1, !.out = 0]
      /\ UNCHANGED <<req, work_sem, user>>
  BY <1>2, <1>3, <1>4, <1>5 DEF Execute
<1>7. ~refused => f \in File
  BY <1>1, <1>3, <1>4, <1>5, Firsts DEF FreeFiles, Request
<1>8. /\ worker' \in Hands /\ worker'.at = (IF refused THEN "post" ELSE "lock")
      /\ worker'.op = r.op /\ worker'.call = r.call /\ worker'.slot = s
      /\ worker'.fd = (IF refused THEN 0 ELSE f)
  <2>1. worker \in Hands /\ r.op \in Op /\ r.call \in Calls
    BY <1>3 DEF VInv, VType, Request
  <2>2. PICK a \in {"post", "lock"} : a = IF refused THEN "post" ELSE "lock"
    OBVIOUS
  <2>3. PICK g \in File \cup {0} : g = IF refused THEN 0 ELSE f
    BY <1>7
  <2>4. worker' = [worker EXCEPT !.at = a, !.op = r.op, !.call = r.call, !.fd = g,
                                 !.res = -1, !.out = 0]
    BY <1>6, <2>2, <2>3
  <2>5. -1 \in File \cup {-1, 0} /\ 0 \in {0, 1} /\ a \in {"lock", "post"}
    OBVIOUS
  <2>6. /\ worker' \in Hands /\ worker'.at = a /\ worker'.op = r.op /\ worker'.call = r.call
        /\ worker'.slot = worker.slot /\ worker'.fd = g
    BY <2>1, <2>2, <2>3, <2>4 DEF Hands
  <2>7. QED
    BY <1>2, <2>2, <2>3, <2>6
<1>9. handle' \in [File -> [used : BOOLEAN, owner : User \cup {NULL}]]
  BY <1>6, <1>7 DEF VInv, VType
<1>10. VType'
  BY <1>6, <1>8, <1>9 DEF VInv, VType
<1>11. WorkerOk'
  BY <1>2, <1>3, <1>6, <1>7, <1>8 DEF WorkerOk, Answered
<1>12. ASSUME NEW g \in File PROVE FileOk(g)'
  <2>1. FileOk(g) /\ user' = user /\ req' = req
    BY <1>6 DEF VInv
  <2>2. CASE r.op = "open" /\ ~refused /\ g = f
    BY <1>8, <2>2 DEF FileOk
  <2>3. CASE ~(r.op = "open" /\ ~refused /\ g = f)
    <3>1. handle'[g] = handle[g]
      BY <1>6, <2>3 DEF VInv, VType
    <3>2. SUFFICES ASSUME handle[g].used PROVE FileOk(g)'
      BY <3>1 DEF FileOk
    <3>3. CASE r.op = "close" /\ r.fd = g
      <4>1. f = g /\ ~refused
        BY <1>1, <1>4, <1>5, <3>2, <3>3, Positions
      <4>2. QED
        BY <1>8, <3>3, <4>1 DEF FileOk
    <3>4. CASE ~(r.op = "close" /\ r.fd = g)
      BY <1>2, <1>3, <2>1, <3>1, <3>2, <3>4 DEF FileOk
    <3>5. QED
      BY <3>3, <3>4
  <2>4. QED
    BY <2>2, <2>3
<1>13. (\A u \in User : UserOk(u)') /\ (\A x \in Slot : SlotOk(x)')
  BY <1>2, <1>6, <1>8, HandFrame
<1>14. QED
  BY <1>10, <1>11, <1>12, <1>13 DEF VInv

\* The worker enters the file system.
LEMMA EnterKeeps ==
    ASSUME Patient, VInv, WorkerEnters
    PROVE  VInv'
<1>1. worker' \in Hands /\ worker.at = "lock" /\ worker'.at = "fs" /\ worker'.slot = worker.slot
      /\ worker'.op = worker.op /\ worker'.call = worker.call /\ worker'.fd = worker.fd
  BY DEF VInv, VType, Hands, WorkerEnters
<1>2. UNCHANGED <<req, handle, work_sem, user>>
  BY DEF WorkerEnters
<1>3. VType' /\ WorkerOk'
  BY <1>1, <1>2 DEF VInv, VType, WorkerOk, Answered
<1>4. ASSUME NEW g \in File PROVE FileOk(g)'
  BY <1>1, <1>2 DEF VInv, FileOk
<1>5. (\A u \in User : UserOk(u)') /\ (\A x \in Slot : SlotOk(x)')
  BY <1>1, <1>2, HandFrame
<1>6. QED
  BY <1>3, <1>4, <1>5 DEF VInv

\* The file system answers.
LEMMA FsKeeps ==
    ASSUME Patient, VInv, NEW ok \in BOOLEAN, FsAnswers(ok)
    PROVE  VInv'
<1>1. PICK f \in File : f = worker.fd
  BY DEF VInv, WorkerOk, FsAnswers
<1> DEFINE freed == worker.op = "close" \/ (worker.op = "open" /\ ~ok)
<1>2. /\ handle' = IF freed THEN [handle EXCEPT ![f] = [used |-> FALSE, owner |-> NULL]]
                   ELSE handle
      /\ worker.at = "fs" /\ UNCHANGED <<req, work_sem, user>>
  BY <1>1 DEF FsAnswers
<1>3. /\ worker' \in Hands /\ worker'.at = "post" /\ worker'.slot = worker.slot
      /\ worker'.op = worker.op /\ worker'.call = worker.call
      /\ worker.op = "open" /\ ok => worker'.res = f /\ worker'.fd = f
  <2>1. PICK v \in File \cup {-1, 0} : v = IF ~ok THEN -1 ELSE IF worker.op = "open" THEN f ELSE 0
    OBVIOUS
  <2>2. PICK o \in {0, 1} : o = IF ok /\ worker.op = "read" THEN 1 ELSE 0
    OBVIOUS
  <2>3. worker' = [worker EXCEPT !.at = "post", !.res = v, !.out = o] /\ worker \in Hands
    BY <1>1, <2>1, <2>2 DEF FsAnswers, VInv, VType
  <2>4. /\ worker' \in Hands /\ worker'.at = "post" /\ worker'.slot = worker.slot
        /\ worker'.op = worker.op /\ worker'.call = worker.call /\ worker'.fd = worker.fd
        /\ worker'.res = v
    BY <2>1, <2>2, <2>3 DEF Hands
  <2>5. QED
    BY <1>1, <2>1, <2>4
<1>4. handle' \in [File -> [used : BOOLEAN, owner : User \cup {NULL}]]
  BY <1>2 DEF VInv, VType
<1>5. VType' /\ WorkerOk'
  BY <1>2, <1>3, <1>4 DEF VInv, VType, WorkerOk, Answered
<1>6. ASSUME NEW g \in File PROVE FileOk(g)'
  <2>1. FileOk(g) /\ user' = user /\ req' = req
    BY <1>2 DEF VInv
  <2>2. CASE freed /\ g = f
    BY <1>2, <2>2 DEF VInv, VType, FileOk
  <2>3. CASE ~(freed /\ g = f)
    <3>1. handle'[g] = handle[g]
      BY <1>2, <2>3 DEF VInv, VType
    <3>2. CASE g = f /\ worker.op # "read"
      <4>1. worker.op = "open" /\ ok
        BY <2>3, <3>2 DEF VInv, VType, Hands, Op
      <4>2. QED
        BY <1>3, <3>2, <4>1 DEF FileOk
    <3>3. CASE ~(g = f /\ worker.op # "read")
      BY <1>1, <1>2, <2>1, <3>1, <3>3 DEF FileOk
    <3>4. QED
      BY <3>2, <3>3
  <2>4. QED
    BY <2>2, <2>3
<1>7. (\A u \in User : UserOk(u)') /\ (\A x \in Slot : SlotOk(x)')
  BY <1>2, <1>3, HandFrame
<1>8. QED
  BY <1>5, <1>6, <1>7 DEF VInv

\* The worker releases an abandoned request.
LEMMA ReleaseKeeps ==
    ASSUME Patient, VInv, PostResult, req[worker.slot].owner = NULL
    PROVE  VInv'
<1>1. VfsBounds
  BY DEF Patient
<1>2. PICK s \in Slot : /\ s = worker.slot /\ worker.at = "post" /\ ~Answered(s)
                        /\ req[s].used /\ ~req[s].queued /\ req[s].done = 0
                        /\ req[s].owner = NULL /\ worker.op = req[s].op
  BY DEF PostResult, VInv, WorkerOk
<1>3. /\ req' = [req EXCEPT ![s] = FreeSlot(req[s].done)] /\ worker' = Resting
      /\ UNCHANGED <<handle, work_sem, user>>
  BY <1>2 DEF PostResult, Abandoned
<1>4. /\ req'[s] = FreeSlot(0) /\ req'[s] \in Request
      /\ ~req'[s].used /\ ~req'[s].queued /\ req'[s].owner = NULL /\ req'[s].done = 0
      /\ req'[s].out_len = 0 /\ req'[s].result = NoResult
      /\ \A x \in Slot \ {s} : req'[x] = req[x]
  <2>1. req' = [req EXCEPT ![s] = FreeSlot(0)] /\ FreeSlot(0) \in Request
    BY <1>1, <1>2, <1>3, Records
  <2>2. req'[s] = FreeSlot(0) /\ \A x \in Slot \ {s} : req'[x] = req[x]
    BY <2>1 DEF VInv, VType
  <2>3. QED
    BY <2>1, <2>2 DEF FreeSlot
<1>5. worker' \in Hands /\ worker'.at = "take"
  BY <1>1, <1>3, Records DEF Resting
<1>6. VType' /\ WorkerOk'
  BY <1>3, <1>4, <1>5 DEF VInv, VType, WorkerOk
<1>7. ASSUME NEW u \in User PROVE UserOk(u)'
  <2>1. UserOk(u)
    BY DEF VInv
  <2>2. user[u].at \in {"wait", "finish"} => user[u].slot \in Slot \ {s}
    BY <1>1, <1>2, <2>1, Positions DEF VInv, VType, Asker, UserOk
  <2>3. QED
    BY <1>3, <1>4, <1>5, <2>1, <2>2, UserFrame
<1>8. ASSUME NEW x \in Slot PROVE SlotOk(x)'
  <2>1. CASE x = s
    BY <1>4, <2>1 DEF SlotOk, Answered
  <2>2. CASE x # s
    <3>1. req'[x] = req[x] /\ SlotOk(x) /\ ~InHand(x) /\ ~InHand(x)'
      BY <1>2, <1>4, <1>5, <2>2 DEF VInv, InHand
    <3>2. QED
      BY <1>3, <3>1 DEF SlotOk, Answered
  <2>3. QED
    BY <2>1, <2>2
<1>9. ASSUME NEW f \in File PROVE FileOk(f)'
  <2>1. FileOk(f) /\ handle' = handle /\ user' = user /\ worker.at = "post" /\ worker.op # "open"
    BY <1>2, <1>3 DEF VInv, SlotOk
  <2>2. req[s].result.val # f
    BY <1>1, <1>2, Positions DEF Answered
  <2>3. SUFFICES ASSUME handle[f].used PROVE FileOk(f)'
    BY <2>1 DEF FileOk
  <2>4. CASE handle[f].owner # NULL /\ user[handle[f].owner].at # "dead"
    BY <2>1, <2>4 DEF FileOk
  <2>5. ASSUME NEW x \in Slot, req[x].queued, req[x].op = "close", req[x].fd = f PROVE FileOk(f)'
    BY <1>2, <1>4, <2>5 DEF FileOk
  <2>6. ASSUME NEW x \in Slot, req[x].result.val = f, req[x].op = "open" PROVE FileOk(f)'
    BY <1>4, <2>2, <2>6 DEF FileOk
  <2>7. QED
    BY <2>1, <2>3, <2>4, <2>5, <2>6 DEF FileOk
<1>10. QED
  BY <1>6, <1>7, <1>8, <1>9 DEF VInv

\* The worker posts the result of a request whose task waits for it.
LEMMA PostKeeps ==
    ASSUME Patient, VInv, PostResult, req[worker.slot].owner # NULL
    PROVE  VInv'
<1>1. VfsBounds
  BY DEF Patient
<1>2. PICK s \in Slot : /\ s = worker.slot /\ worker.at = "post" /\ ~Answered(s)
                        /\ req[s].used /\ ~req[s].queued /\ req[s].done = 0
                        /\ req[s].owner # NULL
                        /\ worker.op = req[s].op /\ worker.call = req[s].call
  BY DEF PostResult, VInv, WorkerOk
<1>3. PICK x \in Results : x = [val |-> worker.res, by |-> worker.call]
  BY DEF VInv, VType, Hands, Results
<1>4. /\ req' = [req EXCEPT ![s].out_len = worker.out, ![s].result = x]
      /\ worker' = [worker EXCEPT !.at = "give"] /\ UNCHANGED <<handle, work_sem, user>>
  BY <1>2, <1>3 DEF PostResult
<1>5. /\ req'[s] \in Request
      /\ req'[s].used = req[s].used /\ req'[s].queued = req[s].queued /\ req'[s].op = req[s].op
      /\ req'[s].fd = req[s].fd /\ req'[s].owner = req[s].owner
      /\ req'[s].result = x /\ req'[s].out_len \in {0, 1}
      /\ req'[s].done = req[s].done /\ req'[s].call = req[s].call
      /\ \A y \in Slot \ {s} : req'[y] = req[y]
  <2>1. PICK o \in {0, 1} : o = worker.out
    BY DEF VInv, VType, Hands
  <2>2. req[s] \in Request /\ req'[s] = [req[s] EXCEPT !.out_len = o, !.result = x]
    BY <1>4, <2>1 DEF VInv, VType
  <2>3. \A y \in Slot \ {s} : req'[y] = req[y]
    BY <1>4 DEF VInv, VType
  <2>4. /\ req'[s] \in Request
        /\ req'[s].used = req[s].used /\ req'[s].queued = req[s].queued
        /\ req'[s].op = req[s].op
        /\ req'[s].fd = req[s].fd /\ req'[s].owner = req[s].owner
        /\ req'[s].result = x /\ req'[s].out_len = o
        /\ req'[s].done = req[s].done /\ req'[s].call = req[s].call
    <3>1. PICK r : r = req'[s]
      OBVIOUS
    <3>2. PICK q \in Request : q = req[s]
      BY <2>2
    <3>3. r = [q EXCEPT !.out_len = o, !.result = x]
      BY <2>2, <3>1, <3>2
    <3>4. /\ r \in Request
          /\ r.used = q.used /\ r.queued = q.queued /\ r.op = q.op /\ r.fd = q.fd
          /\ r.owner = q.owner /\ r.result = x /\ r.out_len = o
          /\ r.done = q.done /\ r.call = q.call
      BY <1>3, <2>1, <3>2, <3>3 DEF Request
    <3>5. QED
      BY <3>1, <3>2, <3>4
  <2>5. QED
    BY <2>1, <2>3, <2>4
<1>6. worker' \in Hands /\ worker'.at = "give" /\ worker'.slot = s
  BY <1>2, <1>4 DEF VInv, VType, Hands
<1>7. PICK t \in User : /\ t = req[s].owner /\ user[t].slot = s /\ user[t].at = "wait"
                        /\ req[s].call = <<t, user[t].n>>
  <2>1. PICK t \in User : t = req[s].owner /\ user[t].slot = s /\ UserOk(t)
    BY <1>2 DEF VInv, VType, Request, SlotOk
  <2>2. user[t].at \in {"wait", "finish"}
    BY <1>1, <2>1, Positions DEF VInv, VType, Asker, UserOk
  <2>3. QED
    BY <1>2, <2>1, <2>2 DEF UserOk
<1>8. Answered(s)' /\ x.by = <<t, user[t].n>>
  <2>1. x.by = <<t, user[t].n>> /\ user[t].n \in {0, 1}
    BY <1>2, <1>3, <1>7 DEF VInv, VType, Asker
  <2>2. x # NoResult
    BY <1>1, <2>1, Positions
  <2>3. QED
    BY <1>5, <2>1, <2>2 DEF Answered
<1>9. VType' /\ WorkerOk'
  BY <1>2, <1>4, <1>5, <1>6, <1>8 DEF VInv, VType, WorkerOk
<1>10. ASSUME NEW u \in User PROVE UserOk(u)'
  <2>1. UserOk(u) /\ user' = user
    BY <1>4 DEF VInv
  <2>2. CASE u = t
    BY ZenonT(40), <1>2, <1>5, <1>7, <1>8, <2>1, <2>2 DEF UserOk
  <2>3. CASE u # t
    <3>1. user[u].at \in {"wait", "finish"} => user[u].slot \in Slot \ {s}
      BY <1>1, <1>7, <2>1, <2>3, Positions DEF VInv, VType, Asker, UserOk
    <3>2. user[u].at = "finish" => worker'.slot # user[u].slot
      BY <1>6, <3>1
    <3>3. QED
      BY <1>5, <2>1, <3>1, <3>2, UserFrame
  <2>4. QED
    BY <2>2, <2>3
<1>11. ASSUME NEW y \in Slot PROVE SlotOk(y)'
  <2>1. CASE y = s
    <3>1. /\ req'[s].used /\ ~req'[s].queued /\ req'[s].owner = t /\ user'[t].slot = s
          /\ Answered(s)' /\ t # NULL
      BY <1>1, <1>2, <1>4, <1>5, <1>7, <1>8, Positions
    <3>2. SlotOk(s)'
      BY <3>1 DEF SlotOk
    <3>3. QED
      BY <2>1, <3>2
  <2>2. CASE y # s
    <3>1. req'[y] = req[y] /\ SlotOk(y) /\ ~InHand(y) /\ ~InHand(y)'
      BY <1>2, <1>5, <1>6, <2>2 DEF VInv, InHand
    <3>2. QED
      BY <1>4, <3>1 DEF SlotOk, Answered
  <2>3. QED
    BY <2>1, <2>2
<1>12. ASSUME NEW f \in File PROVE FileOk(f)'
  <2>1. FileOk(f) /\ handle' = handle /\ user' = user /\ worker.at = "post"
    BY <1>2, <1>4 DEF VInv
  <2>2. req[s].result.val # f
    BY <1>1, <1>2, Positions DEF Answered
  <2>3. SUFFICES ASSUME handle[f].used PROVE FileOk(f)'
    BY <2>1 DEF FileOk
  <2>4. CASE handle[f].owner # NULL /\ user[handle[f].owner].at # "dead"
    BY <2>1, <2>4 DEF FileOk
  <2>5. ASSUME NEW y \in Slot, req[y].queued, req[y].op = "close", req[y].fd = f PROVE FileOk(f)'
    BY <1>2, <1>5, <2>5 DEF FileOk
  <2>6. ASSUME NEW y \in Slot, req[y].result.val = f, req[y].op = "open" PROVE FileOk(f)'
    BY <1>5, <2>2, <2>6 DEF FileOk
  <2>7. CASE worker.op = "open" /\ worker.res = f
    <3>1. req'[s].result.val = f /\ req'[s].op = "open"
      BY <1>2, <1>3, <1>5, <2>7
    <3>2. QED
      BY <3>1 DEF FileOk
  <2>8. QED
    BY <2>1, <2>3, <2>4, <2>5, <2>6, <2>7 DEF FileOk
<1>13. QED
  BY <1>9, <1>10, <1>11, <1>12 DEF VInv

\* The worker gives the signal.
LEMMA GiveKeeps ==
    ASSUME Patient, VInv, GiveDone
    PROVE  VInv'
<1>1. VfsBounds
  BY DEF Patient
<1>2. PICK s \in Slot : s = worker.slot /\ worker.at = "give" /\ Answered(s) /\ req[s].used
  BY DEF GiveDone, VInv, WorkerOk
<1>3. /\ req' = [req EXCEPT ![s].done = 1] /\ worker' = Resting
      /\ UNCHANGED <<handle, work_sem, user>>
  BY <1>2 DEF GiveDone
<1>4. /\ req'[s] \in Request /\ SameCall(s) /\ SameWork(s) /\ req'[s].out_len = req[s].out_len
      /\ \A y \in Slot \ {s} : req'[y] = req[y]
  <2>1. req[s] \in Request /\ req'[s] = [req[s] EXCEPT !.done = 1]
    BY <1>3 DEF VInv, VType
  <2>2. \A y \in Slot \ {s} : req'[y] = req[y]
    BY <1>3 DEF VInv, VType
  <2>3. 1 \in {0, 1}
    OBVIOUS
  <2>4. /\ req'[s] \in Request
        /\ req'[s].used = req[s].used /\ req'[s].queued = req[s].queued
        /\ req'[s].op = req[s].op /\ req'[s].fd = req[s].fd
        /\ req'[s].owner = req[s].owner /\ req'[s].result = req[s].result
        /\ req'[s].out_len = req[s].out_len /\ req'[s].call = req[s].call
    BY <2>1, <2>3, Signal
  <2>5. QED
    BY <2>2, <2>4 DEF SameCall, SameWork
<1>5. worker' \in Hands /\ worker'.at = "take"
  BY <1>1, <1>3, Records DEF Resting
<1>6. VType' /\ WorkerOk'
  BY <1>3, <1>4, <1>5 DEF VInv, VType, WorkerOk
<1>7. ASSUME NEW u \in User PROVE UserOk(u)'
  <2>1. UserOk(u) /\ user' = user
    BY <1>3 DEF VInv
  <2>2. user[u].at \in {"wait", "finish"} => user[u].slot \in Slot
    BY <1>1, <2>1, Positions DEF VInv, VType, Asker, UserOk
  <2>3. \A y \in Slot : SameCall(y)
    BY <1>4 DEF SameCall
  <2>4. user[u].at = "finish" => user[u].slot # s
    BY <1>2, <2>1 DEF UserOk, InHand
  <2>5. user[u].at = "finish" => req'[user[u].slot].done = req[user[u].slot].done
    BY <1>4, <2>2, <2>4
  <2>6. QED
    BY <1>5, <2>1, <2>2, <2>3, <2>5, CallFrame
<1>8. ASSUME NEW y \in Slot PROVE SlotOk(y)'
  <2>1. CASE y = s
    <3>1. SlotOk(s) /\ user' = user /\ ~InHand(s)'
      BY <1>3, <1>5 DEF VInv, InHand
    <3>2. Answered(s)'
      BY <1>2, <1>4 DEF Answered, SameCall
    <3>3. QED
      BY <1>2, <1>4, <2>1, <3>1, <3>2 DEF SlotOk, SameCall, SameWork
  <2>2. CASE y # s
    <3>1. req'[y] = req[y] /\ SlotOk(y) /\ ~InHand(y) /\ ~InHand(y)'
      BY <1>2, <1>4, <1>5, <2>2 DEF VInv, InHand
    <3>2. QED
      BY <1>3, <3>1 DEF SlotOk, Answered
  <2>3. QED
    BY <2>1, <2>2
<1>9. ASSUME NEW f \in File PROVE FileOk(f)'
  <2>1. FileOk(f) /\ handle' = handle /\ user' = user /\ worker.at = "give"
    BY <1>2, <1>3 DEF VInv
  <2>2. \A y \in Slot : req'[y].queued = req[y].queued /\ req'[y].op = req[y].op
                        /\ req'[y].fd = req[y].fd /\ req'[y].result = req[y].result
    BY <1>4 DEF SameWork
  <2>3. QED
    BY <2>1, <2>2 DEF FileOk
<1>10. QED
  BY <1>6, <1>7, <1>8, <1>9 DEF VInv
------------------------------------------------------------------------------
(* The death of a task *)

\* The files of a task and the free slots are sets of positions, and a free slot is
\* given one file at most.
LEMMA OneFile ==
    ASSUME VfsBounds, NEW t, NEW s \in Slot
    PROVE  /\ OwnFiles(t) \in SUBSET File /\ CloseIn(t, s) \in SUBSET OwnFiles(t)
           /\ \A f, g \in CloseIn(t, s) : f = g
           /\ CloseIn(t, s) # {} => First(CloseIn(t, s)) \in CloseIn(t, s) /\ s \in FreeSlots
<1>1. Cardinality(File) \in Nat /\ File = 1..Cardinality(File)
  BY DEF VfsBounds
<1>2. OwnFiles(t) \in SUBSET File /\ CloseIn(t, s) \in SUBSET OwnFiles(t)
  BY DEF OwnFiles, CloseIn
<1>3. OwnFiles(t) \in SUBSET (1..Cardinality(File))
      /\ CloseIn(t, s) \in SUBSET (1..Cardinality(File))
  BY <1>1, <1>2
<1>4. \A f, g \in OwnFiles(t) : Place(OwnFiles(t), f) = Place(OwnFiles(t), g) => f = g
  BY <1>1, <1>3, PlaceApart
<1>5. \A f, g \in CloseIn(t, s) : f = g
  BY <1>4 DEF CloseIn
<1>6. CloseIn(t, s) # {} => First(CloseIn(t, s)) \in CloseIn(t, s)
  BY <1>1, <1>3, Least
<1>7. CloseIn(t, s) # {} => s \in FreeSlots
  BY DEF CloseIn
<1>8. QED
  BY <1>2, <1>5, <1>6, <1>7

\* The slot of a dying task: it has a request to be answered, that opens nothing.
LEMMA DyingSlot ==
    ASSUME Patient, VInv, NEW t \in User, v_vfs_task_teardown(t),
           NEW x \in Slot, req[x].owner = t
    PROVE  /\ x = user[t].slot /\ req[x].used /\ req[x].op # "open" /\ ~Answered(x)
           /\ req[x].out_len = 0
<1>1. VfsBounds /\ KillAt \subseteq {"ready", "waiting"}
  BY DEF Patient
<1>2. SlotOk(x) /\ UserOk(t) /\ t # NULL
  BY <1>1, Positions DEF VInv
<1>3. user[t].slot = x /\ x # 0
  BY <1>1, <1>2, Positions DEF SlotOk
<1>4. user[t].at \notin {"ready", "dead"} /\ user[t].at \in {"ready", "wait", "finish", "dead"}
  BY <1>2, <1>3 DEF UserOk, VInv, VType, Asker
<1>5. req[x].used
  BY <1>2, <1>3, <1>4 DEF UserOk
<1>6. Doing(t) \in {"ready", "waiting"}
  BY <1>1 DEF v_vfs_task_teardown
<1>7. Doing(t) = IF Answered(x) THEN "answered"
                 ELSE IF req[x].op = "open" THEN "opening" ELSE "waiting"
  BY <1>3, <1>4 DEF Doing, Answered
<1>8. ~Answered(x) /\ req[x].op # "open"
  BY <1>6, <1>7
<1>9. QED
  BY <1>2, <1>3, <1>5, <1>8 DEF SlotOk

\* What becomes of a slot: a close is put in, its task has left it, or nothing.
GivenClose(t, x) ==
    /\ CloseIn(t, x) # {} /\ ~req[x].used
    /\ req'[x].used /\ req'[x].queued /\ req'[x].op = "close" /\ req'[x].owner = NULL
    /\ req'[x].fd = First(CloseIn(t, x))
    /\ req'[x].result = NoResult /\ req'[x].done = 0 /\ req'[x].out_len = 0

LeftBehind(t, x) ==
    /\ CloseIn(t, x) = {} /\ req[x].owner = t /\ req[x].used /\ req[x].op # "open" /\ ~Answered(x)
    /\ SameWork(x) /\ req'[x].used /\ req'[x].owner = NULL /\ req'[x].done = req[x].done
    /\ req'[x].out_len = req[x].out_len /\ req'[x].call = req[x].call

LEMMA TornSlot ==
    ASSUME Patient, VInv, NEW t \in User, v_vfs_task_teardown(t), NEW x \in Slot
    PROVE  /\ req'[x] \in Request
           /\ \/ GivenClose(t, x)
              \/ LeftBehind(t, x)
              \/ CloseIn(t, x) = {} /\ req[x].owner # t /\ req'[x] = req[x]
<1>1. VfsBounds
  BY DEF Patient
<1>2. PICK q \in Request : q = req[x]
  BY DEF VInv, VType
<1>3. PICK r : r = req'[x]
  OBVIOUS
<1>4. r = IF CloseIn(t, x) # {}
          THEN [q EXCEPT !.used = TRUE, !.queued = TRUE, !.op = "close",
                         !.fd = First(CloseIn(t, x)), !.out_len = 0, !.owner = NULL,
                         !.result = NoResult, !.call = NoCall]
          ELSE IF q.used /\ q.owner = t THEN Orphaned(q) ELSE q
  BY <1>2, <1>3 DEF v_vfs_task_teardown
<1>5. CASE CloseIn(t, x) # {}
  <2>1. PICK f \in File : f = First(CloseIn(t, x))
    BY <1>1, <1>5, OneFile
  <2>2. x \in FreeSlots /\ SlotOk(x)
    BY <1>1, <1>5, OneFile DEF VInv
  <2>3. r = [q EXCEPT !.used = TRUE, !.queued = TRUE, !.op = "close", !.fd = f, !.out_len = 0,
                      !.owner = NULL, !.result = NoResult, !.call = NoCall]
    BY <1>4, <1>5, <2>1
  <2>4. f \in File \cup {0}
    BY <2>1
  <2>5. /\ r \in Request
        /\ r.used /\ r.queued /\ r.op = "close" /\ r.fd = f /\ r.owner = NULL
        /\ r.result = NoResult /\ r.out_len = 0 /\ r.done = q.done
    <3>1. NoResult \in Results /\ NoCall \in Calls
      BY <1>1, Records
    <3>2. "close" \in Op /\ 0 \in {0, 1}
      BY DEF Op
    <3>3. QED
      BY <1>2, <2>3, <2>4, <3>1, <3>2 DEF Request
  <2>6. ~req[x].used /\ q.done = 0
    BY <1>2, <2>2 DEF FreeSlots, SlotOk
  <2>7. QED
    BY <1>3, <1>5, <2>1, <2>5, <2>6 DEF GivenClose
<1>6. CASE CloseIn(t, x) = {} /\ q.owner = t
  <2>1. q.used /\ q.op # "open" /\ ~Answered(x) /\ q.out_len = 0
    BY <1>2, <1>6, DyingSlot
  <2>2. r = [q EXCEPT !.owner = NULL]
    BY <1>4, <1>6, <2>1 DEF Orphaned
  <2>3. /\ r \in Request
        /\ r.used = q.used /\ r.queued = q.queued /\ r.op = q.op /\ r.fd = q.fd
        /\ r.owner = NULL /\ r.result = q.result /\ r.out_len = q.out_len
        /\ r.done = q.done /\ r.call = q.call
    BY <2>2, Abandoning
  <2>4. QED
    BY <1>2, <1>3, <1>6, <2>1, <2>3 DEF LeftBehind, SameWork
<1>7. CASE CloseIn(t, x) = {} /\ q.owner # t
  BY <1>2, <1>3, <1>4, <1>7
<1>8. QED
  BY <1>5, <1>6, <1>7

\* A task dies: its files are closed or handed over, its request is left behind.
LEMMA TeardownKeeps ==
    ASSUME Patient, VInv, NEW t \in User, v_vfs_task_teardown(t)
    PROVE  VInv'
<1>1. VfsBounds
  BY DEF Patient
<1> DEFINE sent == UNION {CloseIn(t, s) : s \in Slot}
           spot == OwnFiles(t) \ sent
<1>2. /\ handle' = [f \in File |->
             IF f \in spot THEN [used |-> FALSE, owner |-> NULL]
             ELSE IF f \in OwnFiles(t) THEN [handle[f] EXCEPT !.owner = NULL] ELSE handle[f]]
      /\ work_sem' = WorkAfter(Cardinality(sent))
      /\ user' = [user EXCEPT ![t].at = "dead", ![t].slot = 0]
      /\ worker' = worker
  BY DEF v_vfs_task_teardown
<1>3. sent \in SUBSET File
  BY <1>1, OneFile
<1> HIDE DEF sent
<1>4. /\ user'[t].at = "dead" /\ user'[t].slot = 0 /\ user'[t].answer = user[t].answer
      /\ user'[t] \in Asker /\ \A u \in User \ {t} : user'[u] = user[u]
  BY <1>2 DEF VInv, VType, Asker
<1>5. /\ req' \in [Slot -> Request]
      /\ \A x \in Slot : \/ GivenClose(t, x)
                         \/ LeftBehind(t, x)
                         \/ CloseIn(t, x) = {} /\ req[x].owner # t /\ req'[x] = req[x]
  <2>1. req' = [x \in Slot |-> req'[x]]
    BY DEF v_vfs_task_teardown
  <2>2. QED
    BY <2>1, TornSlot
<1>6. VType'
  <2>1. handle' \in [File -> [used : BOOLEAN, owner : User \cup {NULL}]]
    BY <1>2 DEF VInv, VType
  <2>2. Cardinality(sent) \in Nat /\ Cardinality(Slot) \in Nat
    BY <1>1, <1>3, FinitePart DEF VfsBounds
  <2>3. work_sem' \in 0..Cardinality(Slot)
    BY <1>2, <2>2 DEF VInv, VType, WorkAfter
  <2>4. user' \in [User -> Asker]
    BY <1>2, <1>4 DEF VInv, VType
  <2>5. QED
    BY <1>2, <1>5, <2>1, <2>3, <2>4 DEF VInv, VType
<1>7. ASSUME NEW u \in User PROVE UserOk(u)'
  <2>1. UserOk(u)
    BY DEF VInv
  <2>2. CASE u = t
    BY <1>4, <2>1, <2>2 DEF UserOk
  <2>3. CASE u # t
    <3>1. user[u].at \in {"wait", "finish"} => user[u].slot \in Slot
      BY <1>1, <2>1, Positions DEF VInv, VType, Asker, UserOk
    <3>2. user[u].at \in {"wait", "finish"}
            => req[user[u].slot].used /\ req[user[u].slot].owner # t
      BY <2>1, <2>3 DEF UserOk
    <3>3. user[u].at \in {"wait", "finish"} => req'[user[u].slot] = req[user[u].slot]
      BY <1>5, <3>1, <3>2 DEF GivenClose, LeftBehind
    <3>4. user[u].at = "finish"
            => worker'.slot # user[u].slot \/ worker'.at \in {"take", "pick"}
      BY <1>2, <2>1 DEF UserOk, InHand
    <3>5. QED
      BY <1>4, <2>1, <2>3, <3>3, <3>4, UserFrame
  <2>4. QED
    BY <2>2, <2>3
<1>8. ASSUME NEW x \in Slot PROVE SlotOk(x)'
  <2>1. SlotOk(x) /\ (InHand(x)' <=> InHand(x)) /\ (InHand(x) => req[x].used)
    BY <1>2 DEF VInv, WorkerOk, InHand
  <2>2. CASE GivenClose(t, x)
    BY <2>1, <2>2 DEF SlotOk, Answered, GivenClose
  <2>3. CASE LeftBehind(t, x)
    BY <2>1, <2>3 DEF SlotOk, Answered, LeftBehind, SameWork
  <2>4. CASE req[x].owner # t /\ req'[x] = req[x]
    <3>1. req[x].owner # NULL => user'[req[x].owner] = user[req[x].owner]
      BY <1>4, <2>4 DEF VInv, VType, Request
    <3>2. QED
      BY <2>1, <2>4, <3>1 DEF SlotOk, Answered
  <2>5. QED
    BY <1>5, <2>2, <2>3, <2>4
<1>9. WorkerOk'
  <2>1. CASE worker.at \in {"take", "pick"}
    BY <1>2, <2>1 DEF WorkerOk
  <2>2. CASE worker.at \notin {"take", "pick"}
    <3>1. PICK s \in Slot : s = worker.slot /\ req[s].used
      BY <2>2 DEF VInv, WorkerOk
    <3>2. /\ req'[s].used = req[s].used /\ req'[s].queued = req[s].queued
          /\ req'[s].done = req[s].done /\ req'[s].op = req[s].op /\ req'[s].call = req[s].call
          /\ req'[s].result = req[s].result
      BY <1>5, <3>1 DEF GivenClose, LeftBehind, SameWork
    <3>3. QED
      BY <1>2, <3>1, <3>2 DEF VInv, WorkerOk, Answered
  <2>3. QED
    BY <2>1, <2>2
<1>10. ASSUME NEW f \in File PROVE FileOk(f)'
  <2>1. FileOk(f) /\ handle[f] \in [used : BOOLEAN, owner : User \cup {NULL}]
    BY DEF VInv, VType
  <2>2. CASE f \in spot
    BY <1>2, <2>2 DEF FileOk
  <2>3. CASE f \in sent
    <3>1. PICK s \in Slot : f \in CloseIn(t, s)
      BY <2>3 DEF sent
    <3>2. GivenClose(t, s) /\ f = First(CloseIn(t, s))
      BY <1>1, <1>5, <3>1, OneFile DEF LeftBehind
    <3>3. req'[s].queued /\ req'[s].op = "close" /\ req'[s].fd = f
      BY <3>2 DEF GivenClose
    <3>4. QED
      BY <3>3 DEF FileOk
  <2>4. CASE f \notin OwnFiles(t)
    <3>1. f \notin spot /\ handle'[f] = handle[f]
      BY <1>2, <2>4
    <3>2. CASE ~handle[f].used
      BY <3>1, <3>2 DEF FileOk
    <3>3. CASE handle[f].used
      <4>1. handle[f].owner # t
        BY <2>4, <3>3 DEF OwnFiles
      <4>2. handle[f].owner # NULL /\ user[handle[f].owner].at # "dead"
              => user'[handle[f].owner].at # "dead"
        BY <1>4, <2>1, <4>1
      <4>3. worker.at = "exec" => worker.slot \in Slot /\ req[worker.slot].used
        BY DEF VInv, WorkerOk
      <4>4. ASSUME NEW x \in Slot, \/ req[x].queued
                                   \/ req[x].result.val = f /\ req[x].op = "open"
                                   \/ worker.at = "exec" /\ worker.slot = x
            PROVE  SameWork(x)
        <5>1. SlotOk(x) /\ NoResult.val # f
          BY <1>1, Positions DEF VInv
        <5>2. req[x].used
          BY <4>3, <4>4, <5>1 DEF SlotOk, Answered
        <5>3. ~GivenClose(t, x)
          BY <5>2 DEF GivenClose
        <5>4. QED
          BY <1>5, <5>3 DEF LeftBehind, SameWork
      <4>5. QED
        BY <1>2, <2>1, <3>1, <4>2, <4>3, <4>4, FileFrame
    <3>4. QED
      BY <3>2, <3>3
  <2>5. QED
    BY <2>2, <2>3, <2>4
<1>11. QED
  BY <1>6, <1>7, <1>8, <1>9, <1>10 DEF VInv
------------------------------------------------------------------------------
(* The count of the requests *)

\* The queued requests are finite in number, and there are no more than slots.
LEMMA QueuedFinite ==
    ASSUME VfsBounds
    PROVE  /\ IsFiniteSet(Queued) /\ Cardinality(Queued) \in 0..Cardinality(Slot)
           /\ IsFiniteSet(Queued') /\ Cardinality(Queued') \in 0..Cardinality(Slot)
<1>1. Slot = 1..Cardinality(Slot) /\ Cardinality(Slot) \in Nat
  BY DEF VfsBounds
<1>2. Queued \in SUBSET Slot /\ Queued' \in SUBSET Slot
  BY DEF Queued
<1>3. Queued \in SUBSET (1..Cardinality(Slot)) /\ Queued' \in SUBSET (1..Cardinality(Slot))
  BY <1>1, <1>2
<1>4. QED
  BY <1>1, <1>3, FinitePart

\* A step that queues nothing and takes no signal forgets nothing.
LEMMA NoneForgotten ==
    ASSUME VfsBounds, VInv, NoForgottenRequest,
           \A x \in Slot : req'[x].used /\ req'[x].queued => req[x].used /\ req[x].queued,
           work_sem' = work_sem, worker.at = "pick" => worker'.at = "pick"
    PROVE  NoForgottenRequest'
<1>1. Queued' \in SUBSET Queued
  BY DEF Queued
<1>2. IsFiniteSet(Queued) /\ Cardinality(Queued) \in Int /\ Cardinality(Queued') \in Int
  BY QueuedFinite
<1>3. Cardinality(Queued') <= Cardinality(Queued)
  BY <1>1, <1>2, FS_Subset
<1>4. QED
  BY <1>2, <1>3 DEF NoForgottenRequest, VInv, VType

\* A request is counted when it is made.
LEMMA SubmitCounts ==
    ASSUME VfsBounds, VInv, NoForgottenRequest, NEW t, NEW op, NEW fd, v_vfs_submit(t, op, fd)
    PROVE  NoForgottenRequest'
<1>1. PICK s : s = First(FreeSlots)
  OBVIOUS
<1>2. worker' = worker /\ work_sem' = WorkAfter(1) /\ \A x \in Slot \ {s} : req'[x] = req[x]
  BY <1>1 DEF v_vfs_submit, VInv, VType
<1>3. Queued' \in SUBSET (Queued \cup {s})
  BY <1>2 DEF Queued
<1>4. /\ IsFiniteSet(Queued) /\ Cardinality(Queued) \in 0..Cardinality(Slot)
      /\ Cardinality(Queued') \in 0..Cardinality(Slot) /\ Cardinality(Slot) \in Nat
  BY QueuedFinite DEF VfsBounds
<1>5. IsFiniteSet(Queued \cup {s}) /\ Cardinality(Queued \cup {s}) <= Cardinality(Queued) + 1
  <2>1. /\ IsFiniteSet(Queued \cup {s})
        /\ Cardinality(Queued \cup {s})
             = IF s \in Queued THEN Cardinality(Queued) ELSE Cardinality(Queued) + 1
    BY <1>4, FS_AddElement
  <2>2. QED
    BY <1>4, <2>1
<1>6. Cardinality(Queued') <= Cardinality(Queued \cup {s})
  BY <1>3, <1>5, FS_Subset
<1>7. Cardinality(Queued \cup {s}) \in Int
  BY <1>5, FS_CardinalityType
<1>8. Cardinality(Queued') <= Cardinality(Queued) + 1
  BY <1>4, <1>5, <1>6, <1>7
<1>9. work_sem' = work_sem + 1 \/ work_sem' = Cardinality(Slot)
  BY <1>2 DEF WorkAfter
<1>10. work_sem \in Int
  BY <1>4 DEF VInv, VType
<1>11. Cardinality(Queued) <= work_sem + (IF worker.at = "pick" THEN 1 ELSE 0)
  BY DEF NoForgottenRequest
<1>12. CASE worker.at = "pick"
  BY <1>2, <1>4, <1>8, <1>9, <1>10, <1>11, <1>12 DEF NoForgottenRequest
<1>13. CASE worker.at # "pick"
  BY <1>2, <1>4, <1>8, <1>9, <1>10, <1>11, <1>13 DEF NoForgottenRequest
<1>14. QED
  BY <1>12, <1>13

\* The closes of a dead task's files are counted: there is a slot for each at most.
LEMMA TeardownCounts ==
    ASSUME Patient, VInv, NoForgottenRequest, NEW t \in User, v_vfs_task_teardown(t)
    PROVE  NoForgottenRequest'
<1> DEFINE sent == UNION {CloseIn(t, s) : s \in Slot}
           given == {x \in Slot : CloseIn(t, x) # {}}
           file == [x \in given |-> First(CloseIn(t, x))]
<1>1. VfsBounds /\ Cardinality(Slot) \in Nat /\ Cardinality(File) \in Nat
  BY DEF Patient, VfsBounds
<1>2. worker' = worker /\ work_sem' = WorkAfter(Cardinality(sent))
  BY DEF v_vfs_task_teardown
<1>3. sent \in SUBSET File /\ IsFiniteSet(sent) /\ Cardinality(sent) \in Nat
  <2>1. sent \in SUBSET File
    BY <1>1, OneFile
  <2>2. sent \in SUBSET (1..Cardinality(File))
    BY <1>1, <2>1 DEF VfsBounds
  <2> HIDE DEF sent
  <2>3. IsFiniteSet(sent) /\ Cardinality(sent) \in 0..Cardinality(File)
    BY <1>1, <2>2, FinitePart
  <2>4. QED
    BY <1>1, <2>1, <2>3
<1>4. file \in Injection(given, sent)
  <2>1. \A x \in given : First(CloseIn(t, x)) \in CloseIn(t, x) /\ x \in FreeSlots
    BY <1>1, OneFile
  <2>2. file \in [given -> sent]
    BY <2>1
  <2>3. \A x, y \in FreeSlots : Place(FreeSlots, x) = Place(FreeSlots, y) => x = y
    <3>1. FreeSlots \in SUBSET (1..Cardinality(Slot))
      BY <1>1 DEF VfsBounds, FreeSlots
    <3>2. QED
      BY <1>1, <3>1, PlaceApart
  <2>4. ASSUME NEW x \in given, NEW y \in given, file[x] = file[y] PROVE x = y
    <3>1. PICK f : f \in CloseIn(t, x) /\ f \in CloseIn(t, y)
      BY <2>1, <2>4
    <3>2. Place(FreeSlots, x) = Place(FreeSlots, y)
      BY <3>1 DEF CloseIn
    <3>3. QED
      BY <2>1, <2>3, <3>2
  <2> HIDE DEF file
  <2>5. QED
    BY <2>2, <2>4 DEF Injection, IsInjective
<1> HIDE DEF file, sent
<1>5. IsFiniteSet(given) /\ Cardinality(given) <= Cardinality(sent) /\ Cardinality(given) \in Nat
  <2>1. IsFiniteSet(given) /\ Cardinality(given) <= Cardinality(sent)
    BY <1>3, <1>4, FS_Injection
  <2>2. QED
    BY <2>1, FS_CardinalityType
<1>6. Queued' \in SUBSET (Queued \cup given)
  <2> SUFFICES ASSUME NEW x \in Slot, req'[x].queued, CloseIn(t, x) = {}
               PROVE  x \in Queued
    BY DEF Queued
  <2>1. req[x].queued
    BY TornSlot DEF GivenClose, LeftBehind, SameWork
  <2>2. QED
    BY <2>1 DEF Queued, VInv, SlotOk
<1> HIDE DEF given
<1>7. /\ IsFiniteSet(Queued) /\ Cardinality(Queued) \in 0..Cardinality(Slot)
      /\ Cardinality(Queued') \in 0..Cardinality(Slot)
  BY <1>1, QueuedFinite
<1>8. Cardinality(Queued') <= Cardinality(Queued) + Cardinality(sent)
  <2>1. /\ IsFiniteSet(Queued \cup given)
        /\ Cardinality(Queued \cup given)
             = Cardinality(Queued) + Cardinality(given) - Cardinality(Queued \cap given)
    BY <1>5, <1>7, FS_Union
  <2>2. Cardinality(Queued') <= Cardinality(Queued \cup given)
    BY <1>6, <2>1, FS_Subset
  <2>3. Cardinality(Queued \cap given) \in Nat
    <3>1. Queued \cap given \in SUBSET Queued
      OBVIOUS
    <3>2. QED
      BY <1>7, <3>1, FS_Subset, FS_CardinalityType
  <2>4. QED
    BY <1>3, <1>5, <1>7, <2>1, <2>2, <2>3
<1>9. work_sem' = work_sem + Cardinality(sent) \/ work_sem' = Cardinality(Slot)
  BY <1>2 DEF WorkAfter
<1>10. work_sem \in Int
  BY <1>1 DEF VInv, VType
<1>11. Cardinality(Queued) <= work_sem + (IF worker.at = "pick" THEN 1 ELSE 0)
  BY DEF NoForgottenRequest
<1>12. CASE worker.at = "pick"
  BY <1>1, <1>2, <1>3, <1>7, <1>8, <1>9, <1>10, <1>11, <1>12 DEF NoForgottenRequest
<1>13. CASE worker.at # "pick"
  BY <1>1, <1>2, <1>3, <1>7, <1>8, <1>9, <1>10, <1>11, <1>13 DEF NoForgottenRequest
<1>14. QED
  BY <1>12, <1>13

\* The worker takes a signal, and then the request it is for, or sees there is none.
LEMMA TakeCounts ==
    ASSUME VfsBounds, VInv, NoForgottenRequest, TakeWork \/ PickRequest
    PROVE  NoForgottenRequest'
<1>1. IsFiniteSet(Queued) /\ Cardinality(Queued) \in Nat
  BY QueuedFinite DEF VfsBounds
<1>2. work_sem \in Nat
  BY DEF VInv, VType, VfsBounds
<1>3. CASE TakeWork
  <2>1. worker'.at = "pick" /\ worker.at = "take" /\ work_sem' = work_sem - 1 /\ Queued' = Queued
    BY <1>3 DEF TakeWork, VInv, VType, Hands, Queued
  <2>2. QED
    BY <1>1, <1>2, <2>1 DEF NoForgottenRequest
<1>4. CASE PickRequest /\ Queued = {}
  <2>1. worker'.at # "pick" /\ work_sem' = work_sem /\ Queued' = {}
    BY <1>4 DEF PickRequest, Resting, Queued
  <2>2. QED
    BY <1>2, <2>1, FS_EmptySet DEF NoForgottenRequest
<1>5. CASE PickRequest /\ Queued # {}
  <2>1. PICK s \in Queued : s = Picked
    BY <1>5, Firsts DEF Picked
  <2>2. /\ req' = [req EXCEPT ![s].queued = FALSE] /\ work_sem' = work_sem
        /\ worker.at = "pick" /\ worker'.at = "exec"
    BY <1>5, <2>1 DEF PickRequest, VInv, VType, Hands
  <2>3. s \in Slot /\ ~req'[s].queued /\ \A x \in Slot \ {s} : req'[x] = req[x]
    BY <2>1, <2>2 DEF VInv, VType, Request, Queued
  <2>4. Queued' = Queued \ {s}
    BY <2>3 DEF Queued
  <2>5. Cardinality(Queued') = Cardinality(Queued) - 1
    BY <1>1, <2>1, <2>4, FS_RemoveElement
  <2>6. QED
    BY <1>1, <1>2, <2>2, <2>5 DEF NoForgottenRequest
<1>6. QED
  BY <1>3, <1>4, <1>5
------------------------------------------------------------------------------
(* The steps together *)

\* The system starts with every slot free and no request.
LEMMA VfsStarts ==
    ASSUME VfsBounds, VfsInit
    PROVE  VInv /\ NoForgottenRequest /\ ~clash
<1>1. Cardinality(Slot) \in Nat /\ 0 \in {0, 1}
  BY DEF VfsBounds
<1>2. FreeSlot(0) \in Request /\ Resting \in Hands
  BY <1>1, Records
<1>3. /\ req = [s \in Slot |-> FreeSlot(0)] /\ worker = Resting /\ work_sem = 0 /\ ~clash
      /\ handle = [f \in File |-> [used |-> FALSE, owner |-> NULL]]
      /\ user = [t \in User |-> [at |-> "ready", slot |-> 0, n |-> 0, answer |-> "none"]]
  BY DEF VfsInit
<1>4. VType
  BY <1>1, <1>2, <1>3 DEF VType, Asker
<1>5. worker.at = "take" /\ \A t \in User : user[t].at = "ready" /\ user[t].slot = 0
                                            /\ user[t].answer = "none"
  BY <1>3 DEF Resting
<1>6. \A s \in Slot : /\ ~req[s].used /\ ~req[s].queued /\ req[s].owner = NULL
                      /\ req[s].result = NoResult /\ req[s].done = 0 /\ req[s].out_len = 0
  BY <1>3 DEF FreeSlot
<1>7. WorkerOk /\ \A t \in User : UserOk(t)
  BY <1>5 DEF WorkerOk, UserOk
<1>8. \A s \in Slot : SlotOk(s)
  BY <1>6 DEF SlotOk, Answered
<1>9. \A f \in File : FileOk(f)
  BY <1>3 DEF FileOk
<1>10. Queued = {}
  BY <1>6 DEF Queued
<1>11. NoForgottenRequest
  BY <1>3, <1>5, <1>10, FS_EmptySet DEF NoForgottenRequest
<1>12. QED
  BY <1>3, <1>4, <1>7, <1>8, <1>9, <1>11 DEF VInv

\* Every step keeps the invariant.
LEMMA VfsKeeps ==
    ASSUME Patient, VInv, [VfsNext]_vfs_vars
    PROVE  VInv'
<1>1. ASSUME NEW t \in User, v_vfs_submit(t, "open", 0) PROVE VInv'
  BY <1>1, SubmitKeeps DEF Op
<1>2. ASSUME NEW t \in User, NEW op \in {"read", "close"}, NEW f \in File, v_vfs_submit(t, op, f)
      PROVE  VInv'
  <2>1. op \in Op /\ f \in File \cup {0}
    BY DEF Op
  <2>2. QED
    BY <1>2, <2>1, SubmitKeeps
<1>3. ASSUME PrivEnters \/ PrivLeaves \/ UNCHANGED vfs_vars PROVE VInv'
  <2>1. UNCHANGED <<req, handle, user, worker, work_sem>>
    BY <1>3 DEF PrivEnters, PrivLeaves, vfs_vars
  <2>2. work_sem \in 0..Cardinality(Slot)
    BY DEF VInv, VType
  <2>3. QED
    BY <2>1, <2>2, RestKeeps
<1>4. QED
  BY <1>1, <1>2, <1>3, WaitKeeps, FinishKeeps, TeardownKeeps, TakeKeeps, PickKeeps,
     ExecuteKeeps, EnterKeeps, FsKeeps, ReleaseKeeps, PostKeeps, GiveKeeps DEF VfsNext

\* No step forgets a request.
LEMMA VfsCounts ==
    ASSUME Patient, VInv, NoForgottenRequest, [VfsNext]_vfs_vars
    PROVE  NoForgottenRequest'
<1>1. VfsBounds /\ ~Timeouts
  BY DEF Patient
<1>2. ASSUME NEW t \in User, v_vfs_wait(t) PROVE NoForgottenRequest'
  <2>1. PICK s : s = user[t].slot
    OBVIOUS
  <2>2. /\ req' = [req EXCEPT ![s].done = 0] /\ work_sem' = work_sem /\ worker' = worker
    BY <1>1, <1>2, <2>1 DEF v_vfs_wait
  <2>3. \A x \in Slot : req'[x].used = req[x].used /\ req'[x].queued = req[x].queued
    BY <2>2 DEF VInv, VType, Request
  <2>4. QED
    BY <1>1, <2>2, <2>3, NoneForgotten
<1>3. ASSUME NEW t \in User, v_vfs_finish(t) PROVE NoForgottenRequest'
  <2>1. PICK s : s = user[t].slot
    OBVIOUS
  <2>2. req' = [req EXCEPT ![s] = FreeSlot(@.done)] /\ work_sem' = work_sem /\ worker' = worker
    BY <1>3, <2>1 DEF v_vfs_finish
  <2>3. \A x \in Slot : req'[x] = req[x] \/ ~req'[x].used
    BY <2>2 DEF VInv, VType, FreeSlot
  <2>4. QED
    BY <1>1, <2>2, <2>3, NoneForgotten
<1>4. ASSUME Execute \/ WorkerEnters \/ (\E ok \in BOOLEAN : FsAnswers(ok)) \/ PrivEnters
             \/ PrivLeaves \/ UNCHANGED vfs_vars
      PROVE  NoForgottenRequest'
  <2>1. req' = req /\ work_sem' = work_sem /\ (worker.at # "pick" \/ worker' = worker)
    BY <1>4 DEF Execute, WorkerEnters, FsAnswers, PrivEnters, PrivLeaves, vfs_vars
  <2>2. QED
    BY <1>1, <2>1, NoneForgotten
<1>5. ASSUME PostResult \/ GiveDone PROVE NoForgottenRequest'
  <2>1. worker.at # "pick" /\ work_sem' = work_sem
    BY <1>5 DEF PostResult, GiveDone
  <2>2. PICK s : s = worker.slot
    OBVIOUS
  <2>3. CASE req' = [req EXCEPT ![s] = Abandoned(@)]
    <3>1. \A x \in Slot : req'[x] = req[x] \/ ~req'[x].used
      BY <2>3 DEF VInv, VType, Abandoned, FreeSlot
    <3>2. QED
      BY <1>1, <2>1, <3>1, NoneForgotten
  <2>4. CASE req' = [req EXCEPT ![s].out_len = worker.out,
                                ![s].result = [val |-> worker.res, by |-> worker.call]]
    <3>1. \A x \in Slot : req'[x].used = req[x].used /\ req'[x].queued = req[x].queued
      BY <2>4 DEF VInv, VType, Request
    <3>2. QED
      BY <1>1, <2>1, <3>1, NoneForgotten
  <2>5. CASE req' = [req EXCEPT ![s].done = 1]
    <3>1. \A x \in Slot : req'[x].used = req[x].used /\ req'[x].queued = req[x].queued
      BY <2>5 DEF VInv, VType, Request
    <3>2. QED
      BY <1>1, <2>1, <3>1, NoneForgotten
  <2>6. QED
    BY <1>5, <2>2, <2>3, <2>4, <2>5 DEF PostResult, GiveDone
<1>6. QED
  BY <1>1, <1>2, <1>3, <1>4, <1>5, SubmitCounts, TeardownCounts, TakeCounts DEF VfsNext
------------------------------------------------------------------------------
(* What it comes to *)

\* The invariant says what the calls, the slots and the handles are owed.
LEMMA VfsMeans ==
    ASSUME VfsBounds, VInv
    PROVE  AnswerMine /\ SlotsAccounted /\ FilesAccounted
<1>1. AnswerMine
  BY DEF VInv, UserOk, AnswerMine
<1>2. SlotsAccounted
  <2> SUFFICES ASSUME NEW s \in Slot, req[s].used, ~req[s].queued, ~InHand(s)
               PROVE  /\ req[s].owner # NULL /\ user[req[s].owner].slot = s
                      /\ user[req[s].owner].at # "dead"
    BY DEF SlotsAccounted
  <2>1. SlotOk(s) /\ s # 0
    BY Positions DEF VInv
  <2>2. PICK t \in User : t = req[s].owner /\ user[t].slot = s /\ req[s].owner # NULL
    BY <2>1 DEF SlotOk, VInv, VType, Request
  <2>3. user[t].at # "dead"
    BY <2>1, <2>2 DEF VInv, UserOk
  <2>4. QED
    BY <2>2, <2>3
<1>3. FilesAccounted
  <2> SUFFICES ASSUME NEW f \in File, handle[f].used,
                      handle[f].owner = NULL \/ user[handle[f].owner].at = "dead"
               PROVE  \/ \E s \in Queued : req[s].op = "close" /\ req[s].fd = f
                      \/ \E s \in Slot : InHand(s) /\ (worker.fd = f \/ req[s].fd = f)
                      \/ \E s \in Slot : req[s].used /\ req[s].result.val = f /\ req[s].op = "open"
    BY DEF FilesAccounted
  <2>1. FileOk(f) /\ f # NoResult.val
    BY Positions DEF VInv
  <2>2. \A s \in Slot : req[s].queued \/ req[s].result.val = f => req[s].used
    BY <2>1 DEF VInv, SlotOk, Answered
  <2>3. worker.at \notin {"take", "pick"} => worker.slot \in Slot /\ InHand(worker.slot)
    BY DEF VInv, WorkerOk, InHand
  <2>4. QED
    BY <2>1, <2>2, <2>3 DEF FileOk, Queued
<1>4. QED
  BY <1>1, <1>2, <1>3

\* Whoever may die now has no more files than there are free slots to close them in.
SlotsLeft ==
    \A t \in User : user[t].at # "dead" /\ Doing(t) \in KillAt
                      => Cardinality(OwnFiles(t)) <= Cardinality(FreeSlots)

\* Only a task that dies with more files than there are free slots closes one on the spot.
LEMMA EntersAlone ==
    ASSUME VfsBounds, ~clash, SlotsLeft, [VfsNext]_vfs_vars
    PROVE  ~clash'
<1>1. ASSUME NEW t \in User, v_vfs_task_teardown(t) PROVE ~clash'
  <2>1. Cardinality(OwnFiles(t)) <= Cardinality(FreeSlots)
    BY <1>1 DEF SlotsLeft, v_vfs_task_teardown
  <2>2. /\ Cardinality(File) \in Nat /\ OwnFiles(t) \in SUBSET (1..Cardinality(File))
        /\ Cardinality(Slot) \in Nat /\ FreeSlots \in SUBSET (1..Cardinality(Slot))
    BY DEF VfsBounds, OwnFiles, FreeSlots
  <2>3. ASSUME NEW f \in OwnFiles(t) PROVE f \in UNION {CloseIn(t, s) : s \in Slot}
    <3>1. PICK s \in FreeSlots : Place(OwnFiles(t), f) = Place(FreeSlots, s)
      BY <2>1, <2>2, PlaceTaken
    <3>2. f \in CloseIn(t, s) /\ s \in Slot
      BY <3>1 DEF CloseIn, FreeSlots
    <3>3. QED
      BY <3>2
  <2>4. QED
    BY <1>1, <2>3 DEF v_vfs_task_teardown
<1>2. ASSUME WorkerEnters PROVE ~clash'
  BY <1>2 DEF WorkerEnters, MayEnter
<1>3. ASSUME UNCHANGED clash PROVE ~clash'
  BY <1>3
<1>4. QED
  BY <1>1, <1>2, <1>3
     DEF VfsNext, v_vfs_submit, v_vfs_wait, v_vfs_finish, TakeWork, PickRequest, Execute,
         FsAnswers, PostResult, GiveDone, PrivEnters, PrivLeaves, vfs_vars

\* A call of v_vfs_submit, v_vfs_wait and v_vfs_finish returns its own answer, and no slot,
\* handle or request is lost, whatever the interleaving with v_vfs_worker_step and with
\* v_vfs_task_teardown: for any number of tasks, slots and handles, if waits have no
\* timeout and a task dies idle or waiting for a read or a close.
THEOREM AnswersSafe ==
    ASSUME Patient
    PROVE  VfsSpec => [](AnswerMine /\ SlotsAccounted /\ FilesAccounted /\ NoForgottenRequest)
<1>1. VfsInit => VInv /\ NoForgottenRequest
  BY VfsStarts DEF Patient
<1>2. VInv /\ NoForgottenRequest /\ [VfsNext]_vfs_vars => (VInv /\ NoForgottenRequest)'
  BY VfsKeeps, VfsCounts
<1>3. VInv => AnswerMine /\ SlotsAccounted /\ FilesAccounted
  BY VfsMeans DEF Patient
<1>4. QED
  BY <1>1, <1>2, <1>3, PTL DEF VfsSpec

\* If moreover a task never dies with more open files than there are free slots, its files
\* are all closed by the worker (v_vfs_task_teardown), and the file system has one caller
\* at a time.
THEOREM RequestsSafe ==
    ASSUME Patient
    PROVE  VfsSpec /\ []SlotsLeft => []RequestsSound
<1>1. VfsInit => ~clash
  BY VfsStarts DEF Patient
<1>2. ~clash /\ SlotsLeft /\ [VfsNext]_vfs_vars => ~clash'
  BY EntersAlone DEF Patient
<1>3. ~clash => FsExclusive
  BY DEF FsExclusive
<1>4. AnswerMine /\ SlotsAccounted /\ FilesAccounted /\ NoForgottenRequest /\ FsExclusive
        => RequestsSound
  BY DEF RequestsSound
<1>5. QED
  BY <1>1, <1>2, <1>3, <1>4, AnswersSafe, PTL DEF VfsSpec
==============================================================================

------------------------------ MODULE MpmcProofs ------------------------------
(***************************************************************************)
(* The multi-producer multi-consumer queue, for any number of tasks and    *)
(* any capacity: the ring, its semaphores and its hints agree, and no      *)
(* wakeup is lost.                                                         *)
(*                                                                         *)
(* The parts of the invariant take the state they speak of as arguments,   *)
(* so that a lemma about a change of one of them serves every action that  *)
(* makes it.                                                               *)
(***************************************************************************)
EXTENDS Mpmc, ListLemmas

Slots == 0..(Capacity - 1)

\* The queue's users.  No system call meets the mutex held by a task in thread mode, and
\* a reset is not raced.
Users ==
    /\ Capacity \in Nat \ {0} /\ IsFiniteSet(Task) /\ Priv \cap User = {} /\ NULL \notin Task
    /\ ~MeetsLock /\ ~ResetRaces

PrivCall ==
    {Idle, [at |-> "stored", op |-> "push"], [at |-> "again", op |-> "overwrite"]}
      \cup [at : {"lock", "parked", "in"}, op : {"push", "pop", "overwrite", "peek", "reset"}]
      \cup [at : {"give", "hint"}, op : {"push", "pop"}]
UserCall ==
    {Idle, [at |-> "wait_rd", op |-> "recv"], [at |-> "wait_wr", op |-> "send"]}
      \cup [at : {"towait", "retry"}, op : {"send", "recv"}]

\* Where a task can be.
CallOk(f) ==
    /\ f \in [Task -> PrivCall \cup UserCall]
    /\ \A t \in Priv : f[t] \in PrivCall
    /\ \A t \in User : f[t] \in UserCall

\* The head is c ahead of the tail, and the elements lie between them.
RingOk(r, h, b, c, q) ==
    /\ r \in [Slots -> Task \cup {NULL}] /\ h \in Slots /\ b \in Slots
    /\ c \in 0..Capacity /\ q \in Seq(Task) /\ Len(q) = c
    /\ h = Mod(b + c)
    /\ \A i \in 1..c : r[Mod(b + i - 1)] = q[i]

\* An element that is stored but not yet counted lies under the head.
StoredOk(r, h, f) == \A t \in Priv : f[t].at = "stored" => r[h] = t

\* One task is in the section: the owner.  The others that want it are parked, once each.
LockOk(l, q, f) ==
    /\ l \in Priv \cup {NULL} /\ q \in Seq(Priv) /\ NoDup(q)
    /\ \A t \in ToSet(q) : f[t].at = "parked"
    /\ \A t \in Priv : l = t <=>
         f[t].at \in {"in", "stored"} \/ (f[t].at = "parked" /\ t \notin ToSet(q))

\* A reset has the queue to itself.
ResetOk(f) == \A t, u \in Task : f[t].op = "reset" /\ u # t => f[u] = Idle

\* How many tasks are at a point of an operation (Where), and whether one is.
Num(f, at, ops) == Cardinality({t \in Task : f[t].at \in at /\ f[t].op \in ops})
In(c, at, ops) == IF c.at \in at /\ c.op \in ops THEN 1 ELSE 0

\* The calls that have taken an element or a hole and not used it, or made one and not
\* said so; and those on the way to an element or a hole, or to the hint of one.
NeSum(f) == Num(f, {"lock", "parked", "in"}, {"pop"}) + Num(f, {"give"}, {"push"})
NfSum(f) == Num(f, {"lock", "parked", "in", "stored"}, {"push"}) + Num(f, {"give"}, {"pop"})
RdSum(f) == Num(f, {"give", "hint"}, {"push"}) + Num(f, {"retry"}, {"recv"})
              + Num(f, {"lock", "parked", "in"}, {"pop"})
WrSum(f) == Num(f, {"give", "hint"}, {"pop"}) + Num(f, {"retry"}, {"send"})
              + Num(f, {"lock", "parked", "in", "stored"}, {"push"})

\* What one call adds to each.
Ne(c) == In(c, {"lock", "parked", "in"}, {"pop"}) + In(c, {"give"}, {"push"})
Nf(c) == In(c, {"lock", "parked", "in", "stored"}, {"push"}) + In(c, {"give"}, {"pop"})
Rd(c) == In(c, {"give", "hint"}, {"push"}) + In(c, {"retry"}, {"recv"})
           + In(c, {"lock", "parked", "in"}, {"pop"})
Wr(c) == In(c, {"give", "hint"}, {"pop"}) + In(c, {"retry"}, {"send"})
           + In(c, {"lock", "parked", "in", "stored"}, {"push"})

\* The semaphores, but for the calls in between.
SemsOk(c, ne, nf, f) ==
    ne \in Nat /\ nf \in Nat /\ ne + NeSum(f) = c /\ nf + NfSum(f) = Capacity - c

\* While a reader sleeps no hint is kept for it, and each element is on its way: a push has
\* yet to give the hint, a woken reader to look, or a pop to take it.
HintRd(c, w, f) ==
    w \in {0, 1} /\ ((\E u \in User : f[u].at = "wait_rd") => w = 0 /\ c <= RdSum(f))

\* The same for a sleeping writer and the holes.
HintWr(c, w, f) ==
    w \in {0, 1} /\ ((\E u \in User : f[u].at = "wait_wr") => w = 0 /\ Capacity - c <= WrSum(f))

\* The inductive invariant.
QueueInv == RingOk(ring, head, tail, count, content) /\ StoredOk(ring, head, caller)
CallInv == CallOk(caller) /\ LockOk(lock, lockq, caller) /\ ResetOk(caller)
SemInv ==
    /\ SemsOk(count, not_empty, not_full, caller)
    /\ HintRd(count, wake_rd, caller) /\ HintWr(count, wake_wr, caller)
IInv == QueueInv /\ CallInv /\ SemInv
-------------------------------------------------------------------------------
(* The ring *)

\* The slots at distances from the tail.
LEMMA SlotIs ==
    ASSUME Users, NEW b \in Slots, NEW i \in Int
    PROVE  Mod(b + i) \in Slots /\ \A k \in Int : Mod(Mod(b + i) + k) = Mod(b + (i + k))
<1>1. Capacity \in Nat \ {0} /\ b + i \in Int
  BY DEF Users, Slots
<1>2. (b + i) % Capacity \in 0..(Capacity - 1)
  BY <1>1, ModAdd
<1>3. ASSUME NEW k \in Int PROVE Mod(Mod(b + i) + k) = Mod(b + (i + k))
  <2>1. (((b + i) % Capacity) + k) % Capacity = ((b + i) + k) % Capacity
    BY <1>1, ModAdd
  <2>2. (b + i) + k = b + (i + k)
    BY DEF Slots, Users
  <2>3. QED
    BY <2>1, <2>2 DEF Mod
<1>4. QED
  BY <1>2, <1>3 DEF Mod, Slots

\* Different distances from the tail are different slots.
LEMMA SlotsDiffer ==
    ASSUME Users, NEW b \in Slots, NEW i \in Slots, NEW j \in Slots, i # j
    PROVE  Mod(b + i) # Mod(b + j)
<1>1. Capacity \in Nat \ {0} /\ b \in Int
  BY DEF Users, Slots
<1>2. (b + i) % Capacity # (b + j) % Capacity
  BY <1>1, ModDistinct DEF Slots
<1>3. QED
  BY <1>2 DEF Mod

\* An element stored under the head of a queue that is not full harms none.
LEMMA RingStore ==
    ASSUME Users, NEW r, NEW h, NEW b, NEW c, NEW q, RingOk(r, h, b, c, q), c < Capacity,
           NEW x \in Task
    PROVE  RingOk([r EXCEPT ![h] = x], h, b, c, q) /\ [r EXCEPT ![h] = x][h] = x
<1> DEFINE s == [r EXCEPT ![h] = x]
<1>1. /\ r \in [Slots -> Task \cup {NULL}] /\ h \in Slots /\ b \in Slots /\ c \in 0..Capacity
      /\ h = Mod(b + c)
  BY DEF RingOk
<1>2. s \in [Slots -> Task \cup {NULL}] /\ s[h] = x
  BY <1>1
<1>3. ASSUME NEW i \in 1..c PROVE s[Mod(b + i - 1)] = q[i]
  <2>1. /\ i - 1 \in Slots /\ c \in Slots /\ i - 1 # c /\ i - 1 \in Int
        /\ b + (i - 1) = b + i - 1
    BY <1>1 DEF Slots, Users
  <2>2. Mod(b + (i - 1)) # h /\ Mod(b + (i - 1)) \in Slots
    BY <1>1, <2>1, SlotIs, SlotsDiffer
  <2>3. r[Mod(b + i - 1)] = q[i]
    BY DEF RingOk
  <2>4. QED
    BY <1>1, <2>1, <2>2, <2>3
<1>4. QED
  BY <1>2, <1>3 DEF RingOk

\* The head moves over a stored element.
LEMMA RingPush ==
    ASSUME Users, NEW r, NEW h, NEW b, NEW c, NEW q, RingOk(r, h, b, c, q), c < Capacity,
           NEW x \in Task, r[h] = x
    PROVE  RingOk(r, Mod(h + 1), b, c + 1, Append(q, x))
<1>1. /\ h \in Slots /\ b \in Slots /\ c \in 0..Capacity /\ h = Mod(b + c)
      /\ q \in Seq(Task) /\ Len(q) = c /\ c \in Int
  BY DEF RingOk, Users
<1>2. c + 1 \in 0..Capacity
  BY <1>1 DEF Users
<1>3. Mod(h + 1) = Mod(b + (c + 1)) /\ Mod(b + (c + 1)) \in Slots
  <2>1. c + 1 \in Int /\ 1 \in Int
    BY <1>1
  <2>2. Mod(Mod(b + c) + 1) = Mod(b + (c + 1))
    BY <1>1, <2>1, SlotIs
  <2>3. Mod(b + (c + 1)) \in Slots
    BY <1>1, <2>1, SlotIs
  <2>4. QED
    BY <1>1, <2>2, <2>3
<1>4. /\ Append(q, x) \in Seq(Task) /\ Len(Append(q, x)) = c + 1
      /\ \A i \in 1..c : Append(q, x)[i] = q[i]
      /\ Append(q, x)[c + 1] = x
  BY <1>1, AppendProperties
<1>5. ASSUME NEW i \in 1..(c + 1) PROVE r[Mod(b + i - 1)] = Append(q, x)[i]
  <2>1. CASE i \in 1..c
    BY <1>4, <2>1 DEF RingOk
  <2>2. CASE i = c + 1
    <3>1. b + i - 1 = b + c
      BY <1>1, <2>2 DEF Slots
    <3>2. QED
      BY <1>1, <1>4, <2>2, <3>1
  <2>3. i \in 1..c \/ i = c + 1
    BY <1>1
  <2>4. QED
    BY <2>1, <2>2, <2>3
<1>6. r \in [Slots -> Task \cup {NULL}]
  BY DEF RingOk
<1>7. QED
  BY <1>1, <1>2, <1>3, <1>4, <1>5, <1>6 DEF RingOk

\* The tail moves over the oldest element.
LEMMA RingPop ==
    ASSUME Users, NEW r, NEW h, NEW b, NEW c, NEW q, RingOk(r, h, b, c, q), c > 0
    PROVE  RingOk(r, h, Mod(b + 1), c - 1, Tail(q)) /\ q # <<>>
<1>1. /\ h \in Slots /\ b \in Slots /\ c \in 0..Capacity /\ h = Mod(b + c)
      /\ q \in Seq(Task) /\ Len(q) = c /\ c \in Int /\ 1 \in Int
  BY DEF RingOk, Users
<1>2. c - 1 \in 0..Capacity /\ c - 1 \in Int /\ 1 + (c - 1) = c
  BY <1>1 DEF Users
<1>3. Mod(b + 1) \in Slots
  BY <1>1, SlotIs
<1>4. Mod(Mod(b + 1) + (c - 1)) = h
  <2>1. Mod(Mod(b + 1) + (c - 1)) = Mod(b + (1 + (c - 1)))
    BY <1>1, <1>2, SlotIs
  <2>2. QED
    BY <1>1, <1>2, <2>1
<1>5. q # <<>>
  BY <1>1, EmptySeq
<1>6. /\ Tail(q) \in Seq(Task) /\ Len(Tail(q)) = c - 1
      /\ \A i \in 1..(c - 1) : Tail(q)[i] = q[i + 1]
  BY <1>1, <1>5, HeadTailProperties
<1>7. ASSUME NEW i \in 1..(c - 1) PROVE r[Mod(Mod(b + 1) + i - 1)] = Tail(q)[i]
  <2>1. /\ i + 1 \in 1..c /\ i - 1 \in Int /\ b + (1 + (i - 1)) = b + (i + 1) - 1
        /\ Mod(b + 1) + i - 1 = Mod(b + 1) + (i - 1)
    BY <1>1, <1>2, <1>3 DEF Slots
  <2>2. Mod(Mod(b + 1) + (i - 1)) = Mod(b + (1 + (i - 1)))
    BY <1>1, <2>1, SlotIs
  <2>3. r[Mod(b + (i + 1) - 1)] = q[i + 1]
    BY <2>1 DEF RingOk
  <2>4. QED
    BY <1>6, <2>1, <2>2, <2>3
<1>8. r \in [Slots -> Task \cup {NULL}]
  BY DEF RingOk
<1>9. QED
  BY <1>1, <1>2, <1>3, <1>4, <1>5, <1>6, <1>7, <1>8 DEF RingOk

\* In a full queue the oldest element makes room for a new one.
LEMMA RingOverwrite ==
    ASSUME Users, NEW r, NEW h, NEW b, NEW q, RingOk(r, h, b, Capacity, q), NEW x \in Task
    PROVE  RingOk([r EXCEPT ![h] = x], Mod(h + 1), Mod(b + 1), Capacity, Append(Tail(q), x))
<1>1. Capacity > 0 /\ Capacity - 1 < Capacity /\ (Capacity - 1) + 1 = Capacity
  BY DEF Users
<1>2. RingOk(r, h, Mod(b + 1), Capacity - 1, Tail(q))
  BY <1>1, RingPop
<1> DEFINE s == [r EXCEPT ![h] = x]
<1>3. RingOk(s, h, Mod(b + 1), Capacity - 1, Tail(q)) /\ s[h] = x
  BY <1>1, <1>2, RingStore
<1> HIDE DEF s
<1>4. RingOk(s, Mod(h + 1), Mod(b + 1), (Capacity - 1) + 1, Append(Tail(q), x))
  BY <1>1, <1>3, RingPush
<1>5. QED
  BY <1>1, <1>4 DEF s
-------------------------------------------------------------------------------
(* The calls *)

\* One task goes from one point to another: it is all that changes in a count.
LEMMA OneMoves ==
    ASSUME Users, NEW f, NEW g, NEW t \in Task, \A u \in Task \ {t} : g[u] = f[u],
           NEW at, NEW ops
    PROVE  /\ Num(f, at, ops) \in Nat
           /\ Num(g, at, ops) = Num(f, at, ops) + In(g[t], at, ops) - In(f[t], at, ops)
<1> DEFINE A == {u \in Task \ {t} : f[u].at \in at /\ f[u].op \in ops}
           S(e) == {u \in Task : e[u].at \in at /\ e[u].op \in ops}
<1>1. IsFiniteSet(A) /\ t \notin A
  <2>1. A \in SUBSET Task
    OBVIOUS
  <2>2. QED
    BY <2>1, FS_Subset DEF Users
<1>2. Cardinality(A) \in Nat /\ Cardinality(A \cup {t}) = Cardinality(A) + 1
  BY <1>1, FS_CardinalityType, FS_AddElement
<1>3. ASSUME NEW e, \A u \in Task \ {t} : e[u] = f[u]
      PROVE  Cardinality(S(e)) = Cardinality(A) + In(e[t], at, ops)
  <2>1. CASE e[t].at \in at /\ e[t].op \in ops
    <3>1. S(e) = A \cup {t}
      BY <1>3, <2>1
    <3>2. QED
      BY <1>2, <2>1, <3>1 DEF In
  <2>2. CASE ~(e[t].at \in at /\ e[t].op \in ops)
    <3>1. S(e) = A
      BY <1>3, <2>2
    <3>2. In(e[t], at, ops) = 0
      BY <2>2 DEF In
    <3> HIDE DEF S, A
    <3>3. QED
      BY <1>2, <3>1, <3>2
  <2>3. QED
    BY <2>1, <2>2
<1>4. Num(f, at, ops) = Cardinality(A) + In(f[t], at, ops)
  BY <1>3 DEF Num
<1>5. Num(g, at, ops) = Cardinality(A) + In(g[t], at, ops)
  BY <1>3 DEF Num
<1>6. In(f[t], at, ops) \in Nat /\ In(g[t], at, ops) \in Nat
  BY DEF In
<1>7. QED
  BY <1>2, <1>4, <1>5, <1>6

\* A task at a point is counted there.
LEMMA OneThere ==
    ASSUME Users, NEW f, NEW t \in Task, NEW at, NEW ops, f[t].at \in at, f[t].op \in ops
    PROVE  Num(f, at, ops) \in Nat /\ Num(f, at, ops) >= 1
<1> DEFINE S == {u \in Task : f[u].at \in at /\ f[u].op \in ops}
<1>1. S \in SUBSET Task /\ t \in S
  OBVIOUS
<1>2. IsFiniteSet(S)
  BY <1>1, FS_Subset DEF Users
<1>3. Cardinality(S) \in Nat /\ Cardinality(S) # 0
  BY <1>1, <1>2, FS_CardinalityType, FS_EmptySet
<1>4. QED
  BY <1>3 DEF Num

\* What a move does to the four sums.
LEMMA SumsMove ==
    ASSUME Users, NEW f, NEW g, NEW t \in Task, \A u \in Task \ {t} : g[u] = f[u]
    PROVE  /\ NeSum(f) \in Nat /\ NfSum(f) \in Nat /\ RdSum(f) \in Nat /\ WrSum(f) \in Nat
           /\ NeSum(g) = NeSum(f) + Ne(g[t]) - Ne(f[t])
           /\ NfSum(g) = NfSum(f) + Nf(g[t]) - Nf(f[t])
           /\ RdSum(g) = RdSum(f) + Rd(g[t]) - Rd(f[t])
           /\ WrSum(g) = WrSum(f) + Wr(g[t]) - Wr(f[t])
<1>1. ASSUME NEW at, NEW ops
      PROVE  /\ Num(f, at, ops) \in Nat
             /\ In(f[t], at, ops) \in Nat /\ In(g[t], at, ops) \in Nat
             /\ Num(g, at, ops) = Num(f, at, ops) + In(g[t], at, ops) - In(f[t], at, ops)
  <2>1. In(f[t], at, ops) \in Nat /\ In(g[t], at, ops) \in Nat
    BY DEF In
  <2>2. Num(f, at, ops) \in Nat
    BY OneMoves
  <2>3. Num(g, at, ops) = Num(f, at, ops) + In(g[t], at, ops) - In(f[t], at, ops)
    BY OneMoves
  <2>4. QED
    BY <2>1, <2>2, <2>3
<1>2. NeSum(f) \in Nat /\ NeSum(g) = NeSum(f) + Ne(g[t]) - Ne(f[t])
  BY <1>1 DEF NeSum, Ne
<1>3. NfSum(f) \in Nat /\ NfSum(g) = NfSum(f) + Nf(g[t]) - Nf(f[t])
  BY <1>1 DEF NfSum, Nf
<1>4. RdSum(f) \in Nat /\ RdSum(g) = RdSum(f) + Rd(g[t]) - Rd(f[t])
  BY <1>1 DEF RdSum, Rd
<1>5. WrSum(f) \in Nat /\ WrSum(g) = WrSum(f) + Wr(g[t]) - Wr(f[t])
  BY <1>1 DEF WrSum, Wr
<1>6. QED
  BY <1>2, <1>3, <1>4, <1>5

\* The weights are counts.
LEMMA Weights ==
    ASSUME NEW c
    PROVE  Ne(c) \in Nat /\ Nf(c) \in Nat /\ Rd(c) \in Nat /\ Wr(c) \in Nat
<1>1. \A at, ops : In(c, at, ops) \in Nat
  BY DEF In
<1>2. Ne(c) \in Nat /\ Nf(c) \in Nat
  BY <1>1 DEF Ne, Nf
<1>3. Rd(c) \in Nat /\ Wr(c) \in Nat
  BY <1>1 DEF Rd, Wr
<1>4. QED
  BY <1>2, <1>3

\* A call moves, and the semaphores with it.
LEMMA SemsMove ==
    ASSUME Users, NEW f, NEW g, NEW t \in Task, \A u \in Task \ {t} : g[u] = f[u],
           NEW c \in Int, NEW ne, NEW nf, SemsOk(c, ne, nf, f),
           NEW k \in Int, NEW me \in Nat, NEW mf \in Nat,
           me + Ne(g[t]) - k = ne + Ne(f[t]) - c, mf + Nf(g[t]) + k = nf + Nf(f[t]) + c
    PROVE  SemsOk(k, me, mf, g)
<1>1. /\ NeSum(f) \in Nat /\ NfSum(f) \in Nat
      /\ NeSum(g) = NeSum(f) + Ne(g[t]) - Ne(f[t])
      /\ NfSum(g) = NfSum(f) + Nf(g[t]) - Nf(f[t])
  BY SumsMove
<1>2. Ne(f[t]) \in Nat /\ Nf(f[t]) \in Nat /\ Ne(g[t]) \in Nat /\ Nf(g[t]) \in Nat
  BY Weights
<1>3. /\ ne \in Nat /\ nf \in Nat /\ Capacity \in Nat
      /\ ne + NeSum(f) = c /\ nf + NfSum(f) = Capacity - c
  BY DEF SemsOk, Users
<1>4. me + NeSum(g) = k
  BY <1>1, <1>2, <1>3
<1>5. mf + NfSum(g) = Capacity - k
  BY <1>1, <1>2, <1>3
<1>6. QED
  BY <1>4, <1>5 DEF SemsOk

\* A call moves that does not go to sleep, and leaves as many others on the way.
LEMMA RdMove ==
    ASSUME Users, NEW f, NEW g, NEW t \in Task, \A u \in Task \ {t} : g[u] = f[u],
           NEW c \in Int, NEW w, HintRd(c, w, f), g[t].at # "wait_rd",
           NEW k \in Int, k - c <= Rd(g[t]) - Rd(f[t])
    PROVE  HintRd(k, w, g)
<1>1. RdSum(f) \in Nat /\ RdSum(g) = RdSum(f) + Rd(g[t]) - Rd(f[t])
  BY SumsMove
<1>2. Rd(f[t]) \in Nat /\ Rd(g[t]) \in Nat
  BY Weights
<1>3. SUFFICES ASSUME NEW u \in User, g[u].at = "wait_rd" PROVE w = 0 /\ k <= RdSum(g)
  BY DEF HintRd
<1>4. f[u].at = "wait_rd"
  BY <1>3 DEF Task
<1>5. w = 0 /\ c <= RdSum(f)
  BY <1>4 DEF HintRd
<1>6. QED
  BY <1>1, <1>2, <1>5

\* The same for the hint of the writers.
LEMMA WrMove ==
    ASSUME Users, NEW f, NEW g, NEW t \in Task, \A u \in Task \ {t} : g[u] = f[u],
           NEW c \in Int, NEW w, HintWr(c, w, f), g[t].at # "wait_wr",
           NEW k \in Int, c - k <= Wr(g[t]) - Wr(f[t])
    PROVE  HintWr(k, w, g)
<1>1. WrSum(f) \in Nat /\ WrSum(g) = WrSum(f) + Wr(g[t]) - Wr(f[t])
  BY SumsMove
<1>2. Wr(f[t]) \in Nat /\ Wr(g[t]) \in Nat /\ Capacity \in Int
  BY Weights DEF Users
<1>3. SUFFICES ASSUME NEW u \in User, g[u].at = "wait_wr" PROVE w = 0 /\ Capacity - k <= WrSum(g)
  BY DEF HintWr
<1>4. f[u].at = "wait_wr"
  BY <1>3 DEF Task
<1>5. w = 0 /\ Capacity - c <= WrSum(f)
  BY <1>4 DEF HintWr
<1>6. QED
  BY <1>1, <1>2, <1>5

\* A sleeper is woken: one more is on the way.
LEMMA RdWake ==
    ASSUME Users, NEW f, NEW g, NEW h, NEW t \in Task, NEW u \in User, u # t,
           \A v \in Task \ {t} : g[v] = f[v], \A v \in Task \ {u} : h[v] = g[v],
           NEW c \in Int, NEW w, HintRd(c, w, f), g[t].at # "wait_rd",
           f[u].at = "wait_rd", h[u] = [at |-> "retry", op |-> "recv"],
           NEW k \in Int, k - c <= 1 + Rd(g[t]) - Rd(f[t])
    PROVE  HintRd(k, w, h)
<1>1. RdSum(f) \in Nat /\ RdSum(g) = RdSum(f) + Rd(g[t]) - Rd(f[t])
  BY SumsMove
<1>2. Rd(f[t]) \in Nat /\ Rd(g[t]) \in Nat
  BY Weights
<1>3. RdSum(h) = RdSum(g) + Rd(h[u]) - Rd(g[u])
  <2>1. u \in Task
    BY DEF Task
  <2>2. QED
    BY <2>1, SumsMove
<1>4. g[u].at = "wait_rd" /\ Rd(h[u]) = 1 /\ Rd(g[u]) = 0
  BY DEF Rd, In, Task
<1>5. w = 0 /\ c <= RdSum(f) /\ w \in {0, 1}
  BY DEF HintRd
<1>6. k <= RdSum(h)
  BY <1>1, <1>2, <1>3, <1>4, <1>5
<1>7. QED
  BY <1>5, <1>6 DEF HintRd

\* The same for a writer that is woken.
LEMMA WrWake ==
    ASSUME Users, NEW f, NEW g, NEW h, NEW t \in Task, NEW u \in User, u # t,
           \A v \in Task \ {t} : g[v] = f[v], \A v \in Task \ {u} : h[v] = g[v],
           NEW c \in Int, NEW w, HintWr(c, w, f), g[t].at # "wait_wr",
           f[u].at = "wait_wr", h[u] = [at |-> "retry", op |-> "send"],
           NEW k \in Int, c - k <= 1 + Wr(g[t]) - Wr(f[t])
    PROVE  HintWr(k, w, h)
<1>1. WrSum(f) \in Nat /\ WrSum(g) = WrSum(f) + Wr(g[t]) - Wr(f[t])
  BY SumsMove
<1>2. Wr(f[t]) \in Nat /\ Wr(g[t]) \in Nat /\ Capacity \in Int
  BY Weights DEF Users
<1>3. WrSum(h) = WrSum(g) + Wr(h[u]) - Wr(g[u])
  <2>1. u \in Task
    BY DEF Task
  <2>2. QED
    BY <2>1, SumsMove
<1>4. g[u].at = "wait_wr" /\ Wr(h[u]) = 1 /\ Wr(g[u]) = 0
  BY DEF Wr, In, Task
<1>5. w = 0 /\ Capacity - c <= WrSum(f) /\ w \in {0, 1}
  BY DEF HintWr
<1>6. Capacity - k <= WrSum(h)
  BY <1>1, <1>2, <1>3, <1>4, <1>5
<1>7. QED
  BY <1>5, <1>6 DEF HintWr

\* The places of a task that has to do with the mutex.
AtLock == {"parked", "in", "stored"}

\* A call moves outside the section: the section does not notice.
LEMMA CallMove ==
    ASSUME Users, NEW f, CallOk(f), ResetOk(f), NEW t \in Task, NEW d, NEW g,
           g = [f EXCEPT ![t] = d],
           t \in Priv => d \in PrivCall, t \in User => d \in UserCall,
           f[t] # Idle \/ \A u \in Task : f[u].op # "reset",
           d.op = "reset" => f[t].op = "reset" \/ \A u \in Task : f[u] = Idle
    PROVE  /\ CallOk(g) /\ ResetOk(g) /\ g[t] = d /\ \A u \in Task \ {t} : g[u] = f[u]
<1>1. g[t] = d /\ \A u \in Task \ {t} : g[u] = f[u]
  BY DEF CallOk
<1>2. CallOk(g)
  <2>1. d \in PrivCall \cup UserCall
    BY DEF Task
  <2>2. g \in [Task -> PrivCall \cup UserCall]
    BY <2>1 DEF CallOk
  <2>3. ASSUME NEW u \in Priv PROVE g[u] \in PrivCall
    BY <1>1 DEF CallOk, Task
  <2>4. ASSUME NEW u \in User PROVE g[u] \in UserCall
    BY <1>1 DEF CallOk, Task
  <2>5. QED
    BY <2>2, <2>3, <2>4 DEF CallOk
<1>3. ResetOk(g)
  <2> SUFFICES ASSUME NEW a \in Task, NEW b \in Task, g[a].op = "reset", b # a PROVE g[b] = Idle
    BY DEF ResetOk
  <2>1. CASE a = t
    BY <1>1, <2>1 DEF ResetOk
  <2>2. CASE a # t
    BY <1>1, <2>2 DEF ResetOk
  <2>3. QED
    BY <2>1, <2>2
<1>4. QED
  BY <1>1, <1>2, <1>3

\* A move outside the section does not concern the mutex.
LEMMA LockMove ==
    ASSUME Users, NEW f, NEW t \in Task, NEW g, \A u \in Task \ {t} : g[u] = f[u],
           f[t].at \notin AtLock, g[t].at \notin AtLock,
           NEW l, NEW q, NEW r, NEW h, LockOk(l, q, f), StoredOk(r, h, f)
    PROVE  LockOk(l, q, g) /\ StoredOk(r, h, g)
<1>1. q \in Seq(Priv) /\ ToSet(q) \subseteq Priv /\ t \notin ToSet(q)
  <2>1. q \in Seq(Priv) /\ t \notin ToSet(q)
    BY DEF LockOk, AtLock
  <2>2. QED
    BY <2>1, LenProperties, ElementOfSeq DEF ToSet
<1>2. \A v \in ToSet(q) : g[v].at = "parked"
  BY <1>1 DEF LockOk, Task
<1>3. ASSUME NEW v \in Priv
      PROVE  l = v <=>
               g[v].at \in {"in", "stored"} \/ (g[v].at = "parked" /\ v \notin ToSet(q))
  <2>1. CASE v = t
    BY <2>1 DEF LockOk, AtLock
  <2>2. CASE v # t
    BY <2>2 DEF LockOk, Task
  <2>3. QED
    BY <2>1, <2>2
<1>4. LockOk(l, q, g)
  BY <1>2, <1>3 DEF LockOk
<1>5. StoredOk(r, h, g)
  BY DEF StoredOk, AtLock, Task
<1>6. QED
  BY <1>4, <1>5

\* The owner of the mutex is the only task that can be between its store and its move.
LEMMA StoredOwner ==
    ASSUME Users, NEW f, NEW l, NEW q, LockOk(l, q, f), NEW t \in Priv, f[t].at = "stored"
    PROVE  l = t /\ l # NULL
BY DEF LockOk, Users, Task

\* The owner leaves the section, and the mutex goes to the first in the queue.
LEMMA UnlockMove ==
    ASSUME Users, LockOk(lock, lockq, caller), NEW t \in Priv,
           caller[t].at \in {"in", "stored"}, Unlock, NEW g,
           \A u \in Task \ {t} : g[u] = caller[u], g[t].at \notin AtLock
    PROVE  LockOk(lock', lockq', g) /\ \A u \in Priv : g[u].at # "stored"
<1>0. lockq \in Seq(Priv) /\ NoDup(lockq) /\ lock = t /\ t # NULL /\ t \notin ToSet(lockq)
  BY DEF LockOk, Users, Task
<1>1. ToSet(lockq) \subseteq Priv /\ \A u \in ToSet(lockq) : g[u].at = "parked"
  <2>1. ToSet(lockq) \subseteq Priv
    BY <1>0, LenProperties, ElementOfSeq DEF ToSet
  <2>2. QED
    BY <1>0, <2>1 DEF LockOk, Task
<1>2. \A u \in Priv : g[u].at \notin {"in", "stored"}
  <2> SUFFICES ASSUME NEW u \in Priv, g[u].at \in {"in", "stored"} PROVE FALSE
    OBVIOUS
  <2>1. u # t
    BY DEF AtLock
  <2>2. caller[u].at \in {"in", "stored"}
    BY <2>1 DEF Task
  <2>3. QED
    BY <1>0, <2>1, <2>2 DEF LockOk
<1>3. \A u \in Priv : g[u].at = "parked" => u \in ToSet(lockq)
  <2> SUFFICES ASSUME NEW u \in Priv, g[u].at = "parked", u \notin ToSet(lockq) PROVE FALSE
    OBVIOUS
  <2>1. u # t
    BY DEF AtLock
  <2>2. caller[u].at = "parked"
    BY <2>1 DEF Task
  <2>3. QED
    BY <1>0, <2>1, <2>2 DEF LockOk
<1>4. CASE lockq = <<>>
  <2>1. lock' = NULL /\ lockq' = lockq /\ ToSet(lockq) = {}
    BY <1>4, EmptyRange DEF Unlock
  <2>2. \A u \in Priv : u # NULL
    BY DEF Users, Task
  <2>3. QED
    BY <1>0, <1>2, <1>3, <2>1, <2>2 DEF LockOk
<1>5. CASE lockq # <<>>
  <2>1. lock' = Head(lockq) /\ lockq' = Tail(lockq)
    BY <1>5 DEF Unlock
  <2>2. /\ Head(lockq) \in Priv /\ Head(lockq) \in ToSet(lockq) /\ Tail(lockq) \in Seq(Priv)
        /\ NoDup(Tail(lockq)) /\ ToSet(Tail(lockq)) = ToSet(lockq) \ {Head(lockq)}
    BY <1>0, <1>5, TailRange
  <2>3. \A u \in ToSet(lockq') : g[u].at = "parked"
    BY <1>1, <2>1, <2>2
  <2>4. ASSUME NEW u \in Priv
        PROVE  lock' = u <=>
                 g[u].at \in {"in", "stored"} \/ (g[u].at = "parked" /\ u \notin ToSet(lockq'))
    BY <1>1, <1>2, <1>3, <2>1, <2>2
  <2>5. QED
    BY <1>2, <2>1, <2>2, <2>3, <2>4 DEF LockOk
<1>6. QED
  BY <1>4, <1>5

-------------------------------------------------------------------------------
(* The steps *)

\* A call is where it is and asks for what it asks.
LEMMA CallIs ==
    ASSUME NEW f, CallOk(f), NEW t \in Task
    PROVE  f[t] = [at |-> f[t].at, op |-> f[t].op]
BY DEF CallOk, PrivCall, UserCall, Idle

\* A call goes on to its next point.
LEMMA GotoIs ==
    ASSUME CallOk(caller), NEW t \in Task, NEW x, Goto(t, x)
    PROVE  caller' = [caller EXCEPT ![t] = [at |-> x, op |-> caller[t].op]]
<1> DEFINE a == caller[t].at
           o == caller[t].op
<1>1. caller[t] = [at |-> a, op |-> o]
  BY CallIs
<1> HIDE DEF a, o
<1>2. [caller[t] EXCEPT !.at = x] = [at |-> x, op |-> o]
  BY <1>1
<1>3. caller' = [caller EXCEPT ![t] = [caller[t] EXCEPT !.at = x]]
  BY DEF Goto, CallOk
<1>4. QED
  BY <1>2, <1>3 DEF o

\* The semaphores and the hints after the move of a call that does not go to sleep.
LEMMA SemStep ==
    ASSUME Users, SemInv, NEW t \in Task, NEW d,
           caller'[t] = d, \A u \in Task \ {t} : caller'[u] = caller[u],
           d.at \notin {"wait_rd", "wait_wr"}, UNCHANGED <<wake_rd, wake_wr>>,
           count \in Int, count' \in Int, not_empty' \in Nat, not_full' \in Nat,
           not_empty' + Ne(d) - count' = not_empty + Ne(caller[t]) - count,
           not_full' + Nf(d) + count' = not_full + Nf(caller[t]) + count,
           count' - count <= Rd(d) - Rd(caller[t]), count - count' <= Wr(d) - Wr(caller[t])
    PROVE  SemInv'
<1> DEFINE g == caller'
<1>1. SemsOk(count', not_empty', not_full', g)
  BY SemsMove DEF SemInv
<1>2. HintRd(count', wake_rd', g)
  BY RdMove DEF SemInv
<1>3. HintWr(count', wake_wr', g)
  BY WrMove DEF SemInv
<1>4. QED
  BY <1>1, <1>2, <1>3 DEF SemInv

\* What the invariant says of the numbers.
LEMMA Numbers ==
    ASSUME Users, IInv
    PROVE  /\ count \in 0..Capacity /\ not_empty \in Nat /\ not_full \in Nat
           /\ NeSum(caller) \in Nat /\ NfSum(caller) \in Nat
           /\ RdSum(caller) \in Nat /\ WrSum(caller) \in Nat
           /\ not_empty + NeSum(caller) = count /\ not_full + NfSum(caller) = Capacity - count
           /\ not_empty <= Capacity /\ not_full <= Capacity
<1>1. count \in 0..Capacity /\ not_empty \in Nat /\ not_full \in Nat
  BY DEF IInv, QueueInv, RingOk, SemInv, SemsOk
<1>2. not_empty + NeSum(caller) = count /\ not_full + NfSum(caller) = Capacity - count
  BY DEF IInv, SemInv, SemsOk
<1>3. ASSUME NEW at, NEW ops PROVE Num(caller, at, ops) \in Nat
  <2> DEFINE S == {t \in Task : caller[t].at \in at /\ caller[t].op \in ops}
  <2>1. S \in SUBSET Task
    OBVIOUS
  <2>2. IsFiniteSet(S)
    BY <2>1, FS_Subset DEF Users
  <2>3. QED
    BY <2>2, FS_CardinalityType DEF Num
<1>4. /\ NeSum(caller) \in Nat /\ NfSum(caller) \in Nat
      /\ RdSum(caller) \in Nat /\ WrSum(caller) \in Nat
  BY <1>3 DEF NeSum, NfSum, RdSum, WrSum
<1>5. QED
  BY <1>1, <1>2, <1>4 DEF Users

\* What the calls weigh.
LEMMA WeightOf ==
    ASSUME NEW c
    PROVE  /\ c.op \notin {"push", "pop", "send", "recv"} =>
                Ne(c) = 0 /\ Nf(c) = 0 /\ Rd(c) = 0 /\ Wr(c) = 0
           /\ c.op = "pop" /\ c.at \in {"lock", "parked", "in"} =>
                Ne(c) = 1 /\ Nf(c) = 0 /\ Rd(c) = 1 /\ Wr(c) = 0
           /\ c.op = "pop" /\ c.at = "give" => Ne(c) = 0 /\ Nf(c) = 1 /\ Rd(c) = 0 /\ Wr(c) = 1
           /\ c.op = "pop" /\ c.at = "hint" => Ne(c) = 0 /\ Nf(c) = 0 /\ Rd(c) = 0 /\ Wr(c) = 1
           /\ c.op = "push" /\ c.at \in {"lock", "parked", "in", "stored"} =>
                Ne(c) = 0 /\ Nf(c) = 1 /\ Rd(c) = 0 /\ Wr(c) = 1
           /\ c.op = "push" /\ c.at = "give" => Ne(c) = 1 /\ Nf(c) = 0 /\ Rd(c) = 1 /\ Wr(c) = 0
           /\ c.op = "push" /\ c.at = "hint" => Ne(c) = 0 /\ Nf(c) = 0 /\ Rd(c) = 1 /\ Wr(c) = 0
           /\ c.op = "recv" /\ c.at = "retry" => Ne(c) = 0 /\ Nf(c) = 0 /\ Rd(c) = 1 /\ Wr(c) = 0
           /\ c.op = "send" /\ c.at = "retry" => Ne(c) = 0 /\ Nf(c) = 0 /\ Rd(c) = 0 /\ Wr(c) = 1
           /\ c.op \in {"send", "recv"} /\ c.at # "retry" =>
                Ne(c) = 0 /\ Nf(c) = 0 /\ Rd(c) = 0 /\ Wr(c) = 0
<1> USE DEF Ne, Nf, Rd, Wr, In
<1>1. c.op \notin {"push", "pop", "send", "recv"} =>
        Ne(c) = 0 /\ Nf(c) = 0 /\ Rd(c) = 0 /\ Wr(c) = 0
  OBVIOUS
<1>2. c.op = "pop" /\ c.at \in {"lock", "parked", "in"} =>
        Ne(c) = 1 /\ Nf(c) = 0 /\ Rd(c) = 1 /\ Wr(c) = 0
  OBVIOUS
<1>3. c.op = "pop" /\ c.at = "give" => Ne(c) = 0 /\ Nf(c) = 1 /\ Rd(c) = 0 /\ Wr(c) = 1
  OBVIOUS
<1>4. c.op = "pop" /\ c.at = "hint" => Ne(c) = 0 /\ Nf(c) = 0 /\ Rd(c) = 0 /\ Wr(c) = 1
  OBVIOUS
<1>5. c.op = "push" /\ c.at \in {"lock", "parked", "in", "stored"} =>
        Ne(c) = 0 /\ Nf(c) = 1 /\ Rd(c) = 0 /\ Wr(c) = 1
  OBVIOUS
<1>6. c.op = "push" /\ c.at = "give" => Ne(c) = 1 /\ Nf(c) = 0 /\ Rd(c) = 1 /\ Wr(c) = 0
  OBVIOUS
<1>7. c.op = "push" /\ c.at = "hint" => Ne(c) = 0 /\ Nf(c) = 0 /\ Rd(c) = 1 /\ Wr(c) = 0
  OBVIOUS
<1>8. c.op = "recv" /\ c.at = "retry" => Ne(c) = 0 /\ Nf(c) = 0 /\ Rd(c) = 1 /\ Wr(c) = 0
  OBVIOUS
<1>9. c.op = "send" /\ c.at = "retry" => Ne(c) = 0 /\ Nf(c) = 0 /\ Rd(c) = 0 /\ Wr(c) = 1
  OBVIOUS
<1>10. c.op \in {"send", "recv"} /\ c.at # "retry" =>
         Ne(c) = 0 /\ Nf(c) = 0 /\ Rd(c) = 0 /\ Wr(c) = 0
  OBVIOUS
<1> HIDE DEF Ne, Nf, Rd, Wr, In
<1>11. QED
  BY <1>1, <1>2, <1>3, <1>4, <1>5, <1>6, <1>7, <1>8, <1>9, <1>10

\* The change of a call to d is matched by the numbers.
Matched(c, d) ==
    /\ not_empty' + Ne(d) - count' = not_empty + Ne(c) - count
    /\ not_full' + Nf(d) + count' = not_full + Nf(c) + count
    /\ count' - count <= Rd(d) - Rd(c) /\ count - count' <= Wr(d) - Wr(c)

\* The call t may go on to d, as far as a reset is concerned.
MayGo(t, d) ==
    /\ t \in Priv => d \in PrivCall
    /\ t \in User => d \in UserCall
    /\ caller[t] # Idle \/ \A u \in Task : caller[u].op # "reset"
    /\ d.op = "reset" => caller[t].op = "reset" \/ \A u \in Task : caller[u] = Idle

\* A step that moves one call.
LEMMA OneCall ==
    ASSUME Users, IInv, NEW t \in Task, NEW d, caller' = [caller EXCEPT ![t] = d], MayGo(t, d)
    PROVE  /\ caller'[t] = d /\ \A u \in Task \ {t} : caller'[u] = caller[u]
           /\ CallOk(caller') /\ ResetOk(caller')
<1> DEFINE g == caller'
<1>1. CallOk(caller) /\ ResetOk(caller)
  BY DEF IInv, CallInv
<1>2. caller'[t] = d /\ \A u \in Task \ {t} : caller'[u] = caller[u]
  BY <1>1 DEF CallOk
<1>3. /\ t \in Priv => d \in PrivCall
      /\ t \in User => d \in UserCall
      /\ caller[t] # Idle \/ \A u \in Task : caller[u].op # "reset"
      /\ d.op = "reset" => caller[t].op = "reset" \/ \A u \in Task : caller[u] = Idle
  BY DEF MayGo
<1>4. CallOk(caller')
  BY <1>1, <1>3, CallMove
<1>5. ResetOk(caller')
  BY <1>1, <1>3, CallMove
<1>6. QED
  BY <1>2, <1>4, <1>5

\* A step that moves a call outside the section and leaves the ring and the mutex alone.
LEMMA OutsideStep ==
    ASSUME Users, IInv, NEW t \in Task, NEW d, caller' = [caller EXCEPT ![t] = d],
           UNCHANGED <<QUEUE, LOCK>>, MayGo(t, d),
           caller[t].at \notin AtLock, d.at \notin AtLock, SemInv'
    PROVE  IInv'
<1> DEFINE g == caller'
<1>1. CallOk(g) /\ ResetOk(g) /\ g[t] = d /\ \A u \in Task \ {t} : g[u] = caller[u]
  BY OneCall
<1>2. LockOk(lock, lockq, g) /\ StoredOk(ring, head, g)
  BY <1>1, LockMove DEF IInv, CallInv, QueueInv
<1>3. CallInv'
  BY <1>1, <1>2 DEF CallInv, LOCK
<1>4. QueueInv'
  BY <1>2 DEF IInv, QueueInv, QUEUE
<1>5. QED
  BY <1>3, <1>4 DEF IInv

\* The same for a call that does not go to sleep, with the semaphores it takes or gives.
LEMMA PlainStep ==
    ASSUME Users, IInv, NEW t \in Task, NEW d, caller' = [caller EXCEPT ![t] = d],
           UNCHANGED <<QUEUE, LOCK, wake_rd, wake_wr>>, MayGo(t, d),
           caller[t].at \notin AtLock, d.at \notin AtLock,
           d.at \notin {"wait_rd", "wait_wr"},
           not_empty' \in Nat, not_full' \in Nat, Matched(caller[t], d)
    PROVE  IInv'
<1>1. caller'[t] = d /\ \A u \in Task \ {t} : caller'[u] = caller[u]
  BY OneCall
<1>2. count' = count /\ count \in Int
  BY Numbers DEF QUEUE
<1>3. SemInv'
  BY <1>1, <1>2, SemStep DEF IInv, Matched
<1>4. QED
  BY <1>3, OutsideStep

\* A call may begin only while nobody resets.
LEMMA BeginIs ==
    ASSUME Users, MayBegin
    PROVE  \A u \in Task : caller[u].op # "reset"
BY DEF Users, MayBegin

\* mpmc_push_timeout: the hole taken is one that the call accounts for.
LEMMA PushTakeSafe ==
    ASSUME Users, IInv, NEW t \in Priv, PushTake(t)
    PROVE  IInv'
<1>1. /\ t \in Task /\ t \notin User /\ caller[t] = Idle /\ not_empty' = not_empty
      /\ UNCHANGED <<QUEUE, LOCK, wake_rd, wake_wr>> /\ \A u \in Task : caller[u].op # "reset"
  BY BeginIs DEF PushTake, Users, Task
<1>2. not_empty \in Nat /\ not_full \in Nat /\ count \in Int /\ count' = count
  BY <1>1, Numbers DEF QUEUE
<1>3. Ne(Idle) = 0 /\ Nf(Idle) = 0 /\ Rd(Idle) = 0 /\ Wr(Idle) = 0 /\ Idle.at \notin AtLock
  BY WeightOf DEF Idle, AtLock
<1>4. ASSUME NEW o \in {"push", "overwrite"},
             caller' = [caller EXCEPT ![t] = [at |-> "lock", op |-> o]],
             o = "push" => not_full > 0 /\ not_full' = not_full - 1,
             o # "push" => not_full' = not_full
      PROVE  IInv'
  <2> DEFINE d == [at |-> "lock", op |-> o]
  <2>1. d \in PrivCall /\ d.at = "lock" /\ d.op = o
    BY DEF PrivCall
  <2> HIDE DEF d
  <2>2. Ne(d) = 0 /\ Rd(d) = 0 /\ (o = "push" => Nf(d) = 1 /\ Wr(d) = 1)
        /\ (o # "push" => Nf(d) = 0 /\ Wr(d) = 0)
    BY <2>1, WeightOf
  <2>3. not_full' \in Nat /\ not_empty' \in Nat
    BY <1>1, <1>2, <1>4
  <2>4. Matched(caller[t], d)
    BY <1>1, <1>2, <1>3, <1>4, <2>2 DEF Matched
  <2>5. MayGo(t, d)
    BY <1>1, <2>1 DEF MayGo
  <2>6. d.at \notin AtLock /\ d.at \notin {"wait_rd", "wait_wr"} /\ caller[t].at \notin AtLock
    BY <1>1, <1>3, <2>1 DEF AtLock
  <2>7. caller' = [caller EXCEPT ![t] = d]
    BY <1>4 DEF d
  <2>8. QED
    BY <1>1, <2>3, <2>4, <2>5, <2>6, <2>7, PlainStep
<1>5. QED
  BY <1>4 DEF PushTake

\* A push gives the hint: with the call done, a sleeping reader is woken or there is none
\* and the hint is kept.
LEMMA HintRdGiven ==
    ASSUME Users, IInv, NEW t \in Task, MayGo(t, Idle),
           caller[t].at \notin AtLock, caller[t].at \notin {"wait_rd", "wait_wr"},
           GiveHint(t, Idle, "wait_rd", wake_rd), UNCHANGED <<LOCK, wake_wr>>,
           count' \in Int, not_empty' \in Nat, not_full' \in Nat,
           not_empty' - count' = not_empty + Ne(caller[t]) - count,
           not_full' + count' = not_full + Nf(caller[t]) + count,
           count' - count <= 1 - Rd(caller[t]), count - count' <= -Wr(caller[t])
    PROVE  SemInv' /\ CallInv' /\ \A r, h : StoredOk(r, h, caller) => StoredOk(r, h, caller')
<1> DEFINE g == [caller EXCEPT ![t] = Idle]
<1>1. /\ CallOk(caller) /\ ResetOk(caller) /\ LockOk(lock, lockq, caller)
      /\ SemsOk(count, not_empty, not_full, caller)
      /\ HintRd(count, wake_rd, caller) /\ HintWr(count, wake_wr, caller)
  BY DEF IInv, CallInv, SemInv
<1>2. /\ Ne(Idle) = 0 /\ Nf(Idle) = 0 /\ Rd(Idle) = 0 /\ Wr(Idle) = 0
      /\ Idle.at = "idle" /\ Idle.at \notin AtLock
  BY WeightOf DEF Idle, AtLock
<1>3. /\ count \in Int /\ not_empty \in Nat /\ not_full \in Nat
      /\ Ne(caller[t]) \in Nat /\ Nf(caller[t]) \in Nat
      /\ Rd(caller[t]) \in Nat /\ Wr(caller[t]) \in Nat
  BY Numbers, Weights
<1>4. /\ t \in Priv => Idle \in PrivCall
      /\ t \in User => Idle \in UserCall
      /\ caller[t] # Idle \/ \A u \in Task : caller[u].op # "reset"
      /\ Idle.op # "reset"
  BY DEF MayGo, Idle
<1>5. g[t] = Idle /\ \A v \in Task \ {t} : g[v] = caller[v]
  BY <1>1 DEF CallOk
<1>6. CallOk(g)
  BY <1>1, <1>4, CallMove
<1>7. ResetOk(g)
  BY <1>1, <1>4, CallMove
<1> HIDE DEF g
<1>8. ASSUME NEW r, NEW h, StoredOk(r, h, caller) PROVE LockOk(lock, lockq, g) /\ StoredOk(r, h, g)
  BY <1>1, <1>2, <1>5, <1>8, LockMove
<1>9. LockOk(lock, lockq, g)
  BY <1>8 DEF IInv, QueueInv
<1>10. SemsOk(count', not_empty', not_full', g)
  <2>1. /\ not_empty' + Ne(g[t]) - count' = not_empty + Ne(caller[t]) - count
        /\ not_full' + Nf(g[t]) + count' = not_full + Nf(caller[t]) + count
    BY <1>2, <1>3, <1>5
  <2>2. QED
    BY <1>1, <1>3, <1>5, <2>1, SemsMove
<1>11. HintWr(count', wake_wr, g)
  <2>1. count - count' <= Wr(g[t]) - Wr(caller[t])
    BY <1>2, <1>3, <1>5
  <2>2. g[t].at # "wait_wr"
    BY <1>2, <1>5
  <2>3. QED
    BY <1>1, <1>3, <1>5, <2>1, <2>2, WrMove
<1>12. CASE Sleepers("wait_rd") = {} /\ wake_rd' = 1 /\ caller' = g
  <2>1. ~\E u \in User : g[u].at = "wait_rd"
    BY <1>2, <1>5, <1>12 DEF Sleepers, Task
  <2>2. HintRd(count', wake_rd', g)
    BY <1>12, <2>1 DEF HintRd
  <2>3. SemInv'
    BY <1>10, <1>11, <1>12, <2>2 DEF SemInv
  <2>4. CallInv'
    BY <1>6, <1>7, <1>9, <1>12 DEF CallInv, LOCK
  <2>5. QED
    BY <1>8, <1>12, <2>3, <2>4
<1>13. ASSUME NEW u \in Sleepers("wait_rd"), wake_rd' = wake_rd,
              caller' = [caller EXCEPT ![t] = Idle, ![u].at = "retry"]
       PROVE  SemInv' /\ CallInv' /\ \A r, h : StoredOk(r, h, caller) => StoredOk(r, h, caller')
  <2> DEFINE woken == [at |-> "retry", op |-> "recv"]
  <2>1. u \in User /\ u \in Task /\ u \notin Priv /\ caller[u].at = "wait_rd" /\ u # t
    BY <1>13 DEF Sleepers, Task, Users
  <2>2. caller[u] = [at |-> "wait_rd", op |-> "recv"]
    BY <1>1, <2>1 DEF CallOk, UserCall, Idle
  <2>3. g[u] = [at |-> "wait_rd", op |-> "recv"]
    BY <1>5, <2>1, <2>2
  <2>4. caller' = [g EXCEPT ![u] = woken]
    <3>1. [g[u] EXCEPT !.at = "retry"] = woken
      BY <2>3
    <3>2. caller' = [g EXCEPT ![u] = [g[u] EXCEPT !.at = "retry"]]
      BY <1>13 DEF g
    <3>3. QED
      BY <3>1, <3>2
  <2>5. woken \in UserCall /\ woken.at = "retry" /\ woken.op = "recv"
    BY DEF UserCall
  <2>6. /\ Ne(woken) = 0 /\ Nf(woken) = 0 /\ Wr(woken) = 0
        /\ Ne(g[u]) = 0 /\ Nf(g[u]) = 0 /\ Wr(g[u]) = 0
        /\ g[u].at = "wait_rd" /\ g[u].op = "recv"
    BY <2>3, WeightOf
  <2>7. g[u] # Idle
    BY <2>6 DEF Idle
  <2>8. caller'[u] = woken /\ \A v \in Task \ {u} : caller'[v] = g[v]
    BY <1>6, <2>1, <2>4 DEF CallOk
  <2>9. CallOk(caller')
    BY <1>6, <1>7, <2>1, <2>4, <2>5, <2>7, CallMove
  <2>10. ResetOk(caller')
    BY <1>6, <1>7, <2>1, <2>4, <2>5, <2>7, CallMove
  <2> HIDE DEF woken
  <2>11. ASSUME NEW r, NEW h, StoredOk(r, h, caller)
         PROVE  LockOk(lock, lockq, caller') /\ StoredOk(r, h, caller')
    <3>1. LockOk(lock, lockq, g) /\ StoredOk(r, h, g)
      BY <1>8, <2>11
    <3>2. g[u].at \notin AtLock /\ caller'[u].at \notin AtLock
      BY <2>5, <2>6, <2>8 DEF AtLock
    <3>3. QED
      BY <2>1, <2>8, <3>1, <3>2, LockMove
  <2>12. SemsOk(count', not_empty', not_full', caller')
    <3>1. /\ not_empty' + Ne(caller'[u]) - count' = not_empty' + Ne(g[u]) - count'
          /\ not_full' + Nf(caller'[u]) + count' = not_full' + Nf(g[u]) + count'
      BY <2>6, <2>8
    <3>2. QED
      BY <1>10, <2>1, <2>8, <3>1, SemsMove
  <2>13. HintWr(count', wake_wr', caller')
    <3>1. count' - count' <= Wr(caller'[u]) - Wr(g[u])
      BY <2>6, <2>8
    <3>2. caller'[u].at # "wait_wr"
      BY <2>5, <2>8
    <3>3. QED
      BY <1>11, <2>1, <2>8, <3>1, <3>2, WrMove
  <2>14. HintRd(count', wake_rd', caller')
    <3>1. count' - count <= 1 + Rd(g[t]) - Rd(caller[t])
      BY <1>2, <1>3, <1>5
    <3>2. g[t].at # "wait_rd"
      BY <1>2, <1>5
    <3>3. caller'[u] = [at |-> "retry", op |-> "recv"]
      BY <2>8 DEF woken
    <3>4. HintRd(count', wake_rd, caller')
      BY <1>1, <1>3, <1>5, <2>1, <2>8, <3>1, <3>2, <3>3, RdWake
    <3>5. QED
      BY <1>13, <3>4
  <2>15. SemInv'
    BY <2>12, <2>13, <2>14 DEF SemInv
  <2>16. LockOk(lock, lockq, caller')
    BY <2>11 DEF IInv, QueueInv
  <2>17. CallInv'
    BY <2>9, <2>10, <2>16 DEF CallInv, LOCK
  <2>18. QED
    BY <2>11, <2>15, <2>17
<1>14. QED
  BY <1>12, <1>13 DEF GiveHint, g

\* A pop gives the hint to the writers in the same way.
LEMMA HintWrGiven ==
    ASSUME Users, IInv, NEW t \in Task, MayGo(t, Idle),
           caller[t].at \notin AtLock, caller[t].at \notin {"wait_rd", "wait_wr"},
           GiveHint(t, Idle, "wait_wr", wake_wr), UNCHANGED <<LOCK, wake_rd>>,
           count' \in Int, not_empty' \in Nat, not_full' \in Nat,
           not_empty' - count' = not_empty + Ne(caller[t]) - count,
           not_full' + count' = not_full + Nf(caller[t]) + count,
           count - count' <= 1 - Wr(caller[t]), count' - count <= -Rd(caller[t])
    PROVE  SemInv' /\ CallInv' /\ \A r, h : StoredOk(r, h, caller) => StoredOk(r, h, caller')
<1> DEFINE g == [caller EXCEPT ![t] = Idle]
<1>1. /\ CallOk(caller) /\ ResetOk(caller) /\ LockOk(lock, lockq, caller)
      /\ SemsOk(count, not_empty, not_full, caller)
      /\ HintRd(count, wake_rd, caller) /\ HintWr(count, wake_wr, caller)
  BY DEF IInv, CallInv, SemInv
<1>2. /\ Ne(Idle) = 0 /\ Nf(Idle) = 0 /\ Rd(Idle) = 0 /\ Wr(Idle) = 0
      /\ Idle.at = "idle" /\ Idle.at \notin AtLock
  BY WeightOf DEF Idle, AtLock
<1>3. /\ count \in Int /\ not_empty \in Nat /\ not_full \in Nat
      /\ Ne(caller[t]) \in Nat /\ Nf(caller[t]) \in Nat
      /\ Rd(caller[t]) \in Nat /\ Wr(caller[t]) \in Nat
  BY Numbers, Weights
<1>4. /\ t \in Priv => Idle \in PrivCall
      /\ t \in User => Idle \in UserCall
      /\ caller[t] # Idle \/ \A u \in Task : caller[u].op # "reset"
      /\ Idle.op # "reset"
  BY DEF MayGo, Idle
<1>5. g[t] = Idle /\ \A v \in Task \ {t} : g[v] = caller[v]
  BY <1>1 DEF CallOk
<1>6. CallOk(g)
  BY <1>1, <1>4, CallMove
<1>7. ResetOk(g)
  BY <1>1, <1>4, CallMove
<1> HIDE DEF g
<1>8. ASSUME NEW r, NEW h, StoredOk(r, h, caller) PROVE LockOk(lock, lockq, g) /\ StoredOk(r, h, g)
  BY <1>1, <1>2, <1>5, <1>8, LockMove
<1>9. LockOk(lock, lockq, g)
  BY <1>8 DEF IInv, QueueInv
<1>10. SemsOk(count', not_empty', not_full', g)
  <2>1. /\ not_empty' + Ne(g[t]) - count' = not_empty + Ne(caller[t]) - count
        /\ not_full' + Nf(g[t]) + count' = not_full + Nf(caller[t]) + count
    BY <1>2, <1>3, <1>5
  <2>2. QED
    BY <1>1, <1>3, <1>5, <2>1, SemsMove
<1>11. HintRd(count', wake_rd, g)
  <2>1. count' - count <= Rd(g[t]) - Rd(caller[t])
    BY <1>2, <1>3, <1>5
  <2>2. g[t].at # "wait_rd"
    BY <1>2, <1>5
  <2>3. QED
    BY <1>1, <1>3, <1>5, <2>1, <2>2, RdMove
<1>12. CASE Sleepers("wait_wr") = {} /\ wake_wr' = 1 /\ caller' = g
  <2>1. ~\E u \in User : g[u].at = "wait_wr"
    BY <1>2, <1>5, <1>12 DEF Sleepers, Task
  <2>2. HintWr(count', wake_wr', g)
    BY <1>12, <2>1 DEF HintWr
  <2>3. SemInv'
    BY <1>10, <1>11, <1>12, <2>2 DEF SemInv
  <2>4. CallInv'
    BY <1>6, <1>7, <1>9, <1>12 DEF CallInv, LOCK
  <2>5. QED
    BY <1>8, <1>12, <2>3, <2>4
<1>13. ASSUME NEW u \in Sleepers("wait_wr"), wake_wr' = wake_wr,
              caller' = [caller EXCEPT ![t] = Idle, ![u].at = "retry"]
       PROVE  SemInv' /\ CallInv' /\ \A r, h : StoredOk(r, h, caller) => StoredOk(r, h, caller')
  <2> DEFINE woken == [at |-> "retry", op |-> "send"]
  <2>1. u \in User /\ u \in Task /\ u \notin Priv /\ caller[u].at = "wait_wr" /\ u # t
    BY <1>13 DEF Sleepers, Task, Users
  <2>2. caller[u] = [at |-> "wait_wr", op |-> "send"]
    BY <1>1, <2>1 DEF CallOk, UserCall, Idle
  <2>3. g[u] = [at |-> "wait_wr", op |-> "send"]
    BY <1>5, <2>1, <2>2
  <2>4. caller' = [g EXCEPT ![u] = woken]
    <3>1. [g[u] EXCEPT !.at = "retry"] = woken
      BY <2>3
    <3>2. caller' = [g EXCEPT ![u] = [g[u] EXCEPT !.at = "retry"]]
      BY <1>13 DEF g
    <3>3. QED
      BY <3>1, <3>2
  <2>5. woken \in UserCall /\ woken.at = "retry" /\ woken.op = "send"
    BY DEF UserCall
  <2>6. /\ Ne(woken) = 0 /\ Nf(woken) = 0 /\ Rd(woken) = 0
        /\ Ne(g[u]) = 0 /\ Nf(g[u]) = 0 /\ Rd(g[u]) = 0
        /\ g[u].at = "wait_wr" /\ g[u].op = "send"
    BY <2>3, WeightOf
  <2>7. g[u] # Idle
    BY <2>6 DEF Idle
  <2>8. caller'[u] = woken /\ \A v \in Task \ {u} : caller'[v] = g[v]
    BY <1>6, <2>1, <2>4 DEF CallOk
  <2>9. CallOk(caller')
    BY <1>6, <1>7, <2>1, <2>4, <2>5, <2>7, CallMove
  <2>10. ResetOk(caller')
    BY <1>6, <1>7, <2>1, <2>4, <2>5, <2>7, CallMove
  <2> HIDE DEF woken
  <2>11. ASSUME NEW r, NEW h, StoredOk(r, h, caller)
         PROVE  LockOk(lock, lockq, caller') /\ StoredOk(r, h, caller')
    <3>1. LockOk(lock, lockq, g) /\ StoredOk(r, h, g)
      BY <1>8, <2>11
    <3>2. g[u].at \notin AtLock /\ caller'[u].at \notin AtLock
      BY <2>5, <2>6, <2>8 DEF AtLock
    <3>3. QED
      BY <2>1, <2>8, <3>1, <3>2, LockMove
  <2>12. SemsOk(count', not_empty', not_full', caller')
    <3>1. /\ not_empty' + Ne(caller'[u]) - count' = not_empty' + Ne(g[u]) - count'
          /\ not_full' + Nf(caller'[u]) + count' = not_full' + Nf(g[u]) + count'
      BY <2>6, <2>8
    <3>2. QED
      BY <1>10, <2>1, <2>8, <3>1, SemsMove
  <2>13. HintRd(count', wake_rd', caller')
    <3>1. count' - count' <= Rd(caller'[u]) - Rd(g[u])
      BY <2>6, <2>8
    <3>2. caller'[u].at # "wait_rd"
      BY <2>5, <2>8
    <3>3. QED
      BY <1>11, <2>1, <2>8, <3>1, <3>2, RdMove
  <2>14. HintWr(count', wake_wr', caller')
    <3>1. count - count' <= 1 + Wr(g[t]) - Wr(caller[t])
      BY <1>2, <1>3, <1>5
    <3>2. g[t].at # "wait_wr"
      BY <1>2, <1>5
    <3>3. caller'[u] = [at |-> "retry", op |-> "send"]
      BY <2>8 DEF woken
    <3>4. HintWr(count', wake_wr, caller')
      BY <1>1, <1>3, <1>5, <2>1, <2>8, <3>1, <3>2, <3>3, WrWake
    <3>5. QED
      BY <1>13, <3>4
  <2>15. SemInv'
    BY <2>12, <2>13, <2>14 DEF SemInv
  <2>16. LockOk(lock, lockq, caller')
    BY <2>11 DEF IInv, QueueInv
  <2>17. CallInv'
    BY <2>9, <2>10, <2>16 DEF CallInv, LOCK
  <2>18. QED
    BY <2>11, <2>15, <2>17
<1>14. QED
  BY <1>12, <1>13 DEF GiveHint, g

\* mpmc_pop_timeout: the element taken is one that the call accounts for.
LEMMA PopTakeSafe ==
    ASSUME Users, IInv, NEW t \in Priv, PopTake(t)
    PROVE  IInv'
<1> DEFINE d == [at |-> "lock", op |-> "pop"]
<1>1. /\ t \in Task /\ t \notin User /\ caller[t] = Idle /\ not_full' = not_full
      /\ UNCHANGED <<QUEUE, LOCK, wake_rd, wake_wr>> /\ \A u \in Task : caller[u].op # "reset"
      /\ not_empty > 0 /\ not_empty' = not_empty - 1 /\ caller' = [caller EXCEPT ![t] = d]
  BY BeginIs DEF PopTake, Users, Task
<1>2. not_empty \in Nat /\ not_full \in Nat /\ count \in Int /\ count' = count
  BY <1>1, Numbers DEF QUEUE
<1>3. Ne(Idle) = 0 /\ Nf(Idle) = 0 /\ Rd(Idle) = 0 /\ Wr(Idle) = 0 /\ Idle.at \notin AtLock
  BY WeightOf DEF Idle, AtLock
<1>4. d \in PrivCall /\ d.at = "lock" /\ d.op = "pop"
  BY DEF PrivCall
<1> HIDE DEF d
<1>5. Ne(d) = 1 /\ Nf(d) = 0 /\ Rd(d) = 1 /\ Wr(d) = 0
  BY <1>4, WeightOf
<1>6. Matched(caller[t], d) /\ not_empty' \in Nat /\ not_full' \in Nat
  BY <1>1, <1>2, <1>3, <1>5 DEF Matched
<1>7. MayGo(t, d)
  BY <1>1, <1>4 DEF MayGo
<1>8. d.at \notin AtLock /\ d.at \notin {"wait_rd", "wait_wr"} /\ caller[t].at \notin AtLock
  BY <1>1, <1>3, <1>4 DEF AtLock
<1>9. QED
  BY <1>1, <1>6, <1>7, <1>8, PlainStep

\* mpmc_peek, mpmc_reset: the call begins.
LEMMA LookOrResetSafe ==
    ASSUME Users, IInv, NEW t \in Priv, NEW op \in {"peek", "reset"}, LookOrReset(t, op)
    PROVE  IInv'
<1> DEFINE d == [at |-> "lock", op |-> op]
<1>1. /\ t \in Task /\ t \notin User /\ caller[t] = Idle
      /\ UNCHANGED <<QUEUE, LOCK, SEMS>> /\ \A u \in Task : caller[u].op # "reset"
      /\ op = "reset" => \A u \in Task : caller[u] = Idle
      /\ caller' = [caller EXCEPT ![t] = d]
  BY BeginIs DEF LookOrReset, Users, Task
<1>2. /\ not_empty \in Nat /\ not_full \in Nat /\ count \in Int /\ count' = count
      /\ not_empty' = not_empty /\ not_full' = not_full /\ UNCHANGED <<wake_rd, wake_wr>>
  BY <1>1, Numbers DEF QUEUE, SEMS
<1>3. Ne(Idle) = 0 /\ Nf(Idle) = 0 /\ Rd(Idle) = 0 /\ Wr(Idle) = 0 /\ Idle.at \notin AtLock
  BY WeightOf DEF Idle, AtLock
<1>4. d \in PrivCall /\ d.at = "lock" /\ d.op = op
  BY DEF PrivCall
<1> HIDE DEF d
<1>5. Ne(d) = 0 /\ Nf(d) = 0 /\ Rd(d) = 0 /\ Wr(d) = 0
  BY <1>4, WeightOf
<1>6. Matched(caller[t], d) /\ not_empty' \in Nat /\ not_full' \in Nat
  BY <1>1, <1>2, <1>3, <1>5 DEF Matched
<1>7. MayGo(t, d)
  BY <1>1, <1>4 DEF MayGo
<1>8. d.at \notin AtLock /\ d.at \notin {"wait_rd", "wait_wr"} /\ caller[t].at \notin AtLock
  BY <1>1, <1>3, <1>4 DEF AtLock
<1>9. QED
  BY <1>1, <1>2, <1>6, <1>7, <1>8, PlainStep

\* The second take of an overwriting push that found room.
LEMMA OverwriteRetrySafe ==
    ASSUME Users, IInv, NEW t \in Priv, OverwriteRetry(t)
    PROVE  IInv'
<1>1. /\ t \in Task /\ t \notin User /\ caller[t] = [at |-> "again", op |-> "overwrite"]
      /\ UNCHANGED <<QUEUE, LOCK, wake_rd, wake_wr>> /\ not_empty' = not_empty
  BY DEF OverwriteRetry, Users, Task
<1>2. not_empty \in Nat /\ not_full \in Nat /\ count \in Int /\ count' = count
  BY <1>1, Numbers DEF QUEUE
<1>3. /\ Ne(caller[t]) = 0 /\ Nf(caller[t]) = 0 /\ Rd(caller[t]) = 0 /\ Wr(caller[t]) = 0
      /\ caller[t] # Idle /\ caller[t].at \notin AtLock
  <2>1. caller[t].at = "again" /\ caller[t].op = "overwrite"
    BY <1>1
  <2>2. Ne(caller[t]) = 0 /\ Nf(caller[t]) = 0 /\ Rd(caller[t]) = 0 /\ Wr(caller[t]) = 0
    BY <2>1, WeightOf
  <2>3. QED
    BY <2>1, <2>2 DEF Idle, AtLock
<1>4. ASSUME NEW d \in PrivCall, caller' = [caller EXCEPT ![t] = d],
             d.at \in {"lock", "idle"}, d.op # "reset",
             not_full' \in Nat, Ne(d) = 0, Rd(d) = 0, Nf(d) \in Nat, Wr(d) \in Nat,
             not_full' + Nf(d) = not_full
      PROVE  IInv'
  <2>1. Matched(caller[t], d) /\ not_empty' \in Nat
    BY <1>1, <1>2, <1>3, <1>4 DEF Matched
  <2>2. MayGo(t, d)
    BY <1>1, <1>3, <1>4 DEF MayGo
  <2>3. d.at \notin AtLock /\ d.at \notin {"wait_rd", "wait_wr"}
    BY <1>4 DEF AtLock
  <2>4. QED
    BY <1>1, <1>3, <1>4, <2>1, <2>2, <2>3, PlainStep
<1>5. CASE not_full > 0 /\ not_full' = not_full - 1
           /\ caller' = [caller EXCEPT ![t] = [at |-> "lock", op |-> "push"]]
  <2> DEFINE d == [at |-> "lock", op |-> "push"]
  <2>1. d \in PrivCall /\ d.at = "lock" /\ d.op = "push"
    BY DEF PrivCall
  <2> HIDE DEF d
  <2>2. Ne(d) = 0 /\ Nf(d) = 1 /\ Rd(d) = 0 /\ Wr(d) = 1
    BY <2>1, WeightOf
  <2>3. not_full' \in Nat /\ not_full' + Nf(d) = not_full
    BY <1>2, <1>5, <2>2
  <2>4. caller' = [caller EXCEPT ![t] = d]
    BY <1>5 DEF d
  <2>5. d.at \in {"lock", "idle"} /\ d.op # "reset" /\ Nf(d) \in Nat /\ Wr(d) \in Nat
    BY <2>1, <2>2
  <2>6. QED
    BY <1>4, <2>1, <2>2, <2>3, <2>4, <2>5
<1>6. CASE not_full' = not_full /\ caller' = [caller EXCEPT ![t] = Idle]
  <2>1. /\ Idle \in PrivCall /\ Idle.at = "idle" /\ Idle.op # "reset"
        /\ Ne(Idle) = 0 /\ Nf(Idle) = 0 /\ Rd(Idle) = 0 /\ Wr(Idle) = 0
    BY WeightOf DEF Idle, PrivCall
  <2>2. /\ Idle.at \in {"lock", "idle"} /\ Nf(Idle) \in Nat /\ Wr(Idle) \in Nat
        /\ not_full' \in Nat /\ not_full' + Nf(Idle) = not_full
    BY <1>2, <1>6, <2>1
  <2>3. QED
    BY <1>4, <1>6, <2>1, <2>2
<1>7. QED
  BY <1>5, <1>6 DEF OverwriteRetry, Return

\* A call is one of those that a sum counts.
LEMMA SumThere ==
    ASSUME Users, NEW f, NEW t \in Task
    PROVE  /\ NeSum(f) \in Nat /\ NfSum(f) \in Nat
           /\ Ne(f[t]) <= NeSum(f) /\ Nf(f[t]) <= NfSum(f)
<1>1. ASSUME NEW at, NEW ops
      PROVE  Num(f, at, ops) \in Nat /\ In(f[t], at, ops) \in {0, 1}
             /\ In(f[t], at, ops) <= Num(f, at, ops)
  <2>1. Num(f, at, ops) \in Nat
    BY OneMoves
  <2>2. CASE f[t].at \in at /\ f[t].op \in ops
    <3>1. Num(f, at, ops) >= 1
      BY <2>2, OneThere
    <3>2. QED
      BY <2>1, <2>2, <3>1 DEF In
  <2>3. CASE ~(f[t].at \in at /\ f[t].op \in ops)
    <3>1. In(f[t], at, ops) = 0
      BY <2>3 DEF In
    <3>2. QED
      BY <2>1, <3>1
  <2>4. QED
    BY <2>2, <2>3
<1>2. NeSum(f) \in Nat /\ Ne(f[t]) <= NeSum(f)
  BY <1>1 DEF NeSum, Ne
<1>3. NfSum(f) \in Nat /\ Nf(f[t]) <= NfSum(f)
  BY <1>1 DEF NfSum, Nf
<1>4. QED
  BY <1>2, <1>3

\* v_semaphore_give: the count is below its limit, so the unit is not lost.
LEMMA GiveSemSafe ==
    ASSUME Users, IInv, NEW t \in Priv, GiveSem(t)
    PROVE  IInv'
<1>1. /\ t \in Task /\ t \notin User /\ caller[t].at = "give" /\ CallOk(caller)
      /\ UNCHANGED <<QUEUE, LOCK, wake_rd, wake_wr>> /\ Goto(t, "hint")
  BY DEF GiveSem, Users, Task, IInv, CallInv
<1> DEFINE d == [at |-> "hint", op |-> caller[t].op]
<1>2. caller' = [caller EXCEPT ![t] = d]
  BY <1>1, GotoIs
<1>3. /\ not_empty \in Nat /\ not_full \in Nat /\ count \in 0..Capacity /\ count' = count
      /\ not_empty + NeSum(caller) = count /\ not_full + NfSum(caller) = Capacity - count
      /\ Capacity \in Nat /\ count \in Int
  BY <1>1, Numbers DEF QUEUE, Users
<1>4. /\ NeSum(caller) \in Nat /\ NfSum(caller) \in Nat
      /\ Ne(caller[t]) <= NeSum(caller) /\ Nf(caller[t]) <= NfSum(caller)
  BY <1>1, SumThere
<1>5. caller[t].op \in {"push", "pop"} /\ caller[t].op # "reset" /\ caller[t] # Idle
      /\ caller[t].at \notin AtLock
  BY <1>1 DEF CallOk, PrivCall, Idle, AtLock
<1>6. d \in PrivCall /\ d.at = "hint" /\ d.op = caller[t].op
  BY <1>5 DEF PrivCall
<1> HIDE DEF d
<1>7. MayGo(t, d) /\ d.at \notin AtLock /\ d.at \notin {"wait_rd", "wait_wr"}
  BY <1>1, <1>5, <1>6 DEF MayGo, AtLock
<1>8. CASE caller[t].op = "push"
  <2>1. Ne(caller[t]) = 1 /\ Nf(caller[t]) = 0 /\ Rd(caller[t]) = 1 /\ Wr(caller[t]) = 0
    BY <1>1, <1>8, WeightOf
  <2>2. Ne(d) = 0 /\ Nf(d) = 0 /\ Rd(d) = 1 /\ Wr(d) = 0
    BY <1>6, <1>8, WeightOf
  <2>3. not_empty' = not_empty + 1 /\ not_full' = not_full
    BY <1>3, <1>4, <1>8, <2>1 DEF GiveSem, AtMost
  <2>4. Matched(caller[t], d) /\ not_empty' \in Nat /\ not_full' \in Nat
    BY <1>3, <2>1, <2>2, <2>3 DEF Matched
  <2>5. QED
    BY <1>1, <1>2, <1>5, <1>7, <2>4, PlainStep
<1>9. CASE caller[t].op = "pop"
  <2>1. Ne(caller[t]) = 0 /\ Nf(caller[t]) = 1 /\ Rd(caller[t]) = 0 /\ Wr(caller[t]) = 1
    BY <1>1, <1>9, WeightOf
  <2>2. Ne(d) = 0 /\ Nf(d) = 0 /\ Rd(d) = 0 /\ Wr(d) = 1
    BY <1>6, <1>9, WeightOf
  <2>3. not_full' = not_full + 1 /\ not_empty' = not_empty
    BY <1>3, <1>4, <1>9, <2>1 DEF GiveSem, AtMost
  <2>4. Matched(caller[t], d) /\ not_empty' \in Nat /\ not_full' \in Nat
    BY <1>3, <2>1, <2>2, <2>3 DEF Matched
  <2>5. QED
    BY <1>1, <1>2, <1>5, <1>7, <2>4, PlainStep
<1>10. QED
  BY <1>5, <1>8, <1>9

\* The wait times out: one sleeper less.
LEMMA GiveUpSafe ==
    ASSUME Users, IInv, NEW t \in User, GiveUp(t)
    PROVE  IInv'
<1>1. /\ t \in Task /\ t \notin Priv /\ caller[t].at \in {"wait_rd", "wait_wr"}
      /\ UNCHANGED <<QUEUE, LOCK, SEMS>> /\ caller' = [caller EXCEPT ![t] = Idle]
      /\ CallOk(caller)
  BY DEF GiveUp, Return, Users, Task, IInv, CallInv
<1>2. /\ not_empty \in Nat /\ not_full \in Nat /\ count \in Int /\ count' = count
      /\ not_empty' = not_empty /\ not_full' = not_full /\ UNCHANGED <<wake_rd, wake_wr>>
  BY <1>1, Numbers DEF QUEUE, SEMS
<1>3. /\ Ne(Idle) = 0 /\ Nf(Idle) = 0 /\ Rd(Idle) = 0 /\ Wr(Idle) = 0 /\ Idle.at \notin AtLock
      /\ Idle.at \notin {"wait_rd", "wait_wr"} /\ Idle.op # "reset" /\ Idle \in UserCall
  BY WeightOf DEF Idle, AtLock, UserCall
<1>4. caller[t].op \in {"send", "recv"} /\ caller[t] # Idle /\ caller[t].at \notin AtLock
  BY <1>1 DEF CallOk, UserCall, Idle, AtLock
<1>5. Ne(caller[t]) = 0 /\ Nf(caller[t]) = 0 /\ Rd(caller[t]) = 0 /\ Wr(caller[t]) = 0
  BY <1>1, <1>4, WeightOf
<1>6. Matched(caller[t], Idle)
  BY <1>2, <1>3, <1>5 DEF Matched
<1>7. MayGo(t, Idle)
  BY <1>1, <1>3, <1>4 DEF MayGo
<1>8. QED
  BY <1>1, <1>2, <1>3, <1>4, <1>6, <1>7, PlainStep

\* The hint is given.
LEMMA HintSafe ==
    ASSUME Users, IInv, NEW t \in Priv, Hint(t)
    PROVE  IInv'
<1>1. /\ t \in Task /\ t \notin User /\ caller[t].at = "hint" /\ CallOk(caller)
      /\ UNCHANGED <<QUEUE, LOCK, not_empty, not_full>>
  BY DEF Hint, Users, Task, IInv, CallInv
<1>2. /\ not_empty' \in Nat /\ not_full' \in Nat /\ count \in Int /\ count' = count
      /\ not_empty' = not_empty /\ not_full' = not_full
  BY <1>1, Numbers DEF QUEUE
<1>3. /\ caller[t] # Idle /\ caller[t].at \notin AtLock
      /\ caller[t].at \notin {"wait_rd", "wait_wr"}
  BY <1>1 DEF Idle, AtLock
<1>4. MayGo(t, Idle)
  BY <1>1, <1>3 DEF MayGo, PrivCall, Idle
<1>5. SemInv' /\ CallInv' /\ \A r, h : StoredOk(r, h, caller) => StoredOk(r, h, caller')
  <2>1. CASE caller[t].op = "push" /\ GiveHint(t, Idle, "wait_rd", wake_rd) /\ UNCHANGED wake_wr
    <3>1. Ne(caller[t]) = 0 /\ Nf(caller[t]) = 0 /\ Rd(caller[t]) = 1 /\ Wr(caller[t]) = 0
      BY <1>1, <2>1, WeightOf
    <3>2. /\ not_empty' - count' = not_empty + Ne(caller[t]) - count
          /\ not_full' + count' = not_full + Nf(caller[t]) + count
          /\ count' - count <= 1 - Rd(caller[t]) /\ count - count' <= -Wr(caller[t])
      BY <1>2, <3>1
    <3>3. QED
      BY <1>1, <1>2, <1>3, <1>4, <2>1, <3>2, HintRdGiven
  <2>2. CASE caller[t].op = "pop" /\ GiveHint(t, Idle, "wait_wr", wake_wr) /\ UNCHANGED wake_rd
    <3>1. Ne(caller[t]) = 0 /\ Nf(caller[t]) = 0 /\ Rd(caller[t]) = 0 /\ Wr(caller[t]) = 1
      BY <1>1, <2>2, WeightOf
    <3>2. /\ not_empty' - count' = not_empty + Ne(caller[t]) - count
          /\ not_full' + count' = not_full + Nf(caller[t]) + count
          /\ count - count' <= 1 - Wr(caller[t]) /\ count' - count <= -Rd(caller[t])
      BY <1>2, <3>1
    <3>3. QED
      BY <1>1, <1>2, <1>3, <1>4, <2>2, <3>2, HintWrGiven
  <2>3. QED
    BY <2>1, <2>2 DEF Hint
<1>6. QueueInv'
  BY <1>1, <1>5 DEF IInv, QueueInv, QUEUE
<1>7. QED
  BY <1>5, <1>6 DEF IInv

\* v_mutex_lock: the task has the mutex or is parked on it.
LEMMA LockSafe ==
    ASSUME Users, IInv, NEW t \in Priv, Lock(t)
    PROVE  IInv'
<1>1. /\ t \in Task /\ t \notin User /\ t # NULL /\ caller[t].at = "lock" /\ CallOk(caller)
      /\ UNCHANGED <<QUEUE, SEMS>> /\ LockOk(lock, lockq, caller)
  BY DEF Lock, Users, Task, IInv, CallInv
<1>2. t \notin ToSet(lockq) /\ lock # t /\ lockq \in Seq(Priv) /\ ToSet(lockq) \subseteq Priv
  <2>1. t \notin ToSet(lockq) /\ lock # t /\ lockq \in Seq(Priv)
    BY <1>1 DEF LockOk
  <2>2. QED
    BY <2>1, LenProperties, ElementOfSeq DEF ToSet
<1>3. /\ not_empty \in Nat /\ not_full \in Nat /\ count \in Int /\ count' = count
      /\ not_empty' = not_empty /\ not_full' = not_full /\ UNCHANGED <<wake_rd, wake_wr>>
  BY <1>1, Numbers DEF QUEUE, SEMS
<1>4. caller[t].op \in {"push", "pop", "overwrite", "peek", "reset"} /\ caller[t] # Idle
  BY <1>1 DEF CallOk, PrivCall, Idle
<1>5. ASSUME NEW x \in {"in", "parked"}, Goto(t, x), LockOk(lock', lockq', caller')
      PROVE  IInv'
  <2> DEFINE d == [at |-> x, op |-> caller[t].op]
  <2>1. caller' = [caller EXCEPT ![t] = d]
    BY <1>1, <1>5, GotoIs
  <2>2. d \in PrivCall /\ d.at = x /\ d.op = caller[t].op
    BY <1>4 DEF PrivCall
  <2> HIDE DEF d
  <2>3. MayGo(t, d)
    BY <1>1, <1>4, <2>2 DEF MayGo
  <2>4. /\ caller'[t] = d /\ \A u \in Task \ {t} : caller'[u] = caller[u]
        /\ CallOk(caller') /\ ResetOk(caller')
    BY <1>1, <2>1, <2>3, OneCall
  <2>5. /\ Ne(d) = Ne(caller[t]) /\ Nf(d) = Nf(caller[t])
        /\ Rd(d) = Rd(caller[t]) /\ Wr(d) = Wr(caller[t])
    BY <1>1, <2>2 DEF Ne, Nf, Rd, Wr, In
  <2>6. Ne(d) \in Nat /\ Nf(d) \in Nat /\ Rd(d) \in Nat /\ Wr(d) \in Nat
    BY Weights
  <2>7. SemInv'
    <3>1. d.at \notin {"wait_rd", "wait_wr"} /\ not_empty' \in Nat /\ not_full' \in Nat
      BY <1>3, <2>2
    <3>2. /\ not_empty' + Ne(d) - count' = not_empty + Ne(caller[t]) - count
          /\ not_full' + Nf(d) + count' = not_full + Nf(caller[t]) + count
          /\ count' - count <= Rd(d) - Rd(caller[t]) /\ count - count' <= Wr(d) - Wr(caller[t])
      BY <1>3, <2>5, <2>6
    <3>3. QED
      BY <1>1, <1>3, <2>4, <3>1, <3>2, SemStep DEF IInv
  <2>8. QueueInv'
    <3>1. StoredOk(ring, head, caller')
      BY <2>2, <2>4 DEF IInv, QueueInv, StoredOk, Task
    <3>2. QED
      BY <1>1, <3>1 DEF IInv, QueueInv, QUEUE
  <2>9. QED
    BY <1>5, <2>4, <2>7, <2>8 DEF IInv, CallInv
<1>6. ASSUME NEW x, Goto(t, x)
      PROVE  /\ caller'[t].at = x /\ \A u \in Task \ {t} : caller'[u] = caller[u]
  <2>1. caller' = [caller EXCEPT ![t] = [at |-> x, op |-> caller[t].op]]
    BY <1>1, <1>6, GotoIs
  <2>2. QED
    BY <1>1, <2>1 DEF CallOk
<1>7. CASE lock = NULL /\ lock' = t /\ Goto(t, "in") /\ UNCHANGED lockq
  <2>1. caller'[t].at = "in" /\ \A u \in Task \ {t} : caller'[u] = caller[u]
    BY <1>6, <1>7
  <2>2. \A u \in ToSet(lockq) : caller'[u].at = "parked"
    BY <1>1, <1>2, <2>1 DEF LockOk, Task
  <2>3. ASSUME NEW u \in Priv
        PROVE  t = u <=>
                 \/ caller'[u].at \in {"in", "stored"}
                 \/ caller'[u].at = "parked" /\ u \notin ToSet(lockq)
    <3>1. CASE u = t
      BY <2>1, <3>1
    <3>2. CASE u # t
      <4>1. lock # u /\ caller'[u] = caller[u]
        BY <1>7, <2>1, <3>2 DEF Users, Task
      <4>2. QED
        BY <1>1, <3>2, <4>1 DEF LockOk
    <3>3. QED
      BY <3>1, <3>2
  <2>4. LockOk(lock', lockq', caller')
    BY <1>1, <1>7, <2>2, <2>3 DEF LockOk
  <2>5. QED
    BY <1>5, <1>7, <2>4
<1>8. CASE lock # NULL /\ lockq' = Append(lockq, t) /\ Goto(t, "parked") /\ UNCHANGED lock
  <2>1. caller'[t].at = "parked" /\ \A u \in Task \ {t} : caller'[u] = caller[u]
    BY <1>6, <1>8
  <2>2. /\ lockq' \in Seq(Priv) /\ ToSet(lockq') = ToSet(lockq) \cup {t} /\ NoDup(lockq')
    BY <1>1, <1>2, <1>8, AppendRange DEF LockOk
  <2>3. \A u \in ToSet(lockq') : caller'[u].at = "parked"
    BY <1>1, <1>2, <2>1, <2>2 DEF LockOk, Task
  <2>4. ASSUME NEW u \in Priv
        PROVE  lock = u <=>
                 \/ caller'[u].at \in {"in", "stored"}
                 \/ caller'[u].at = "parked" /\ u \notin ToSet(lockq')
    <3>1. CASE u = t
      BY <1>2, <2>1, <2>2, <3>1
    <3>2. CASE u # t
      BY <1>1, <2>1, <2>2, <3>2 DEF LockOk, Task
    <3>3. QED
      BY <3>1, <3>2
  <2>5. LockOk(lock', lockq', caller')
    BY <1>1, <1>8, <2>2, <2>3, <2>4 DEF LockOk
  <2>6. QED
    BY <1>5, <1>8, <2>5
<1>9. QED
  BY <1>7, <1>8 DEF Lock

\* A task goes on inside the section it owns, with the ring as d says.
LEMMA WithinStep ==
    ASSUME Users, IInv, NEW t \in Priv, lock = t, caller[t].at \in {"parked", "in"},
           NEW x \in {"in", "stored"}, Goto(t, x), x = "stored" => caller[t].op = "push",
           UNCHANGED <<count, LOCK, SEMS>>,
           RingOk(ring', head', tail', count', content'), x = "stored" => ring'[head'] = t
    PROVE  IInv'
<1>1. /\ t \in Task /\ t \notin User /\ CallOk(caller) /\ LockOk(lock, lockq, caller)
  BY DEF Users, Task, IInv, CallInv
<1>2. /\ not_empty \in Nat /\ not_full \in Nat /\ count \in Int /\ count' = count
      /\ not_empty' = not_empty /\ not_full' = not_full /\ UNCHANGED <<wake_rd, wake_wr>>
  BY Numbers DEF SEMS
<1>3. caller[t].op \in {"push", "pop", "overwrite", "peek", "reset"} /\ caller[t] # Idle
  BY <1>1 DEF CallOk, PrivCall, Idle
<1> DEFINE d == [at |-> x, op |-> caller[t].op]
<1>4. caller' = [caller EXCEPT ![t] = d]
  BY <1>1, GotoIs
<1>5. d \in PrivCall /\ d.at = x /\ d.op = caller[t].op
  BY <1>3 DEF PrivCall
<1> HIDE DEF d
<1>6. MayGo(t, d)
  BY <1>1, <1>3, <1>5 DEF MayGo
<1>7. /\ caller'[t] = d /\ \A u \in Task \ {t} : caller'[u] = caller[u]
      /\ CallOk(caller') /\ ResetOk(caller')
  BY <1>1, <1>4, <1>6, OneCall
<1>8. /\ Ne(d) = Ne(caller[t]) /\ Nf(d) = Nf(caller[t])
      /\ Rd(d) = Rd(caller[t]) /\ Wr(d) = Wr(caller[t])
  <2>1. CASE caller[t].op = "push"
    BY <1>5, <2>1, WeightOf
  <2>2. CASE caller[t].op # "push"
    BY <1>3, <1>5, <2>2, WeightOf
  <2>3. QED
    BY <2>1, <2>2
<1>9. SemInv'
  <2>1. d.at \notin {"wait_rd", "wait_wr"} /\ not_empty' \in Nat /\ not_full' \in Nat
    BY <1>2, <1>5
  <2>2. Ne(d) \in Nat /\ Nf(d) \in Nat /\ Rd(d) \in Nat /\ Wr(d) \in Nat
    BY Weights
  <2>3. /\ not_empty' + Ne(d) - count' = not_empty + Ne(caller[t]) - count
        /\ not_full' + Nf(d) + count' = not_full + Nf(caller[t]) + count
        /\ count' - count <= Rd(d) - Rd(caller[t]) /\ count - count' <= Wr(d) - Wr(caller[t])
    BY <1>2, <1>8, <2>2
  <2>4. QED
    BY <1>1, <1>2, <1>7, <2>1, <2>3, SemStep DEF IInv
<1>10. t \notin ToSet(lockq) /\ ToSet(lockq) \subseteq Priv
  <2>1. t \notin ToSet(lockq) /\ lockq \in Seq(Priv)
    BY <1>1 DEF LockOk
  <2>2. QED
    BY <2>1, LenProperties, ElementOfSeq DEF ToSet
<1>11. LockOk(lock, lockq, caller')
  <2>1. \A u \in ToSet(lockq) : caller'[u].at = "parked"
    BY <1>1, <1>7, <1>10 DEF LockOk, Task
  <2>2. ASSUME NEW u \in Priv
        PROVE  lock = u <=>
                 \/ caller'[u].at \in {"in", "stored"}
                 \/ caller'[u].at = "parked" /\ u \notin ToSet(lockq)
    <3>1. CASE u = t
      BY <1>5, <1>7, <3>1
    <3>2. CASE u # t
      BY <1>1, <1>7, <3>2 DEF LockOk, Task
    <3>3. QED
      BY <3>1, <3>2
  <2>3. QED
    BY <1>1, <2>1, <2>2 DEF LockOk
<1>12. StoredOk(ring', head', caller')
  <2> SUFFICES ASSUME NEW u \in Priv, caller'[u].at = "stored" PROVE ring'[head'] = u
    BY DEF StoredOk
  <2>1. lock = u
    BY <1>11 DEF LockOk
  <2>2. QED
    BY <1>5, <1>7, <2>1
<1>13. CallInv'
  BY <1>7, <1>11 DEF CallInv, LOCK
<1>14. QueueInv'
  BY <1>12 DEF QueueInv
<1>15. QED
  BY <1>9, <1>13, <1>14 DEF IInv

\* The owner of the mutex has it.
LEMMA OwnerIs ==
    ASSUME Users, IInv, NEW t \in Priv, caller[t].at \in {"in", "stored"}
    PROVE  lock = t
BY DEF IInv, CallInv, LockOk

\* A parked task that was handed the mutex, and a push that stores its element: there is
\* a hole, the one it took.
LEMMA WithinSafe ==
    ASSUME Users, IInv, NEW t \in Priv, Granted(t) \/ PushIn(t)
    PROVE  IInv'
<1>1. t \in Task /\ RingOk(ring, head, tail, count, content)
  BY DEF Task, IInv, QueueInv
<1>2. CASE Granted(t)
  <2>1. /\ caller[t].at = "parked" /\ lock = t /\ Goto(t, "in")
        /\ UNCHANGED <<QUEUE, LOCK, SEMS>>
    BY <1>2 DEF Granted
  <2>2. RingOk(ring', head', tail', count', content') /\ count' = count
    BY <1>1, <2>1 DEF QUEUE
  <2>3. "in" \in {"in", "stored"} /\ "in" # "stored"
    OBVIOUS
  <2>4. QED
    BY <2>1, <2>2, <2>3, WithinStep
<1>3. CASE PushIn(t)
  <2>1. /\ caller[t] = [at |-> "in", op |-> "push"] /\ Goto(t, "stored")
        /\ ring' = [ring EXCEPT ![head] = t]
        /\ UNCHANGED <<head, tail, count, content, LOCK, SEMS>>
    BY <1>3 DEF PushIn
  <2>2. caller[t].at = "in" /\ caller[t].op = "push" /\ lock = t
    BY <2>1, OwnerIs
  <2>3. count < Capacity
    <3>1. Nf(caller[t]) = 1
      BY <2>2, WeightOf
    <3>2. NfSum(caller) \in Nat /\ Nf(caller[t]) <= NfSum(caller)
      BY <1>1, SumThere
    <3>3. QED
      BY <3>1, <3>2, Numbers DEF Users
  <2>4. RingOk(ring', head, tail, count, content) /\ ring'[head] = t
    <3>1. RingOk([ring EXCEPT ![head] = t], head, tail, count, content)
      BY <1>1, <2>3, RingStore
    <3>2. [ring EXCEPT ![head] = t][head] = t
      BY <1>1, <2>3, RingStore
    <3>3. QED
      BY <2>1, <3>1, <3>2
  <2>5. RingOk(ring', head', tail', count', content') /\ ring'[head'] = t /\ count' = count
    BY <2>1, <2>4
  <2>6. QED
    BY <2>1, <2>2, <2>5, WithinStep
<1>4. QED
  BY <1>2, <1>3

\* A task leaves the section.
LEMMA LeaveStep ==
    ASSUME Users, IInv, NEW t \in Priv, caller[t].at \in {"in", "stored"}, Unlock,
           NEW d, caller' = [caller EXCEPT ![t] = d], MayGo(t, d), d.at \notin AtLock,
           RingOk(ring', head', tail', count', content'), SemInv'
    PROVE  IInv'
<1>1. t \in Task /\ LockOk(lock, lockq, caller)
  BY DEF Task, IInv, CallInv
<1>2. /\ caller'[t] = d /\ \A u \in Task \ {t} : caller'[u] = caller[u]
      /\ CallOk(caller') /\ ResetOk(caller')
  BY <1>1, OneCall
<1>3. LockOk(lock', lockq', caller') /\ \A u \in Priv : caller'[u].at # "stored"
  BY <1>1, <1>2, UnlockMove
<1>4. QED
  BY <1>2, <1>3 DEF IInv, QueueInv, CallInv, StoredOk

\* A push or a pop ends in the section: the count moves with the call's place in the sums.
LEMMA PushMoveSafe ==
    ASSUME Users, IInv, NEW t \in Priv, PushMove(t)
    PROVE  IInv'
<1>1. /\ t \in Task /\ t \notin User /\ caller[t] = [at |-> "stored", op |-> "push"]
      /\ head' = Mod(head + 1) /\ count' = count + 1 /\ content' = Append(content, t)
      /\ Unlock /\ Goto(t, "give") /\ UNCHANGED <<ring, tail, SEMS>>
      /\ CallOk(caller) /\ RingOk(ring, head, tail, count, content)
      /\ StoredOk(ring, head, caller)
  BY DEF PushMove, Users, Task, IInv, CallInv, QueueInv
<1>2. caller[t].at = "stored" /\ caller[t].op = "push" /\ caller[t] # Idle
  BY <1>1 DEF Idle
<1>3. Ne(caller[t]) = 0 /\ Nf(caller[t]) = 1 /\ Rd(caller[t]) = 0 /\ Wr(caller[t]) = 1
  BY <1>2, WeightOf
<1>4. /\ not_empty \in Nat /\ not_full \in Nat /\ count \in Int
      /\ not_empty' = not_empty /\ not_full' = not_full /\ UNCHANGED <<wake_rd, wake_wr>>
  BY <1>1, Numbers DEF SEMS
<1>5. count < Capacity
  <2>1. NfSum(caller) \in Nat /\ Nf(caller[t]) <= NfSum(caller)
    BY <1>1, SumThere
  <2>2. QED
    BY <1>3, <2>1, Numbers DEF Users
<1>6. ring[head] = t
  BY <1>1, <1>2 DEF StoredOk
<1>7. RingOk(ring', head', tail', count', content')
  <2>1. RingOk(ring, Mod(head + 1), tail, count + 1, Append(content, t))
    BY <1>1, <1>5, <1>6, RingPush
  <2>2. QED
    BY <1>1, <2>1
<1> DEFINE d == [at |-> "give", op |-> "push"]
<1>8. caller' = [caller EXCEPT ![t] = d]
  BY <1>1, <1>2, GotoIs
<1>9. d \in PrivCall /\ d.at = "give" /\ d.op = "push"
  BY DEF PrivCall
<1> HIDE DEF d
<1>10. MayGo(t, d) /\ d.at \notin AtLock /\ d.at \notin {"wait_rd", "wait_wr"}
  BY <1>1, <1>2, <1>9 DEF MayGo, AtLock
<1>11. Ne(d) = 1 /\ Nf(d) = 0 /\ Rd(d) = 1 /\ Wr(d) = 0
  BY <1>9, WeightOf
<1>12. caller'[t] = d /\ \A u \in Task \ {t} : caller'[u] = caller[u]
  BY <1>1, <1>8, <1>10, OneCall
<1>13. SemInv'
  <2>1. /\ not_empty' + Ne(d) - count' = not_empty + Ne(caller[t]) - count
        /\ not_full' + Nf(d) + count' = not_full + Nf(caller[t]) + count
        /\ count' - count <= Rd(d) - Rd(caller[t]) /\ count - count' <= Wr(d) - Wr(caller[t])
        /\ count' \in Int /\ not_empty' \in Nat /\ not_full' \in Nat
    <3>1. count' = count + 1
      BY <1>1
    <3>2. QED
      BY <1>3, <1>4, <1>11, <3>1
  <2>2. QED
    BY <1>1, <1>4, <1>10, <1>12, <2>1, SemStep DEF IInv
<1>14. QED
  BY <1>1, <1>2, <1>7, <1>8, <1>10, <1>13, LeaveStep

\* The tail wraps as the head does.
LEMMA PopRingIs ==
    ASSUME Users, RingOk(ring, head, tail, count, content), count > 0, PopRing
    PROVE  RingOk(ring', head', tail', count', content') /\ count' = count - 1
<1>1. tail \in Slots /\ Capacity \in Nat \ {0}
  BY DEF RingOk, Users
<1>2. tail' = Mod(tail + 1)
  <2>1. (tail + 1) % Capacity = IF tail + 1 = Capacity THEN 0 ELSE tail + 1
    BY <1>1, CounterNext DEF Slots
  <2>2. QED
    BY <1>1, <2>1 DEF PopRing, Mod, Slots
<1>3. RingOk(ring, head, Mod(tail + 1), count - 1, Tail(content)) /\ content # <<>>
  BY RingPop
<1>4. QED
  BY <1>2, <1>3 DEF PopRing

\* The element is popped under the mutex (mpmc_pop_timeout).
LEMMA PopInSafe ==
    ASSUME Users, IInv, NEW t \in Priv, PopIn(t)
    PROVE  IInv'
<1>1. /\ t \in Task /\ t \notin User /\ caller[t] = [at |-> "in", op |-> "pop"]
      /\ PopRing /\ Unlock /\ Goto(t, "give") /\ UNCHANGED SEMS
      /\ CallOk(caller) /\ RingOk(ring, head, tail, count, content)
  BY DEF PopIn, Users, Task, IInv, CallInv, QueueInv
<1>2. caller[t].at = "in" /\ caller[t].op = "pop" /\ caller[t] # Idle
  BY <1>1 DEF Idle
<1>3. Ne(caller[t]) = 1 /\ Nf(caller[t]) = 0 /\ Rd(caller[t]) = 1 /\ Wr(caller[t]) = 0
  BY <1>2, WeightOf
<1>4. /\ not_empty \in Nat /\ not_full \in Nat /\ count \in Int
      /\ not_empty' = not_empty /\ not_full' = not_full /\ UNCHANGED <<wake_rd, wake_wr>>
  BY <1>1, Numbers DEF SEMS
<1>5. count > 0
  <2>1. NeSum(caller) \in Nat /\ Ne(caller[t]) <= NeSum(caller)
    BY <1>1, SumThere
  <2>2. QED
    BY <1>3, <2>1, Numbers DEF Users
<1>6. RingOk(ring', head', tail', count', content') /\ count' = count - 1
  BY <1>1, <1>5, PopRingIs
<1> DEFINE d == [at |-> "give", op |-> "pop"]
<1>7. caller' = [caller EXCEPT ![t] = d]
  BY <1>1, <1>2, GotoIs
<1>8. d \in PrivCall /\ d.at = "give" /\ d.op = "pop"
  BY DEF PrivCall
<1> HIDE DEF d
<1>9. MayGo(t, d) /\ d.at \notin AtLock /\ d.at \notin {"wait_rd", "wait_wr"}
  BY <1>1, <1>2, <1>8 DEF MayGo, AtLock
<1>10. Ne(d) = 0 /\ Nf(d) = 1 /\ Rd(d) = 0 /\ Wr(d) = 1
  BY <1>8, WeightOf
<1>11. caller'[t] = d /\ \A u \in Task \ {t} : caller'[u] = caller[u]
  BY <1>1, <1>7, <1>9, OneCall
<1>12. SemInv'
  <2>1. /\ not_empty' + Ne(d) - count' = not_empty + Ne(caller[t]) - count
        /\ not_full' + Nf(d) + count' = not_full + Nf(caller[t]) + count
        /\ count' - count <= Rd(d) - Rd(caller[t]) /\ count - count' <= Wr(d) - Wr(caller[t])
        /\ count' \in Int /\ not_empty' \in Nat /\ not_full' \in Nat
    BY <1>3, <1>4, <1>6, <1>10
  <2>2. QED
    BY <1>1, <1>4, <1>9, <1>11, <2>1, SemStep DEF IInv
<1>13. QED
  BY <1>1, <1>2, <1>6, <1>7, <1>9, <1>12, LeaveStep

\* The end of a call in the section that moves no unit: the queue keeps its numbers.
LEMMA QuietLeave ==
    ASSUME Users, IInv, NEW t \in Priv, caller[t].at = "in",
           caller[t].op \in {"overwrite", "peek"}, Unlock, UNCHANGED SEMS,
           NEW d \in PrivCall, d.at \in {"idle", "again"}, d.op \in {"none", "overwrite"},
           caller' = [caller EXCEPT ![t] = d], count' = count,
           RingOk(ring', head', tail', count', content')
    PROVE  IInv'
<1>1. t \in Task /\ t \notin User /\ caller[t] # Idle
  BY DEF Users, Task, Idle
<1>2. /\ not_empty \in Nat /\ not_full \in Nat /\ count \in Int
      /\ not_empty' = not_empty /\ not_full' = not_full /\ UNCHANGED <<wake_rd, wake_wr>>
  BY Numbers DEF SEMS
<1>3. MayGo(t, d) /\ d.at \notin AtLock /\ d.at \notin {"wait_rd", "wait_wr"}
  BY <1>1 DEF MayGo, AtLock
<1>4. caller'[t] = d /\ \A u \in Task \ {t} : caller'[u] = caller[u]
  BY <1>1, <1>3, OneCall
<1>5. Ne(d) = 0 /\ Nf(d) = 0 /\ Rd(d) = 0 /\ Wr(d) = 0
  BY WeightOf
<1>6. Ne(caller[t]) = 0 /\ Nf(caller[t]) = 0 /\ Rd(caller[t]) = 0 /\ Wr(caller[t]) = 0
  BY WeightOf
<1>7. /\ not_empty' + Ne(d) - count' = not_empty + Ne(caller[t]) - count
      /\ not_full' + Nf(d) + count' = not_full + Nf(caller[t]) + count
      /\ count' - count <= Rd(d) - Rd(caller[t]) /\ count - count' <= Wr(d) - Wr(caller[t])
      /\ count' \in Int /\ not_empty' \in Nat /\ not_full' \in Nat
  BY <1>2, <1>5, <1>6
<1>8. SemInv'
  BY <1>1, <1>2, <1>3, <1>4, <1>7, SemStep DEF IInv
<1>9. QED
  BY <1>3, <1>8, LeaveStep

\* An overwriting push in a full queue, or one that finds room; a peek.
LEMMA QuietSafe ==
    ASSUME Users, IInv, NEW t \in Priv, OverwriteIn(t) \/ LookIn(t)
    PROVE  IInv'
<1>1. /\ t \in Task /\ CallOk(caller) /\ RingOk(ring, head, tail, count, content)
      /\ Idle \in PrivCall /\ Idle.at = "idle" /\ Idle.op = "none"
  BY DEF Task, IInv, CallInv, QueueInv, PrivCall, Idle
<1>2. CASE LookIn(t)
  <2>1. /\ caller[t] = [at |-> "in", op |-> "peek"] /\ Unlock
        /\ caller' = [caller EXCEPT ![t] = Idle] /\ UNCHANGED <<QUEUE, SEMS>>
    BY <1>2 DEF LookIn, Return
  <2>2. RingOk(ring', head', tail', count', content') /\ count' = count
    BY <1>1, <2>1 DEF QUEUE
  <2>3. caller[t].at = "in" /\ caller[t].op \in {"overwrite", "peek"}
    BY <2>1
  <2>4. Idle.at \in {"idle", "again"} /\ Idle.op \in {"none", "overwrite"}
    BY <1>1
  <2>5. QED
    BY <1>1, <2>1, <2>2, <2>3, <2>4, QuietLeave
<1>3. CASE OverwriteIn(t)
  <2>1. caller[t].at = "in" /\ caller[t].op = "overwrite" /\ UNCHANGED SEMS
    BY <1>3 DEF OverwriteIn
  <2>2. CASE StillFull /\ OverwriteRing(t) /\ Unlock /\ Return(t)
    <3>1. /\ count = Capacity /\ count' = count /\ ring' = [ring EXCEPT ![head] = t]
          /\ head' = Mod(head + 1) /\ tail' = Mod(tail + 1)
          /\ content' = Append(Tail(content), t) /\ caller' = [caller EXCEPT ![t] = Idle]
      BY <2>2 DEF StillFull, OverwriteRing, Return
    <3>2. RingOk([ring EXCEPT ![head] = t], Mod(head + 1), Mod(tail + 1), Capacity,
                 Append(Tail(content), t))
      BY <1>1, <3>1, RingOverwrite
    <3>3. RingOk(ring', head', tail', count', content')
      BY <3>1, <3>2
    <3>4. Idle.at \in {"idle", "again"} /\ Idle.op \in {"none", "overwrite"}
      BY <1>1
    <3>5. QED
      BY <1>1, <2>1, <2>2, <3>1, <3>3, <3>4, QuietLeave
  <2>3. CASE ~StillFull /\ Unlock /\ Goto(t, "again") /\ UNCHANGED QUEUE
    <3> DEFINE d == [at |-> "again", op |-> "overwrite"]
    <3>1. caller' = [caller EXCEPT ![t] = d]
      BY <1>1, <2>1, <2>3, GotoIs
    <3>2. d \in PrivCall /\ d.at \in {"idle", "again"} /\ d.op \in {"none", "overwrite"}
      BY DEF PrivCall
    <3> HIDE DEF d
    <3>3. RingOk(ring', head', tail', count', content') /\ count' = count
      BY <1>1, <2>3 DEF QUEUE
    <3>4. QED
      BY <2>1, <2>3, <3>1, <3>2, <3>3, QuietLeave
  <2>4. QED
    BY <1>3, <2>2, <2>3 DEF OverwriteIn
<1>4. QED
  BY <1>2, <1>3

\* With every call idle the sums are zero.
LEMMA SumsIdle ==
    ASSUME Users, NEW f, \A u \in Task : f[u] = Idle
    PROVE  NeSum(f) = 0 /\ NfSum(f) = 0
<1>1. ASSUME NEW at, NEW ops, "none" \notin ops PROVE Num(f, at, ops) = 0
  <2>1. {u \in Task : f[u].at \in at /\ f[u].op \in ops} = {}
    BY <1>1 DEF Idle
  <2>2. QED
    BY <2>1, FS_EmptySet DEF Num
<1>2. "none" \notin {"pop"} /\ "none" \notin {"push"}
  OBVIOUS
<1>3. NeSum(f) = 0
  BY <1>1, <1>2 DEF NeSum
<1>4. NfSum(f) = 0
  BY <1>1, <1>2 DEF NfSum
<1>5. QED
  BY <1>3, <1>4

\* An empty ring.
LEMMA RingEmpty ==
    ASSUME Users, NEW r \in [Slots -> Task \cup {NULL}]
    PROVE  RingOk(r, 0, 0, 0, <<>>)
<1>1. 0 \in Slots /\ 0 \in 0..Capacity /\ <<>> \in Seq(Task) /\ Len(<<>>) = 0 /\ 0 + 0 = 0
  BY DEF Slots, Users
<1>2. Mod(0) = 0
  BY ModSmall DEF Mod, Users
<1>3. QED
  BY <1>1, <1>2 DEF RingOk

\* mpmc_reset, with the queue to itself.
LEMMA ResetInSafe ==
    ASSUME Users, IInv, NEW t \in Priv, ResetIn(t)
    PROVE  IInv'
<1>1. /\ t \in Task /\ t \notin User /\ caller[t].at = "in" /\ caller[t].op = "reset"
      /\ head' = 0 /\ tail' = 0 /\ count' = 0 /\ content' = <<>>
      /\ not_empty' = 0 /\ not_full' = Capacity /\ Unlock /\ UNCHANGED <<ring, wake_rd, wake_wr>>
      /\ caller' = [caller EXCEPT ![t] = Idle]
  BY DEF ResetIn, Return, Users, Task
<1>2. MayGo(t, Idle) /\ Idle.at \notin AtLock /\ Idle.at = "idle"
  BY <1>1 DEF MayGo, Idle, PrivCall, AtLock
<1>3. caller'[t] = Idle /\ \A u \in Task \ {t} : caller'[u] = caller[u]
  BY <1>1, <1>2, OneCall
<1>4. \A u \in Task : caller'[u] = Idle
  BY <1>1, <1>3 DEF IInv, CallInv, ResetOk
<1>5. NeSum(caller') = 0 /\ NfSum(caller') = 0
  BY <1>4, SumsIdle
<1>6. SemsOk(count', not_empty', not_full', caller')
  BY <1>1, <1>5 DEF SemsOk, Users
<1>7. \A u \in User : caller'[u].at # "wait_rd" /\ caller'[u].at # "wait_wr"
  BY <1>2, <1>4 DEF Task
<1>8. HintRd(count', wake_rd', caller') /\ HintWr(count', wake_wr', caller')
  BY <1>1, <1>7 DEF IInv, SemInv, HintRd, HintWr
<1>9. SemInv'
  BY <1>6, <1>8 DEF SemInv
<1>10. RingOk(ring', head', tail', count', content')
  <2>1. ring \in [Slots -> Task \cup {NULL}]
    BY DEF IInv, QueueInv, RingOk
  <2>2. RingOk(ring, 0, 0, 0, <<>>)
    BY <2>1, RingEmpty
  <2>3. QED
    BY <1>1, <2>2
<1>11. QED
  BY <1>1, <1>2, <1>9, <1>10, LeaveStep

\* Who has taken or made one is on the way to one.
LEMMA SumsLe ==
    ASSUME Users, NEW f
    PROVE  NeSum(f) <= RdSum(f) /\ NfSum(f) <= WrSum(f) /\ RdSum(f) \in Nat /\ WrSum(f) \in Nat
<1>1. ASSUME NEW at, NEW ops PROVE Num(f, at, ops) \in Nat
  <2> DEFINE S == {t \in Task : f[t].at \in at /\ f[t].op \in ops}
  <2>1. S \in SUBSET Task
    OBVIOUS
  <2>2. IsFiniteSet(S)
    BY <2>1, FS_Subset DEF Users
  <2>3. QED
    BY <2>2, FS_CardinalityType DEF Num
<1>2. ASSUME NEW ops PROVE Num(f, {"give"}, ops) <= Num(f, {"give", "hint"}, ops)
  <2> DEFINE S == {t \in Task : f[t].at \in {"give"} /\ f[t].op \in ops}
             T == {t \in Task : f[t].at \in {"give", "hint"} /\ f[t].op \in ops}
  <2>1. T \in SUBSET Task /\ S \in SUBSET T
    OBVIOUS
  <2>2. IsFiniteSet(T)
    BY <2>1, FS_Subset DEF Users
  <2>3. Cardinality(S) <= Cardinality(T)
    BY <2>1, <2>2, FS_Subset
  <2>4. QED
    BY <2>3 DEF Num
<1>3. NeSum(f) <= RdSum(f) /\ RdSum(f) \in Nat
  BY <1>1, <1>2 DEF NeSum, RdSum
<1>4. NfSum(f) <= WrSum(f) /\ WrSum(f) \in Nat
  BY <1>1, <1>2 DEF NfSum, WrSum
<1>5. QED
  BY <1>3, <1>4

\* With the mutex free nobody is between a store and a move.
LEMMA FreeMeansQuiet ==
    ASSUME Users, IInv, lock = NULL
    PROVE  \A r, h : StoredOk(r, h, caller)
<1>1. \A u \in Priv : caller[u].at # "stored"
  BY StoredOwner DEF IInv, CallInv
<1>2. QED
  BY <1>1 DEF StoredOk

\* A task's attempt begins.
LEMMA Attempt ==
    ASSUME Users, IInv, NEW t \in User, NEW o \in {"send", "recv"},
           (caller[t] = Idle /\ MayBegin) \/ caller[t] = [at |-> "retry", op |-> o]
    PROVE  /\ t \in Task /\ t \notin Priv /\ caller[t].at \notin AtLock
           /\ caller[t].at \notin {"wait_rd", "wait_wr"}
           /\ \A d \in UserCall : MayGo(t, d)
           /\ Ne(caller[t]) = 0 /\ Nf(caller[t]) = 0
           /\ Rd(caller[t]) \in {0, 1} /\ Wr(caller[t]) \in {0, 1}
           /\ (o = "send" => Rd(caller[t]) = 0) /\ (o = "recv" => Wr(caller[t]) = 0)
<1>1. t \in Task /\ t \notin Priv
  BY DEF Users, Task
<1>2. \A d \in UserCall : d.op # "reset"
  BY DEF UserCall, Idle
<1>3. CASE caller[t] = Idle /\ MayBegin
  <2>1. caller[t].at = "idle" /\ caller[t].op = "none" /\ \A u \in Task : caller[u].op # "reset"
    BY <1>3, BeginIs DEF Idle
  <2>2. Ne(caller[t]) = 0 /\ Nf(caller[t]) = 0 /\ Rd(caller[t]) = 0 /\ Wr(caller[t]) = 0
    BY <2>1, WeightOf
  <2>3. \A d \in UserCall : MayGo(t, d)
    BY <1>1, <1>2, <2>1 DEF MayGo
  <2>4. QED
    BY <1>1, <2>1, <2>2, <2>3 DEF AtLock
<1>4. CASE caller[t] = [at |-> "retry", op |-> o]
  <2>1. caller[t].at = "retry" /\ caller[t].op = o /\ caller[t] # Idle
    BY <1>4 DEF Idle
  <2>2. /\ Ne(caller[t]) = 0 /\ Nf(caller[t]) = 0
        /\ Rd(caller[t]) \in {0, 1} /\ Wr(caller[t]) \in {0, 1}
        /\ (o = "send" => Rd(caller[t]) = 0) /\ (o = "recv" => Wr(caller[t]) = 0)
    BY <2>1, WeightOf
  <2>3. \A d \in UserCall : MayGo(t, d)
    BY <1>1, <1>2, <2>1 DEF MayGo
  <2>4. QED
    BY <1>1, <2>1, <2>2, <2>3 DEF AtLock
<1>5. QED
  BY <1>3, <1>4

\* A task with a descriptor goes on, with nobody woken and no unit moved: the hints hold if
\* each side has as many on the way as it has elements or holes.
LEMMA UserStep ==
    ASSUME Users, IInv, NEW t \in User, NEW d \in UserCall, MayGo(t, d),
           caller[t].at \notin AtLock, caller' = [caller EXCEPT ![t] = d],
           Ne(caller[t]) = 0, Nf(caller[t]) = 0,
           UNCHANGED <<LOCK, not_empty, not_full>>, count' = count,
           RingOk(ring', head', tail', count', content'),
           (ring' = ring /\ head' = head) \/ lock = NULL,
           HintRd(count, wake_rd', caller'), HintWr(count, wake_wr', caller')
    PROVE  IInv'
<1>1. t \in Task /\ LockOk(lock, lockq, caller) /\ StoredOk(ring, head, caller)
  BY DEF Task, IInv, CallInv, QueueInv
<1>2. /\ caller'[t] = d /\ \A u \in Task \ {t} : caller'[u] = caller[u]
      /\ CallOk(caller') /\ ResetOk(caller')
  BY <1>1, OneCall
<1>3. d.at \notin AtLock /\ d.op \notin {"push", "pop"}
  BY DEF UserCall, AtLock, Idle
<1>4. Ne(d) = 0 /\ Nf(d) = 0
  BY <1>3 DEF Ne, Nf, In
<1>5. SemsOk(count', not_empty', not_full', caller')
  <2>1. /\ count \in Int /\ not_empty \in Nat /\ not_full \in Nat
        /\ SemsOk(count, not_empty, not_full, caller)
    BY Numbers DEF IInv, SemInv
  <2>2. /\ not_empty + Ne(caller'[t]) - count = not_empty + Ne(caller[t]) - count
        /\ not_full + Nf(caller'[t]) + count = not_full + Nf(caller[t]) + count
    BY <1>2, <1>4
  <2>3. SemsOk(count, not_empty, not_full, caller')
    BY <1>1, <1>2, <2>1, <2>2, SemsMove
  <2>4. QED
    BY <2>3
<1>6. SemInv'
  BY <1>5 DEF SemInv
<1>7. StoredOk(ring', head', caller)
  BY <1>1, FreeMeansQuiet
<1>8. LockOk(lock, lockq, caller') /\ StoredOk(ring', head', caller')
  BY <1>1, <1>2, <1>3, <1>7, LockMove
<1>9. CallInv'
  BY <1>2, <1>8 DEF CallInv, LOCK
<1>10. QueueInv'
  BY <1>8 DEF QueueInv
<1>11. QED
  BY <1>6, <1>9, <1>10 DEF IInv

\* The sleepers are as before, and so is what is on the way, or it is enough.
LEMMA RdStays ==
    ASSUME Users, IInv, NEW t \in Task, \A u \in Task \ {t} : caller'[u] = caller[u],
           caller'[t].at # "wait_rd", wake_rd' = wake_rd,
           Rd(caller[t]) <= Rd(caller'[t]) \/ count <= RdSum(caller')
    PROVE  HintRd(count, wake_rd', caller')
<1>1. HintRd(count, wake_rd, caller) /\ count \in Int
  BY Numbers DEF IInv, SemInv
<1>2. CASE Rd(caller[t]) <= Rd(caller'[t])
  <2>1. Rd(caller[t]) \in Nat /\ Rd(caller'[t]) \in Nat
    BY Weights
  <2>2. count - count <= Rd(caller'[t]) - Rd(caller[t])
    BY <1>1, <1>2, <2>1
  <2>3. HintRd(count, wake_rd, caller')
    BY <1>1, <2>2, RdMove
  <2>4. QED
    BY <2>3
<1>3. CASE count <= RdSum(caller')
  <2>1. \A u \in User : caller'[u].at = "wait_rd" => caller[u].at = "wait_rd"
    BY DEF Task
  <2>2. QED
    BY <1>1, <1>3, <2>1 DEF HintRd
<1>4. QED
  BY <1>2, <1>3

\* The same for a sleeping writer.
LEMMA WrStays ==
    ASSUME Users, IInv, NEW t \in Task, \A u \in Task \ {t} : caller'[u] = caller[u],
           caller'[t].at # "wait_wr", wake_wr' = wake_wr,
           Wr(caller[t]) <= Wr(caller'[t]) \/ Capacity - count <= WrSum(caller')
    PROVE  HintWr(count, wake_wr', caller')
<1>1. HintWr(count, wake_wr, caller) /\ count \in Int
  BY Numbers DEF IInv, SemInv
<1>2. CASE Wr(caller[t]) <= Wr(caller'[t])
  <2>1. Wr(caller[t]) \in Nat /\ Wr(caller'[t]) \in Nat
    BY Weights
  <2>2. count - count <= Wr(caller'[t]) - Wr(caller[t])
    BY <1>1, <1>2, <2>1
  <2>3. HintWr(count, wake_wr, caller')
    BY <1>1, <2>2, WrMove
  <2>4. QED
    BY <2>3
<1>3. CASE Capacity - count <= WrSum(caller')
  <2>1. \A u \in User : caller'[u].at = "wait_wr" => caller[u].at = "wait_wr"
    BY DEF Task
  <2>2. QED
    BY <1>1, <1>3, <2>1 DEF HintWr
<1>4. QED
  BY <1>2, <1>3

\* v_queue_try_send: one attempt, all of it or nothing.
LEMMA TrySendSafe ==
    ASSUME Users, IInv, NEW t \in User, TrySend(t)
    PROVE  IInv'
<1>1. /\ t \in Task /\ t \notin Priv /\ caller[t].at \notin AtLock
      /\ caller[t].at \notin {"wait_rd", "wait_wr"}
      /\ \A d \in UserCall : MayGo(t, d)
      /\ Ne(caller[t]) = 0 /\ Nf(caller[t]) = 0
      /\ Rd(caller[t]) \in {0, 1} /\ Wr(caller[t]) \in {0, 1} /\ Rd(caller[t]) = 0
      /\ RingOk(ring, head, tail, count, content)
  <2>1. (caller[t] = Idle /\ MayBegin) \/ caller[t] = [at |-> "retry", op |-> "send"]
    BY DEF TrySend
  <2>2. "send" \in {"send", "recv"}
    OBVIOUS
  <2>3. QED
    BY <2>1, <2>2, Attempt DEF IInv, QueueInv
<1>2. /\ count \in 0..Capacity /\ not_empty \in Nat /\ not_full \in Nat /\ Capacity \in Nat
      /\ NeSum(caller) \in Nat /\ NfSum(caller) \in Nat /\ count \in Int
      /\ not_empty + NeSum(caller) = count /\ not_full + NfSum(caller) = Capacity - count
  BY Numbers DEF Users
<1>3. Idle \in UserCall /\ Idle.at = "idle" /\ Rd(Idle) = 0 /\ Wr(Idle) = 0
  BY WeightOf DEF UserCall, Idle
<1>4. ASSUME not_full > 0, not_full' = not_full - 1, SyscallLock(t), PushRing(t),
             not_empty' = AtMost(not_empty + 1, Capacity),
             GiveHint(t, After, "wait_rd", wake_rd), wake_wr' = wake_wr
      PROVE  IInv'
  <2>1. lock = NULL /\ UNCHANGED LOCK /\ After = Idle
    BY <1>4 DEF SyscallLock, LockFree, After, Idle, Users
  <2>2. QED
    <3>1. PushRing(t)
      BY <1>4
    <3>2. count < Capacity /\ not_empty + 1 <= Capacity
      BY <1>2, <1>4
    <3>3. RingOk(ring', head', tail', count', content')
      <4> DEFINE s == [ring EXCEPT ![head] = t]
      <4>1. RingOk(s, head, tail, count, content)
        BY <1>1, <3>2, RingStore
      <4>2. s[head] = t
        BY <1>1 DEF RingOk
      <4> HIDE DEF s
      <4>3. RingOk(s, Mod(head + 1), tail, count + 1, Append(content, t))
        BY <1>1, <3>2, <4>1, <4>2, RingPush
      <4>4. QED
        BY <3>1, <4>3 DEF PushRing, s
    <3>4. count' = count + 1
      BY <3>1 DEF PushRing
    <3>5. not_full' = not_full - 1 /\ not_empty' = not_empty + 1
      BY <1>2, <1>4, <3>2 DEF AtMost
    <3>6. /\ not_empty' - count' = not_empty + Ne(caller[t]) - count
          /\ not_full' + count' = not_full + Nf(caller[t]) + count
          /\ count' - count <= 1 - Rd(caller[t]) /\ count - count' <= -Wr(caller[t])
          /\ count' \in Int /\ not_empty' \in Nat /\ not_full' \in Nat
      BY <1>1, <1>2, <1>4, <3>4, <3>5
    <3>7. MayGo(t, Idle)
      BY <1>1, <1>3
    <3>8. GiveHint(t, Idle, "wait_rd", wake_rd)
      BY <1>4, <2>1
    <3>9. SemInv' /\ CallInv' /\ \A r, h : StoredOk(r, h, caller) => StoredOk(r, h, caller')
      BY <1>1, <1>4, <2>1, <3>6, <3>7, <3>8, HintRdGiven
    <3>10. StoredOk(ring', head', caller')
      BY <2>1, <3>9, FreeMeansQuiet
    <3>11. QueueInv'
      BY <3>3, <3>10 DEF QueueInv
    <3>12. QED
      BY <3>9, <3>11 DEF IInv
<1>5. ASSUME not_full = 0, caller' = [caller EXCEPT ![t] = [at |-> "towait", op |-> "send"]],
             UNCHANGED <<QUEUE, LOCK, SEMS>>
      PROVE  IInv'
  <2> DEFINE d == [at |-> "towait", op |-> "send"]
  <2>1. d \in UserCall /\ d.at = "towait" /\ d.op = "send"
    BY DEF UserCall
  <2> HIDE DEF d
  <2>2. caller' = [caller EXCEPT ![t] = d] /\ MayGo(t, d)
    BY <1>1, <1>5, <2>1 DEF d
  <2>3. caller'[t] = d /\ \A u \in Task \ {t} : caller'[u] = caller[u]
    BY <1>1, <2>2, OneCall
  <2>4. Ne(d) = 0 /\ Nf(d) = 0 /\ Rd(d) = 0 /\ Wr(d) = 0
    BY <2>1, WeightOf
  <2>5. NfSum(caller') = NfSum(caller)
    <3>1. NfSum(caller') = NfSum(caller) + Nf(caller'[t]) - Nf(caller[t])
      BY <1>1, <2>3, SumsMove
    <3>2. QED
      BY <1>1, <1>2, <2>3, <2>4, <3>1
  <2>6. NfSum(caller') <= WrSum(caller') /\ WrSum(caller') \in Nat
    BY SumsLe
  <2>7. Capacity - count <= WrSum(caller')
    BY <1>2, <1>5, <2>5, <2>6
  <2>8. wake_rd' = wake_rd /\ wake_wr' = wake_wr /\ UNCHANGED <<LOCK, not_empty, not_full>>
    BY <1>5 DEF SEMS
  <2>9. Rd(caller[t]) <= Rd(caller'[t]) /\ caller'[t].at # "wait_rd" /\ caller'[t].at # "wait_wr"
    BY <1>1, <2>1, <2>3, <2>4
  <2>10. HintRd(count, wake_rd', caller')
    BY <1>1, <2>3, <2>7, <2>8, <2>9, RdStays
  <2>11. HintWr(count, wake_wr', caller')
    BY <1>1, <2>3, <2>7, <2>8, <2>9, WrStays
  <2>12. /\ RingOk(ring', head', tail', count', content')
         /\ count' = count /\ ring' = ring /\ head' = head
    BY <1>1, <1>5 DEF QUEUE
  <2>13. QED
    BY <1>1, <2>1, <2>2, <2>8, <2>10, <2>11, <2>12, UserStep
<1>6. ASSUME StillFull, SyscallLock(t), OverwriteRing(t), caller' = [caller EXCEPT ![t] = After],
             UNCHANGED SEMS
      PROVE  IInv'
  <2>1. lock = NULL /\ UNCHANGED LOCK /\ After = Idle /\ count = Capacity
    BY <1>6 DEF SyscallLock, LockFree, After, Idle, Users, StillFull
  <2>2. caller' = [caller EXCEPT ![t] = Idle] /\ MayGo(t, Idle)
    BY <1>1, <1>3, <1>6, <2>1
  <2>3. caller'[t] = Idle /\ \A u \in Task \ {t} : caller'[u] = caller[u]
    BY <1>1, <2>2, OneCall
  <2>4. wake_rd' = wake_rd /\ wake_wr' = wake_wr /\ UNCHANGED <<LOCK, not_empty, not_full>>
    BY <1>6, <2>1 DEF SEMS
  <2>5. Capacity - count <= WrSum(caller')
    <3>1. WrSum(caller') \in Nat
      BY SumsLe
    <3>2. QED
      BY <1>2, <2>1, <3>1
  <2>6. Rd(caller[t]) <= Rd(caller'[t]) /\ caller'[t].at # "wait_rd" /\ caller'[t].at # "wait_wr"
    BY <1>1, <1>3, <2>3
  <2>7. HintRd(count, wake_rd', caller')
    BY <1>1, <2>3, <2>4, <2>6, RdStays
  <2>8. HintWr(count, wake_wr', caller')
    BY <1>1, <2>3, <2>4, <2>5, <2>6, WrStays
  <2>9. RingOk(ring', head', tail', count', content') /\ count' = count
    <3>1. RingOk(ring, head, tail, Capacity, content)
      BY <1>1, <2>1
    <3>2. RingOk([ring EXCEPT ![head] = t], Mod(head + 1), Mod(tail + 1), Capacity,
                 Append(Tail(content), t))
      BY <1>1, <3>1, RingOverwrite
    <3>3. QED
      BY <1>6, <2>1, <3>2 DEF OverwriteRing
  <2>10. QED
    BY <1>1, <1>3, <2>1, <2>2, <2>4, <2>7, <2>8, <2>9, UserStep
<1>7. QED
  BY <1>4, <1>5, <1>6 DEF TrySend, Users

\* v_queue_try_recv: one attempt, all of it or nothing.
LEMMA TryRecvSafe ==
    ASSUME Users, IInv, NEW t \in User, TryRecv(t)
    PROVE  IInv'
<1>1. /\ t \in Task /\ t \notin Priv /\ caller[t].at \notin AtLock
      /\ caller[t].at \notin {"wait_rd", "wait_wr"}
      /\ \A d \in UserCall : MayGo(t, d)
      /\ Ne(caller[t]) = 0 /\ Nf(caller[t]) = 0
      /\ Rd(caller[t]) \in {0, 1} /\ Wr(caller[t]) \in {0, 1} /\ Wr(caller[t]) = 0
      /\ RingOk(ring, head, tail, count, content)
  <2>1. (caller[t] = Idle /\ MayBegin) \/ caller[t] = [at |-> "retry", op |-> "recv"]
    BY DEF TryRecv
  <2>2. "recv" \in {"send", "recv"}
    OBVIOUS
  <2>3. QED
    BY <2>1, <2>2, Attempt DEF IInv, QueueInv
<1>2. /\ count \in 0..Capacity /\ not_empty \in Nat /\ not_full \in Nat /\ Capacity \in Nat
      /\ NeSum(caller) \in Nat /\ NfSum(caller) \in Nat /\ count \in Int
      /\ not_empty + NeSum(caller) = count /\ not_full + NfSum(caller) = Capacity - count
  BY Numbers DEF Users
<1>3. Idle \in UserCall /\ Idle.at = "idle" /\ Rd(Idle) = 0 /\ Wr(Idle) = 0
  BY WeightOf DEF UserCall, Idle
<1>4. ASSUME not_empty > 0, not_empty' = not_empty - 1, SyscallLock(t), PopRing,
             not_full' = AtMost(not_full + 1, Capacity),
             GiveHint(t, After, "wait_wr", wake_wr), wake_rd' = wake_rd
      PROVE  IInv'
  <2>1. lock = NULL /\ UNCHANGED LOCK /\ After = Idle
    BY <1>4 DEF SyscallLock, LockFree, After, Idle, Users
  <2>2. QED
    <3>1. PopRing
      BY <1>4
    <3>2. count > 0 /\ not_full + 1 <= Capacity
      BY <1>2, <1>4
    <3>3. RingOk(ring', head', tail', count', content')
      BY <1>1, <3>1, <3>2, PopRingIs
    <3>4. count' = count - 1
      BY <3>1 DEF PopRing
    <3>5. not_empty' = not_empty - 1 /\ not_full' = not_full + 1
      BY <1>2, <1>4, <3>2 DEF AtMost
    <3>6. /\ not_empty' - count' = not_empty + Ne(caller[t]) - count
          /\ not_full' + count' = not_full + Nf(caller[t]) + count
          /\ count - count' <= 1 - Wr(caller[t]) /\ count' - count <= -Rd(caller[t])
          /\ count' \in Int /\ not_empty' \in Nat /\ not_full' \in Nat
      BY <1>1, <1>2, <1>4, <3>4, <3>5
    <3>7. MayGo(t, Idle)
      BY <1>1, <1>3
    <3>8. GiveHint(t, Idle, "wait_wr", wake_wr)
      BY <1>4, <2>1
    <3>9. SemInv' /\ CallInv' /\ \A r, h : StoredOk(r, h, caller) => StoredOk(r, h, caller')
      BY <1>1, <1>4, <2>1, <3>6, <3>7, <3>8, HintWrGiven
    <3>10. StoredOk(ring', head', caller')
      BY <2>1, <3>9, FreeMeansQuiet
    <3>11. QueueInv'
      BY <3>3, <3>10 DEF QueueInv
    <3>12. QED
      BY <3>9, <3>11 DEF IInv
<1>5. ASSUME not_empty = 0, caller' = [caller EXCEPT ![t] = [at |-> "towait", op |-> "recv"]],
             UNCHANGED <<QUEUE, LOCK, SEMS>>
      PROVE  IInv'
  <2> DEFINE d == [at |-> "towait", op |-> "recv"]
  <2>1. d \in UserCall /\ d.at = "towait" /\ d.op = "recv"
    BY DEF UserCall
  <2> HIDE DEF d
  <2>2. caller' = [caller EXCEPT ![t] = d] /\ MayGo(t, d)
    BY <1>1, <1>5, <2>1 DEF d
  <2>3. caller'[t] = d /\ \A u \in Task \ {t} : caller'[u] = caller[u]
    BY <1>1, <2>2, OneCall
  <2>4. Ne(d) = 0 /\ Nf(d) = 0 /\ Rd(d) = 0 /\ Wr(d) = 0
    BY <2>1, WeightOf
  <2>5. NeSum(caller') = NeSum(caller)
    <3>1. NeSum(caller') = NeSum(caller) + Ne(caller'[t]) - Ne(caller[t])
      BY <1>1, <2>3, SumsMove
    <3>2. QED
      BY <1>1, <1>2, <2>3, <2>4, <3>1
  <2>6. NeSum(caller') <= RdSum(caller') /\ RdSum(caller') \in Nat
    BY SumsLe
  <2>7. count <= RdSum(caller')
    BY <1>2, <1>5, <2>5, <2>6
  <2>8. wake_rd' = wake_rd /\ wake_wr' = wake_wr /\ UNCHANGED <<LOCK, not_empty, not_full>>
    BY <1>5 DEF SEMS
  <2>9. Wr(caller[t]) <= Wr(caller'[t]) /\ caller'[t].at # "wait_rd" /\ caller'[t].at # "wait_wr"
    BY <1>1, <2>1, <2>3, <2>4
  <2>10. HintRd(count, wake_rd', caller')
    BY <1>1, <2>3, <2>7, <2>8, <2>9, RdStays
  <2>11. HintWr(count, wake_wr', caller')
    BY <1>1, <2>3, <2>7, <2>8, <2>9, WrStays
  <2>12. /\ RingOk(ring', head', tail', count', content')
         /\ count' = count /\ ring' = ring /\ head' = head
    BY <1>1, <1>5 DEF QUEUE
  <2>13. QED
    BY <1>1, <2>1, <2>2, <2>8, <2>10, <2>11, <2>12, UserStep
<1>6. QED
  BY <1>4, <1>5 DEF TryRecv

\* v_queue_wait: the task looks again, takes the hint that was kept, or sleeps with the
\* queue not ready and no hint kept.
LEMMA WaitSafe ==
    ASSUME Users, IInv, NEW t \in User, Wait(t)
    PROVE  IInv'
<1>1. /\ t \in Task /\ t \notin Priv /\ caller[t].at = "towait" /\ CallOk(caller)
      /\ UNCHANGED <<QUEUE, LOCK, not_empty, not_full>>
      /\ RingOk(ring, head, tail, count, content)
  BY DEF Wait, Users, Task, IInv, CallInv, QueueInv
<1>2. /\ caller[t].op \in {"send", "recv"} /\ caller[t] # Idle /\ caller[t].at \notin AtLock
  BY <1>1 DEF CallOk, UserCall, Idle, AtLock
<1>3. Ne(caller[t]) = 0 /\ Nf(caller[t]) = 0 /\ Rd(caller[t]) = 0 /\ Wr(caller[t]) = 0
  BY <1>1, <1>2, WeightOf
<1>4. /\ RingOk(ring', head', tail', count', content')
      /\ count' = count /\ ring' = ring /\ head' = head /\ count \in Int
  BY <1>1, Numbers DEF QUEUE
<1>5. HintRd(count, wake_rd, caller) /\ HintWr(count, wake_wr, caller)
  BY DEF IInv, SemInv
<1>6. ASSUME NEW x, Goto(t, x), [at |-> x, op |-> caller[t].op] \in UserCall,
             \A g : (/\ g[t].at = x /\ g[t].op = caller[t].op
                     /\ \A u \in Task \ {t} : g[u] = caller[u])
                      => HintRd(count, wake_rd', g) /\ HintWr(count, wake_wr', g)
      PROVE  IInv'
  <2> DEFINE d == [at |-> x, op |-> caller[t].op]
  <2>1. d \in UserCall /\ d.at = x /\ d.op = caller[t].op
    BY <1>6
  <2>2. caller' = [caller EXCEPT ![t] = d]
    BY <1>1, <1>6, GotoIs
  <2> HIDE DEF d
  <2>3. MayGo(t, d)
    BY <1>1, <1>2, <2>1 DEF MayGo
  <2>4. caller'[t] = d /\ \A u \in Task \ {t} : caller'[u] = caller[u]
    BY <1>1, <2>2, <2>3, OneCall
  <2>5. caller'[t].at = x /\ caller'[t].op = caller[t].op
    BY <2>1, <2>4
  <2>6. HintRd(count, wake_rd', caller') /\ HintWr(count, wake_wr', caller')
    BY <1>6, <2>4, <2>5
  <2>7. QED
    BY <1>1, <1>2, <1>3, <1>4, <2>1, <2>2, <2>3, <2>6, UserStep
<1>7. ASSUME NEW g, g[t].at \in {"retry", "wait_rd", "wait_wr"}, g[t].op = caller[t].op,
             \A u \in Task \ {t} : g[u] = caller[u]
      PROVE  /\ g[t].at # "wait_rd" => HintRd(count, wake_rd, g)
             /\ g[t].at # "wait_wr" => HintWr(count, wake_wr, g)
             /\ \A u \in User : u # t => g[u] = caller[u]
  <2>1. Rd(g[t]) \in Nat /\ Wr(g[t]) \in Nat
    BY Weights
  <2>2. count - count <= Rd(g[t]) - Rd(caller[t]) /\ count - count <= Wr(g[t]) - Wr(caller[t])
    BY <1>3, <1>4, <2>1
  <2>3. g[t].at # "wait_rd" => HintRd(count, wake_rd, g)
    BY <1>1, <1>4, <1>5, <1>7, <2>2, RdMove
  <2>4. g[t].at # "wait_wr" => HintWr(count, wake_wr, g)
    BY <1>1, <1>4, <1>5, <1>7, <2>2, WrMove
  <2>5. QED
    BY <1>7, <2>3, <2>4 DEF Task
<1>8. CASE Goto(t, "retry") /\ UNCHANGED <<wake_rd, wake_wr>>
  <2>1. [at |-> "retry", op |-> caller[t].op] \in UserCall
    BY <1>2 DEF UserCall
  <2>2. ASSUME NEW g, g[t].at = "retry", g[t].op = caller[t].op,
               \A u \in Task \ {t} : g[u] = caller[u]
        PROVE  HintRd(count, wake_rd', g) /\ HintWr(count, wake_wr', g)
    BY <1>7, <1>8, <2>2
  <2>3. QED
    BY <1>6, <1>8, <2>1, <2>2
<1>9. CASE /\ ~Ready(caller[t].op) /\ caller[t].op = "recv" /\ UNCHANGED wake_wr
           /\ \/ wake_rd = 1 /\ wake_rd' = 0 /\ Goto(t, "retry")
              \/ wake_rd = 0 /\ UNCHANGED wake_rd /\ Goto(t, "wait_rd")
  <2>1. count = 0
    BY <1>9 DEF Ready
  <2>2. CASE wake_rd = 1 /\ wake_rd' = 0 /\ Goto(t, "retry")
    <3>1. [at |-> "retry", op |-> caller[t].op] \in UserCall
      BY <1>2 DEF UserCall
    <3>2. ASSUME NEW g, g[t].at = "retry", g[t].op = caller[t].op,
                 \A u \in Task \ {t} : g[u] = caller[u]
          PROVE  HintRd(count, wake_rd', g) /\ HintWr(count, wake_wr', g)
      <4>1. HintRd(count, wake_rd, g) /\ HintWr(count, wake_wr, g)
        BY <1>7, <3>2
      <4>2. HintRd(count, wake_rd', g)
        BY <2>2, <4>1 DEF HintRd
      <4>3. QED
        BY <1>9, <4>1, <4>2
    <3>3. QED
      BY <1>6, <2>2, <3>1, <3>2
  <2>3. CASE wake_rd = 0 /\ UNCHANGED wake_rd /\ Goto(t, "wait_rd")
    <3>1. [at |-> "wait_rd", op |-> caller[t].op] \in UserCall
      BY <1>9 DEF UserCall
    <3>2. ASSUME NEW g, g[t].at = "wait_rd", g[t].op = caller[t].op,
                 \A u \in Task \ {t} : g[u] = caller[u]
          PROVE  HintRd(count, wake_rd', g) /\ HintWr(count, wake_wr', g)
      <4>1. HintWr(count, wake_wr, g)
        BY <1>7, <3>2
      <4>2. count <= RdSum(g)
        BY <2>1, SumsLe
      <4>3. HintRd(count, wake_rd', g)
        BY <2>3, <4>2 DEF HintRd
      <4>4. QED
        BY <1>9, <4>1, <4>3
    <3>3. QED
      BY <1>6, <2>3, <3>1, <3>2
  <2>4. QED
    BY <1>9, <2>2, <2>3
<1>10. CASE /\ ~Ready(caller[t].op) /\ caller[t].op = "send" /\ UNCHANGED wake_rd
            /\ \/ wake_wr = 1 /\ wake_wr' = 0 /\ Goto(t, "retry")
               \/ wake_wr = 0 /\ UNCHANGED wake_wr /\ Goto(t, "wait_wr")
  <2>1. count = Capacity
    BY <1>10 DEF Ready
  <2>2. CASE wake_wr = 1 /\ wake_wr' = 0 /\ Goto(t, "retry")
    <3>1. [at |-> "retry", op |-> caller[t].op] \in UserCall
      BY <1>2 DEF UserCall
    <3>2. ASSUME NEW g, g[t].at = "retry", g[t].op = caller[t].op,
                 \A u \in Task \ {t} : g[u] = caller[u]
          PROVE  HintRd(count, wake_rd', g) /\ HintWr(count, wake_wr', g)
      <4>1. HintRd(count, wake_rd, g) /\ HintWr(count, wake_wr, g)
        BY <1>7, <3>2
      <4>2. HintWr(count, wake_wr', g)
        BY <2>2, <4>1 DEF HintWr
      <4>3. QED
        BY <1>10, <4>1, <4>2
    <3>3. QED
      BY <1>6, <2>2, <3>1, <3>2
  <2>3. CASE wake_wr = 0 /\ UNCHANGED wake_wr /\ Goto(t, "wait_wr")
    <3>1. [at |-> "wait_wr", op |-> caller[t].op] \in UserCall
      BY <1>10 DEF UserCall
    <3>2. ASSUME NEW g, g[t].at = "wait_wr", g[t].op = caller[t].op,
                 \A u \in Task \ {t} : g[u] = caller[u]
          PROVE  HintRd(count, wake_rd', g) /\ HintWr(count, wake_wr', g)
      <4>1. HintRd(count, wake_rd, g)
        BY <1>7, <3>2
      <4>2. Capacity - count <= WrSum(g)
        BY <2>1, SumsLe DEF Users
      <4>3. HintWr(count, wake_wr', g)
        BY <2>3, <4>2 DEF HintWr
      <4>4. QED
        BY <1>10, <4>1, <4>3
    <3>3. QED
      BY <1>6, <2>3, <3>1, <3>2
  <2>4. QED
    BY <1>10, <2>2, <2>3
<1>11. QED
  BY <1>8, <1>9, <1>10 DEF Wait

-------------------------------------------------------------------------------
(* The queue *)

\* A new queue: no call is in progress and every slot is a hole.
LEMMA InitSafe ==
    ASSUME Users, Init
    PROVE  IInv
<1>1. /\ ring \in [Slots -> Task \cup {NULL}] /\ head = 0 /\ tail = 0 /\ count = 0
      /\ content = <<>> /\ lock = NULL /\ lockq = <<>> /\ not_empty = 0 /\ not_full = Capacity
      /\ wake_rd = 0 /\ wake_wr = 0 /\ caller = [t \in Task |-> Idle]
  BY DEF Init, Slots
<1>2. Idle.at = "idle" /\ Idle.op = "none" /\ Idle \in PrivCall /\ Idle \in UserCall
  BY DEF Idle, PrivCall, UserCall
<1>3. \A t \in Task : caller[t] = Idle
  BY <1>1
<1>4. Priv \subseteq Task /\ User \subseteq Task
  BY DEF Task
<1>5. RingOk(ring, head, tail, count, content)
  BY <1>1, RingEmpty
<1>6. StoredOk(ring, head, caller)
  BY <1>2, <1>3, <1>4 DEF StoredOk
<1>7. CallOk(caller)
  <2>1. caller \in [Task -> PrivCall \cup UserCall]
    BY <1>1, <1>2
  <2>2. QED
    BY <1>2, <1>3, <1>4, <2>1 DEF CallOk
<1>8. LockOk(lock, lockq, caller)
  <2>1. lockq \in Seq(Priv) /\ ToSet(lockq) = {} /\ NoDup(lockq)
    BY <1>1, EmptyRange
  <2>2. ASSUME NEW t \in Priv
        PROVE  lock # t /\ caller[t].at = "idle"
    BY <1>1, <1>2, <1>3, <1>4 DEF Users
  <2>3. QED
    BY <1>1, <2>1, <2>2 DEF LockOk
<1>9. ResetOk(caller)
  BY <1>2, <1>3 DEF ResetOk
<1>10. SemsOk(count, not_empty, not_full, caller)
  <2>1. NeSum(caller) = 0 /\ NfSum(caller) = 0
    BY <1>3, SumsIdle
  <2>2. QED
    BY <1>1, <2>1 DEF SemsOk, Users
<1>11. HintRd(count, wake_rd, caller) /\ HintWr(count, wake_wr, caller)
  <2>1. ASSUME NEW u \in User PROVE caller[u].at = "idle"
    BY <1>2, <1>3, <1>4
  <2>2. wake_rd \in {0, 1} /\ wake_wr \in {0, 1}
    BY <1>1
  <2>3. QED
    BY <2>1, <2>2 DEF HintRd, HintWr
<1>12. QED
  BY <1>5, <1>6, <1>7, <1>8, <1>9, <1>10, <1>11 DEF IInv, QueueInv, CallInv, SemInv

\* A step outside the queue.
LEMMA StutterSafe ==
    ASSUME IInv, UNCHANGED vars
    PROVE  IInv'
BY DEF IInv, QueueInv, CallInv, SemInv, vars

\* No task with a descriptor is parked: no system call meets the mutex held.
LEMMA NoneParked ==
    ASSUME IInv, NEW t \in User
    PROVE  caller[t].at # "parked"
<1>1. caller[t] \in UserCall
  BY DEF IInv, CallInv, CallOk
<1>2. QED
  BY <1>1 DEF UserCall, Idle

\* Every step of every task keeps the invariant.
LEMMA StepSafe ==
    ASSUME Users, IInv, Next
    PROVE  IInv'
<1>1. CASE \E t \in Priv : PushTake(t) \/ PopTake(t) \/ OverwriteRetry(t)
  BY <1>1, PushTakeSafe, PopTakeSafe, OverwriteRetrySafe
<1>2. CASE \E t \in Priv, op \in {"peek", "reset"} : LookOrReset(t, op)
  BY <1>2, LookOrResetSafe
<1>3. CASE \E t \in Priv : Lock(t) \/ Granted(t)
  BY <1>3, LockSafe, WithinSafe
<1>4. CASE \E t \in Priv : PushIn(t) \/ PushMove(t) \/ PopIn(t)
  BY <1>4, WithinSafe, PushMoveSafe, PopInSafe
<1>5. CASE \E t \in Priv : OverwriteIn(t) \/ LookIn(t) \/ ResetIn(t)
  BY <1>5, QuietSafe, ResetInSafe
<1>6. CASE \E t \in Priv : GiveSem(t) \/ Hint(t)
  BY <1>6, GiveSemSafe, HintSafe
<1>7. CASE \E t \in User : TrySend(t) \/ TryRecv(t)
  BY <1>7, TrySendSafe, TryRecvSafe
<1>8. CASE \E t \in User : Wait(t) \/ GiveUp(t)
  BY <1>8, WaitSafe, GiveUpSafe
<1>9. CASE \E t \in User : ParkedReturns(t)
  BY <1>9, NoneParked DEF ParkedReturns
<1>10. QED
  BY <1>1, <1>2, <1>3, <1>4, <1>5, <1>6, <1>7, <1>8, <1>9 DEF Next, Step

\* A sum of three counts that is not zero has a count that is not.
LEMMA SomeOnTheWay ==
    ASSUME NEW a \in Nat, NEW b \in Nat, NEW c \in Nat, a + b + c >= 1
    PROVE  a > 0 \/ b > 0 \/ c > 0
OBVIOUS

\* The counts are numbers.
LEMMA NumType ==
    ASSUME Users, NEW f, NEW at, NEW ops
    PROVE  Num(f, at, ops) \in Nat
<1> DEFINE S == {t \in Task : f[t].at \in at /\ f[t].op \in ops}
<1>1. S \in SUBSET Task
  OBVIOUS
<1>2. Cardinality(S) \in Nat
  BY <1>1, FS_Subset, FS_CardinalityType DEF Users
<1>3. QED
  BY <1>2 DEF Num

\* The invariant is what MpmcSound needs.
LEMMA InvariantSuffices ==
    ASSUME Users, IInv
    PROVE  MpmcSound
<1>1. RingExact
  <2>1. RingOk(ring, head, tail, count, content)
    BY DEF IInv, QueueInv
  <2>2. QED
    BY <2>1 DEF RingOk, RingExact
<1>2. \A at, ops : Where(at, ops) = Num(caller, at, ops)
  BY DEF Where, Num
<1>3. count \in 0..Capacity /\ Capacity \in Nat
  BY DEF IInv, QueueInv, RingOk, Users
<1>4. SemsAgree
  <2>1. SemsOk(count, not_empty, not_full, caller)
    BY DEF IInv, SemInv
  <2>2. /\ Num(caller, {"lock", "parked", "in"}, {"pop"}) \in Nat
        /\ Num(caller, {"give"}, {"push"}) \in Nat
        /\ Num(caller, {"lock", "parked", "in", "stored"}, {"push"}) \in Nat
        /\ Num(caller, {"give"}, {"pop"}) \in Nat
    BY NumType
  <2>3. QED
    BY <1>2, <1>3, <2>1, <2>2 DEF SemsOk, SemsAgree, NeSum, NfSum
<1>5. ASSUME Sleepers("wait_rd") # {}, count > 0
      PROVE  \/ Where({"give", "hint"}, {"push"}) > 0 \/ Where({"retry"}, {"recv"}) > 0
             \/ Where({"lock", "parked", "in"}, {"pop"}) > 0
  <2>1. count <= RdSum(caller)
    BY <1>5 DEF Sleepers, IInv, SemInv, HintRd
  <2>2. /\ Num(caller, {"give", "hint"}, {"push"}) \in Nat
        /\ Num(caller, {"retry"}, {"recv"}) \in Nat
        /\ Num(caller, {"lock", "parked", "in"}, {"pop"}) \in Nat
    BY NumType
  <2>3. RdSum(caller) >= 1
    BY <1>3, <1>5, <2>1, <2>2 DEF RdSum
  <2>4. QED
    BY <1>2, <2>2, <2>3, SomeOnTheWay DEF RdSum
<1>6. ASSUME Sleepers("wait_wr") # {}, count < Capacity
      PROVE  \/ Where({"give", "hint"}, {"pop"}) > 0 \/ Where({"retry"}, {"send"}) > 0
             \/ Where({"lock", "parked", "in", "stored"}, {"push"}) > 0
  <2>1. Capacity - count <= WrSum(caller)
    BY <1>6 DEF Sleepers, IInv, SemInv, HintWr
  <2>2. /\ Num(caller, {"give", "hint"}, {"pop"}) \in Nat
        /\ Num(caller, {"retry"}, {"send"}) \in Nat
        /\ Num(caller, {"lock", "parked", "in", "stored"}, {"push"}) \in Nat
    BY NumType
  <2>3. WrSum(caller) >= 1
    BY <1>3, <1>6, <2>1, <2>2 DEF WrSum
  <2>4. QED
    BY <1>2, <2>2, <2>3, SomeOnTheWay DEF WrSum
<1>7. NoLostHint
  BY <1>5, <1>6 DEF NoLostHint
<1>8. QED
  BY <1>1, <1>4, <1>7 DEF MpmcSound

\* However many tasks use a queue, and whatever its capacity, the ring holds what was
\* pushed and not popped, the two semaphores count its elements and holes but for the
\* calls in between, and no sleeper misses its hint (mpmc_push_timeout,
\* mpmc_pop_timeout, mpmc_reset, v_queue_try_send, v_queue_try_recv, v_queue_wait).
THEOREM MpmcSafe ==
    ASSUME Users
    PROVE  Spec => []MpmcSound
<1>1. Init => IInv
  BY InitSafe
<1>2. IInv /\ [Next]_vars => IInv'
  BY StepSafe, StutterSafe
<1>3. IInv => MpmcSound
  BY InvariantSuffices
<1>4. QED
  BY <1>1, <1>2, <1>3, PTL DEF Spec
===============================================================================

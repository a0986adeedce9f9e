--------------------------- MODULE PeriphBusProofs ---------------------------
(***************************************************************************)
(* The peripheral bus arbiter, for any number of lockers, slots and        *)
(* priorities: the bus has one user at a time and always goes on to the    *)
(* next, and a handle's transfer answers for itself.                       *)
(***************************************************************************)
EXTENDS PeriphBus, PbusMgr, ListLemmas

Where == {"idle", "enqueue", "dispatch", "start", "failed", "take", "expired", "held", "dead"}
Starting == {"start", "failed"}
InLock == {"dispatch", "start", "failed", "take", "expired"}
Transfer == [job : {Handle, Cyclic}, xfer : {1, 2}]

BusType ==
    /\ queue \in Seq(Job) /\ active \in {Handle, Cyclic, NULL} /\ locked \in BOOLEAN
    /\ state \in [Job -> {"IDLE", "QUEUED", "ACTIVE"}] /\ prio \in [Job -> Nat]

ProcType ==
    /\ slot_owner \in [Slot -> Locker \cup {NULL}] /\ grant \in [Slot -> {0, 1}]
    /\ at \in [Process -> Where] /\ slot \in [Process -> Slot \cup {NULL}]
    /\ slot[Kernel] = NULL /\ at[Kernel] \in {"idle", "dispatch", "start", "failed"}

UserType ==
    /\ wire \in Transfer \cup {NULL}
    /\ used \in BOOLEAN /\ orphan \in BOOLEAN /\ done \in {0, 1} /\ rc \in {NoRc, -1, 1, 2}
    /\ user \in {"closed", "open", "wait", "finish"} /\ xfer \in {1, 2}
    /\ result \in {"none", "ETIMEDOUT", "EBUSY", "failed", "mine"} /\ expired \in BOOLEAN

TypeInv == BusType /\ ProcType /\ UserType

\* The queue: the queued jobs, once each, by priority.
Sorted(q, p) == \A i, k \in DOMAIN q : i < k => p[q[i]] >= p[q[k]]
QueueInv ==
    NoDup(queue) /\ ToSet(queue) = {j \in Job : state[j] = "QUEUED"} /\ Sorted(queue, prio)

\* Who has the bus: the active job or a locked slot, never both, and one of them.
BusInv ==
    /\ active # NULL => ~locked /\ state[active] = "ACTIVE"
    /\ locked => \E s \in Slot : state[s] = "ACTIVE"
    /\ \A s \in Slot : state[s] = "ACTIVE" => locked
    /\ \A s, r \in Slot : state[s] = "ACTIVE" /\ state[r] = "ACTIVE" => s = r
    /\ \A j \in Job \ Slot : state[j] = "ACTIVE" => active = j

\* The active job is with the hardware or with the one process that starts it.
WireInv ==
    /\ wire # NULL => active = wire.job
    /\ \A p \in Process : at[p] \in Starting => active # NULL /\ wire = NULL
    /\ \A p, q \in Process : at[p] \in Starting /\ at[q] \in Starting => p = q

\* A slot and its owner know each other, and the slot's job is as far as its owner is.
SlotInv ==
    /\ \A s \in Slot : slot_owner[s] # NULL => slot[slot_owner[s]] = s
    /\ \A t \in Locker : slot[t] # NULL =>
         /\ slot_owner[slot[t]] = t
         /\ at[t] \notin {"idle", "dead"}
    /\ \A s \in Slot : slot_owner[s] = NULL => state[s] = "IDLE"
    /\ \A t \in Locker :
         /\ at[t] \in {"enqueue", "take", "expired", "held"} => slot[t] # NULL
         /\ at[t] = "enqueue" => state[slot[t]] = "IDLE"
         /\ at[t] \in InLock /\ slot[t] # NULL => state[slot[t]] # "IDLE"
         /\ at[t] = "held" => state[slot[t]] = "ACTIVE"

\* The semaphore of a slot is given exactly when its job has been handed the bus.
GrantInv ==
    /\ \A s \in Slot : state[s] = "QUEUED" => grant[s] = 0
    /\ \A t \in Locker : slot[t] # NULL /\ state[slot[t]] = "ACTIVE"
                            /\ at[t] \in {"dispatch", "start", "failed", "take"}
                         => grant[slot[t]] = 1

\* The handle is in use while it is open or its transfer is in flight.
HandleInv ==
    /\ user = "closed" => used = orphan
    /\ user # "closed" => used /\ ~orphan
    /\ orphan => state[Handle] = "ACTIVE"
    /\ state[Handle] # "IDLE" => used

\* The outcome that waits for the user task is that of its last transfer.
ResultInv ==
    /\ wire # NULL /\ wire.job = Handle => wire.xfer = xfer
    /\ done = 1 => state[Handle] = "IDLE"
    /\ user \in {"wait", "finish"} /\ state[Handle] = "IDLE" => rc \in {-1, xfer}
    /\ user = "finish" /\ ~expired => state[Handle] = "IDLE"
    /\ result \in {"ETIMEDOUT", "EBUSY"} => expired

\* The inductive invariant.
IInv ==
    /\ TypeInv /\ QueueInv /\ BusInv /\ WireInv /\ SlotInv /\ GrantInv /\ HandleInv /\ ResultInv
------------------------------------------------------------------------------
(* The queue *)

\* A job that goes behind those of at least its priority keeps the order.
LEMMA InsertAtSorted ==
    ASSUME NEW S, NEW q \in Seq(S), NEW p \in [S -> Nat], NEW j \in S, Sorted(q, p),
           NEW b \in 1..(Len(q) + 1),
           \A k \in 1..Len(q) : IF k < b THEN p[q[k]] >= p[j] ELSE p[q[k]] < p[j],
           NEW r \in Seq(S), Len(r) = Len(q) + 1,
           \A k \in 1..(Len(q) + 1) :
              r[k] = IF k < b THEN q[k] ELSE IF k = b THEN j ELSE q[k - 1]
    PROVE  Sorted(r, p)
<1>1. Len(q) \in Nat /\ DOMAIN q = 1..Len(q) /\ \A i \in 1..Len(q) : q[i] \in S
  BY LenProperties, ElementOfSeq
<1>2. /\ r \in Seq(S) /\ Len(r) = Len(q) + 1
      /\ \A k \in 1..(Len(q) + 1) :
           r[k] = IF k < b THEN q[k] ELSE IF k = b THEN j ELSE q[k - 1]
  OBVIOUS
<1>3. DOMAIN r = 1..(Len(q) + 1)
  BY <1>2, LenProperties
<1>4. \A x, y \in 1..Len(q) : x < y => p[q[x]] >= p[q[y]]
  BY <1>1 DEF Sorted
<1>5. p[j] \in Nat /\ \A x \in 1..Len(q) : p[q[x]] \in Nat
  BY <1>1
<1>6. ASSUME NEW i \in 1..(Len(q) + 1), NEW k \in 1..(Len(q) + 1), i < k
      PROVE  p[r[i]] >= p[r[k]]
  <2>1. CASE k < b
    <3>1. r[i] = q[i] /\ r[k] = q[k] /\ i \in 1..Len(q) /\ k \in 1..Len(q)
      BY <1>1, <1>2, <1>6, <2>1
    <3>2. QED
      BY <1>4, <1>6, <3>1
  <2>2. CASE k = b
    <3>1. r[i] = q[i] /\ r[k] = j /\ i \in 1..Len(q) /\ i < b
      BY <1>1, <1>2, <1>6, <2>2
    <3>2. QED
      BY <3>1
  <2>3. CASE i < b /\ k > b
    <3>1. r[i] = q[i] /\ r[k] = q[k - 1] /\ i \in 1..Len(q) /\ k - 1 \in 1..Len(q) /\ i < k - 1
      BY <1>1, <1>2, <1>6, <2>3
    <3>2. QED
      BY <1>4, <3>1
  <2>4. CASE i = b
    <3>1. r[i] = j /\ r[k] = q[k - 1] /\ k - 1 \in 1..Len(q) /\ ~(k - 1 < b)
      BY <1>1, <1>2, <1>6, <2>4
    <3>2. p[q[k - 1]] < p[j]
      BY <3>1
    <3>3. QED
      BY <1>5, <3>1, <3>2, SMTT(30)
  <2>5. CASE i > b
    <3>1. /\ r[i] = q[i - 1] /\ r[k] = q[k - 1]
          /\ i - 1 \in 1..Len(q) /\ k - 1 \in 1..Len(q) /\ i - 1 < k - 1
      BY <1>1, <1>2, <1>6, <2>5
    <3>2. QED
      BY <1>4, <3>1
  <2>6. QED
    BY <1>1, <1>6, <2>1, <2>2, <2>3, <2>4, <2>5
<1>7. QED
  BY <1>3, <1>6 DEF Sorted

\* enqueue puts it there.
LEMMA InsertSorted ==
    ASSUME NEW S, NEW q \in Seq(S), NEW p \in [S -> Nat], NEW j \in S, Sorted(q, p)
    PROVE  /\ Insert(q, p, j) \in Seq(S) /\ Sorted(Insert(q, p, j), p)
           /\ ToSet(Insert(q, p, j)) = ToSet(q) \cup {j}
           /\ NoDup(q) /\ j \notin ToSet(q) => NoDup(Insert(q, p, j))
<1> DEFINE A == {i \in DOMAIN q : p[q[i]] >= p[j]}
           b == Cardinality(A) + 1
<1>1. Len(q) \in Nat /\ DOMAIN q = 1..Len(q) /\ \A i \in 1..Len(q) : q[i] \in S
  BY LenProperties, ElementOfSeq
<1>2. A \in SUBSET (1..Len(q))
  BY <1>1
<1>3. ASSUME NEW i \in A, NEW k \in 1..i PROVE k \in A
  <2>1. k \in DOMAIN q /\ p[q[k]] \in Nat /\ p[q[i]] \in Nat /\ p[j] \in Nat
    BY <1>1
  <2>2. p[q[k]] >= p[q[i]]
    BY <1>1, <2>1 DEF Sorted
  <2>3. QED
    BY <2>1, <2>2
<1>4. Insert(q, p, j) = InsertAt(q, b, j)
  BY DEF Insert
<1>5. \A k \in 1..Len(q) : k \in A <=> p[q[k]] >= p[j]
  BY <1>1
<1> HIDE DEF A
<1>6. Cardinality(A) \in 0..Len(q) /\ A = 1..Cardinality(A)
  BY <1>1, <1>2, <1>3, PrefixSet
<1>7. b \in 1..(Len(q) + 1) /\ \A k \in 1..Len(q) : k \in A <=> k < b
  BY <1>1, <1>6
<1>8. \A k \in 1..Len(q) : IF k < b THEN p[q[k]] >= p[j] ELSE p[q[k]] < p[j]
  BY <1>1, <1>5, <1>7
<1> HIDE DEF b
<1> DEFINE r == InsertAt(q, b, j)
<1>9. /\ r \in Seq(S) /\ Len(r) = Len(q) + 1
      /\ \A k \in 1..(Len(q) + 1) :
           r[k] = IF k < b THEN q[k] ELSE IF k = b THEN j ELSE q[k - 1]
  BY <1>7, InsertAtElem
<1>10. Sorted(r, p)
  <2> HIDE DEF r
  <2>1. QED
    BY <1>7, <1>8, <1>9, InsertAtSorted
<1>11. QED
  BY <1>4, <1>7, <1>9, <1>10, InsertAtRange

\* What is left of a sorted queue is sorted (unqueue, dispatch).
LEMMA UnlinkSorted ==
    ASSUME NEW S, NEW q \in Seq(S), NEW p, NEW x, Sorted(q, p)
    PROVE  Sorted(Unlink(q, x), p)
<1>1. CASE x \in ToSet(q)
  <2> DEFINE i == CHOOSE k \in DOMAIN q : q[k] = x
             r == RemoveAt(q, i)
  <2>1. i \in 1..Len(q) /\ DOMAIN q = 1..Len(q) /\ Len(q) \in Nat
    BY <1>1, LenProperties DEF ToSet
  <2>2. Unlink(q, x) = r
    BY <1>1 DEF Unlink
  <2> HIDE DEF i
  <2>3. /\ r \in Seq(S) /\ Len(r) = Len(q) - 1
        /\ \A k \in 1..(Len(q) - 1) : r[k] = IF k < i THEN q[k] ELSE q[k + 1]
    BY <2>1, RemoveAtElem
  <2> HIDE DEF r
  <2>4. DOMAIN r = 1..(Len(q) - 1)
    BY <2>3, LenProperties
  <2>5. \A y, z \in 1..Len(q) : y < z => p[q[y]] >= p[q[z]]
    BY <2>1 DEF Sorted
  <2>6. ASSUME NEW y \in 1..(Len(q) - 1), NEW z \in 1..(Len(q) - 1), y < z
        PROVE  p[r[y]] >= p[r[z]]
    <3> DEFINE u == IF y < i THEN y ELSE y + 1
               v == IF z < i THEN z ELSE z + 1
    <3>1. r[y] = q[u] /\ r[z] = q[v]
      BY <2>3
    <3>2. u \in 1..Len(q) /\ v \in 1..Len(q) /\ u < v
      BY <2>1, <2>6
    <3> HIDE DEF u, v
    <3>3. QED
      BY <2>5, <3>1, <3>2
  <2>7. QED
    BY <2>2, <2>4, <2>6 DEF Sorted
<1>2. CASE x \notin ToSet(q)
  BY <1>2 DEF Unlink
<1>3. QED
  BY <1>1, <1>2

\* What is left of a sorted queue is sorted.
LEMMA TailSorted ==
    ASSUME NEW S, NEW q \in Seq(S), NEW p, q # <<>>, Sorted(q, p)
    PROVE  Sorted(Tail(q), p)
<1>1. /\ Tail(q) \in Seq(S) /\ Len(Tail(q)) = Len(q) - 1
      /\ \A k \in 1..Len(Tail(q)) : Tail(q)[k] = q[k + 1]
  BY HeadTailProperties
<1>2. DOMAIN q = 1..Len(q) /\ Len(q) \in Nat /\ DOMAIN Tail(q) = 1..(Len(q) - 1)
  BY <1>1, LenProperties
<1>3. QED
  BY <1>1, <1>2 DEF Sorted

\* The constants are different things.
LEMMA Distinct ==
    ASSUME PbusAssumption
    PROVE  /\ Handle \notin Slot /\ Cyclic \notin Slot /\ Handle # Cyclic
           /\ NULL \notin Slot /\ NULL # Handle /\ NULL # Cyclic /\ NULL \notin Locker
           /\ NULL \notin Transfer /\ Kernel \notin Locker
           /\ \A j \in Locker \cup {Handle, Cyclic} : Prio[j] \in Nat
BY DEF PbusAssumption, Job, Transfer

\* A job that is not queued joins the queue (enqueue).
LEMMA EnqueueKeeps ==
    ASSUME TypeInv, QueueInv, NEW j \in Job, NEW p \in Nat, state[j] # "QUEUED",
           enqueue(j, p)
    PROVE  /\ queue' \in Seq(Job) /\ prio' \in [Job -> Nat]
           /\ state' \in [Job -> {"IDLE", "QUEUED", "ACTIVE"}]
           /\ QueueInv'
<1>1. /\ queue \in Seq(Job) /\ prio' \in [Job -> Nat] /\ NoDup(queue)
      /\ state' \in [Job -> {"IDLE", "QUEUED", "ACTIVE"}]
      /\ ToSet(queue) = {i \in Job : state[i] = "QUEUED"} /\ j \notin ToSet(queue)
  BY DEF TypeInv, BusType, QueueInv, enqueue
<1>2. Sorted(queue, prio')
  <2>1. \A i \in DOMAIN queue : queue[i] \in Job /\ queue[i] # j
    BY <1>1, LenProperties, ElementOfSeq DEF ToSet
  <2>2. \A i \in DOMAIN queue : prio'[queue[i]] = prio[queue[i]]
    BY <2>1 DEF enqueue, TypeInv, BusType
  <2>3. QED
    BY <2>2 DEF QueueInv, Sorted
<1>3. /\ queue' = Insert(queue, prio', j)
      /\ queue' \in Seq(Job) /\ Sorted(queue', prio') /\ NoDup(queue')
      /\ ToSet(queue') = ToSet(queue) \cup {j}
  <2>1. ASSUME NEW q \in [Job -> Nat], Sorted(queue, q)
        PROVE  /\ Insert(queue, q, j) \in Seq(Job) /\ Sorted(Insert(queue, q, j), q)
               /\ ToSet(Insert(queue, q, j)) = ToSet(queue) \cup {j}
               /\ NoDup(Insert(queue, q, j))
    <3>1. queue \in Seq(Job) /\ NoDup(queue) /\ j \notin ToSet(queue)
      BY <1>1
    <3>2. Insert(queue, q, j) \in Seq(Job)
      BY <2>1, <3>1, InsertSorted
    <3>3. Sorted(Insert(queue, q, j), q)
      BY <2>1, <3>1, InsertSorted
    <3>4. ToSet(Insert(queue, q, j)) = ToSet(queue) \cup {j}
      BY <2>1, <3>1, InsertSorted
    <3>5. NoDup(Insert(queue, q, j))
      BY <2>1, <3>1, InsertSorted
    <3>6. QED
      BY <3>2, <3>3, <3>4, <3>5
  <2>2. queue' = Insert(queue, prio', j)
    BY DEF enqueue
  <2>3. QED
    BY <1>1, <1>2, <2>1, <2>2
<1>4. {i \in Job : state'[i] = "QUEUED"} = {i \in Job : state[i] = "QUEUED"} \cup {j}
  BY DEF enqueue, TypeInv, BusType
<1>5. QED
  BY <1>1, <1>3, <1>4 DEF QueueInv

\* A job leaves it, if it was on it (unqueue, drop_slot).
LEMMA UnqueueKeeps ==
    ASSUME TypeInv, QueueInv, NEW j \in Job, queue' = Unlink(queue, j), prio' = prio,
           state' = [state EXCEPT ![j] = "IDLE"]
    PROVE  /\ queue' \in Seq(Job)
           /\ state' \in [Job -> {"IDLE", "QUEUED", "ACTIVE"}]
           /\ QueueInv'
<1>1. /\ queue \in Seq(Job) /\ NoDup(queue) /\ Sorted(queue, prio)
      /\ state' \in [Job -> {"IDLE", "QUEUED", "ACTIVE"}]
      /\ ToSet(queue) = {i \in Job : state[i] = "QUEUED"}
  BY DEF TypeInv, BusType, QueueInv
<1>2. /\ queue' \in Seq(Job) /\ Sorted(queue', prio) /\ NoDup(queue')
      /\ ToSet(queue') = ToSet(queue) \ {j}
  <2> DEFINE r == Unlink(queue, j)
  <2>1. r \in Seq(Job)
    BY <1>1, UnlinkType
  <2>2. NoDup(r) /\ ToSet(r) = ToSet(queue) \ {j}
    BY <1>1, UnlinkRange
  <2>3. Sorted(r, prio)
    BY <1>1, UnlinkSorted
  <2>4. QED
    BY <2>1, <2>2, <2>3
<1>3. {i \in Job : state'[i] = "QUEUED"} = {i \in Job : state[i] = "QUEUED"} \ {j}
  BY DEF TypeInv, BusType
<1>4. QED
  BY <1>1, <1>2, <1>3 DEF QueueInv

\* The head of the queue gets the bus (dispatch).
LEMMA HeadKeeps ==
    ASSUME TypeInv, QueueInv, queue # <<>>, queue' = Tail(queue), prio' = prio,
           state' = [state EXCEPT ![Head(queue)] = "ACTIVE"]
    PROVE  /\ Head(queue) \in Job /\ state[Head(queue)] = "QUEUED"
           /\ queue' \in Seq(Job)
           /\ state' \in [Job -> {"IDLE", "QUEUED", "ACTIVE"}]
           /\ QueueInv'
<1>1. /\ queue \in Seq(Job) /\ NoDup(queue) /\ Sorted(queue, prio)
      /\ ToSet(queue) = {i \in Job : state[i] = "QUEUED"}
  BY DEF TypeInv, BusType, QueueInv
<1>2. /\ Head(queue) \in ToSet(queue) /\ queue' \in Seq(Job) /\ Sorted(queue', prio)
      /\ NoDup(queue') /\ ToSet(queue') = ToSet(queue) \ {Head(queue)}
  BY <1>1, TailRange, TailSorted
<1>3. Head(queue) \in Job /\ state[Head(queue)] = "QUEUED"
  BY <1>1, <1>2
<1>4. state' \in [Job -> {"IDLE", "QUEUED", "ACTIVE"}]
  BY DEF TypeInv, BusType
<1>5. {i \in Job : state'[i] = "QUEUED"} = {i \in Job : state[i] = "QUEUED"} \ {Head(queue)}
  BY <1>3 DEF TypeInv, BusType
<1>6. QED
  BY <1>1, <1>2, <1>3, <1>4, <1>5 DEF QueueInv

\* Nothing joins or leaves.
LEMMA QueueKept ==
    ASSUME QueueInv, queue' = queue, prio' = prio,
           \A j \in Job : state'[j] = "QUEUED" <=> state[j] = "QUEUED"
    PROVE  QueueInv'
BY DEF QueueInv
------------------------------------------------------------------------------
(* The steps *)

USE DEF Process, Job, Where, Starting, InLock, Transfer, MayRun, Goto, AfterDispatch, NoRc,
        busVars, slotVars, procVars, handleVars, userVars

\* The transfer starts, or fails to.
LEMMA StartSafe ==
    ASSUME PbusAssumption, IInv, NEW p \in Process, Start(p)
    PROVE  IInv'
<1> USE Distinct DEF IInv, TypeInv, Start
<1>1. BusType'
  BY DEF BusType
<1>2. ProcType'
  BY DEF ProcType
<1>3. UserType'
  BY DEF UserType, WireInv, BusType
<1>4. QueueInv'
  <2>1. queue' = queue /\ prio' = prio /\ state' = state
    OBVIOUS
  <2>2. QED
    BY <2>1, QueueKept
<1>5. BusInv'
  BY DEF BusType, ProcType, BusInv
<1>6. WireInv'
  <2>1. active # NULL /\ wire = NULL /\ at \in [Process -> Where]
    BY DEF ProcType, WireInv
  <2>2. \A q \in Process : q # p => at'[q] = at[q] /\ at[q] \notin Starting
    BY DEF ProcType, WireInv
  <2>3. CASE wire' = [job |-> active, xfer |-> xfer] /\ at'[p] \in {"take", "idle"}
    <3>1. \A q \in Process : at'[q] \notin Starting
      BY <2>2, <2>3
    <3>2. QED
      BY <2>3, <3>1 DEF WireInv
  <2>4. CASE at'[p] = "failed" /\ UNCHANGED wire
    <3>1. \A q \in Process : at'[q] \in Starting => q = p
      BY <2>2
    <3>2. QED
      BY <2>1, <2>4, <3>1 DEF WireInv
  <2>5. QED
    BY <2>1, <2>3, <2>4
<1>7. SlotInv'
  BY DEF BusType, ProcType, SlotInv
<1>8. GrantInv'
  BY DEF BusType, ProcType, SlotInv, GrantInv
<1>9. HandleInv'
  BY DEF BusType, UserType, HandleInv
<1>10. ResultInv'
  BY DEF BusType, UserType, ResultInv
<1>11. QED
  BY <1>1, <1>2, <1>3, <1>4, <1>5, <1>6, <1>7, <1>8, <1>9, <1>10

\* A start that failed gives the bus back.
LEMMA StartFailedSafe ==
    ASSUME PbusAssumption, IInv, NEW p \in Process, StartFailed(p)
    PROVE  IInv'
<1> USE Distinct DEF IInv, TypeInv, StartFailed, release, handle_done
<1>1. BusType'
  BY DEF BusType
<1>2. ProcType'
  BY DEF ProcType
<1>3. UserType'
  <2>1. wire' \in Transfer \cup {NULL} /\ rc' \in {NoRc, -1, 1, 2} /\ done' \in {0, 1}
    BY DEF UserType
  <2>2. used' \in BOOLEAN
    BY DEF UserType
  <2>3. orphan' \in BOOLEAN
    BY DEF UserType
  <2>4. QED
    BY <2>1, <2>2, <2>3 DEF UserType
<1>4. QueueInv'
  <2>1. queue' = queue /\ prio' = prio
    OBVIOUS
  <2>2. \A j \in Job : state'[j] = "QUEUED" <=> state[j] = "QUEUED"
    BY DEF BusType, BusInv
  <2>3. QED
    BY <2>1, <2>2, QueueKept
<1>5. BusInv'
  BY DEF BusType, ProcType, BusInv, WireInv
<1>6. WireInv'
  BY DEF BusType, ProcType, UserType, WireInv
<1>7. SlotInv'
  BY DEF BusType, ProcType, SlotInv, BusInv
<1>8. GrantInv'
  BY DEF BusType, ProcType, SlotInv, GrantInv, BusInv
<1>9. HandleInv'
  BY DEF BusType, UserType, HandleInv, BusInv, WireInv
<1>10. ResultInv'
  BY DEF BusType, UserType, ResultInv, BusInv, WireInv, HandleInv
<1>11. QED
  BY <1>1, <1>2, <1>3, <1>4, <1>5, <1>6, <1>7, <1>8, <1>9, <1>10

\* A completion or an abort gives it back, with the outcome of this transfer.
LEMMA CompleteSafe ==
    ASSUME PbusAssumption, IInv, NEW o \in {-1, 1, 2}, o \in {-1, wire.xfer}, Complete(o)
    PROVE  IInv'
<1> USE Distinct DEF IInv, TypeInv, Complete, release, handle_done
<1>1. BusType'
  BY DEF BusType
<1>2. ProcType'
  BY DEF ProcType
<1>3. UserType'
  <2>1. wire' \in Transfer \cup {NULL} /\ rc' \in {NoRc, -1, 1, 2} /\ done' \in {0, 1}
    BY DEF UserType
  <2>2. used' \in BOOLEAN
    BY DEF UserType
  <2>3. orphan' \in BOOLEAN
    BY DEF UserType
  <2>4. QED
    BY <2>1, <2>2, <2>3 DEF UserType
<1>4. QueueInv'
  <2>1. queue' = queue /\ prio' = prio
    OBVIOUS
  <2>2. \A j \in Job : state'[j] = "QUEUED" <=> state[j] = "QUEUED"
    BY DEF BusType, BusInv
  <2>3. QED
    BY <2>1, <2>2, QueueKept
<1>5. BusInv'
  BY DEF BusType, ProcType, BusInv, WireInv
<1>6. WireInv'
  BY DEF BusType, ProcType, UserType, WireInv
<1>7. SlotInv'
  BY DEF BusType, ProcType, SlotInv, BusInv
<1>8. GrantInv'
  BY DEF BusType, ProcType, SlotInv, GrantInv, BusInv
<1>9. HandleInv'
  BY DEF BusType, UserType, HandleInv, BusInv, WireInv
<1>10. ResultInv'
  BY DEF BusType, UserType, ResultInv, BusInv, WireInv, HandleInv
<1>11. QED
  BY <1>1, <1>2, <1>3, <1>4, <1>5, <1>6, <1>7, <1>8, <1>9, <1>10

\* The cyclic job comes and goes.
LEMMA CyclicSafe ==
    ASSUME PbusAssumption, IInv, v_pbus_cyclic_add \/ v_pbus_cyclic_remove
    PROVE  IInv'
<1> USE Distinct DEF IInv, TypeInv, v_pbus_cyclic_add, v_pbus_cyclic_remove
<1>1. BusType'
  BY DEF BusType
<1>2. ProcType'
  BY DEF ProcType
<1>3. UserType'
  BY DEF UserType
<1>4. QueueInv'
  <2>1. queue' = queue /\ prio' = prio /\ state' = state
    OBVIOUS
  <2>2. QED
    BY <2>1, QueueKept
<1>5. BusInv'
  BY DEF BusType, ProcType, BusInv
<1>6. WireInv'
  BY DEF BusType, ProcType, UserType, WireInv
<1>7. SlotInv'
  BY DEF BusType, ProcType, SlotInv
<1>8. GrantInv'
  BY DEF BusType, ProcType, SlotInv, GrantInv
<1>9. HandleInv'
  BY DEF BusType, UserType, HandleInv
<1>10. ResultInv'
  BY DEF BusType, UserType, ResultInv
<1>11. QED
  BY <1>1, <1>2, <1>3, <1>4, <1>5, <1>6, <1>7, <1>8, <1>9, <1>10

\* A locker claims a free slot.
LEMMA ClaimSafe ==
    ASSUME PbusAssumption, IInv, NEW t \in Locker, Claim(t)
    PROVE  IInv'
<1> USE Distinct DEF IInv, TypeInv, Claim
<1>1. BusType'
  BY DEF BusType
<1>2. ProcType'
  BY DEF ProcType
<1>3. UserType'
  BY DEF UserType
<1>4. QueueInv'
  <2>1. queue' = queue /\ prio' = prio
    OBVIOUS
  <2>2. \A j \in Job : state'[j] = "QUEUED" <=> state[j] = "QUEUED"
    BY DEF BusType, ProcType, SlotInv
  <2>3. QED
    BY <2>1, <2>2, QueueKept
<1>5. BusInv'
  BY DEF BusType, ProcType, BusInv, SlotInv
<1>6. WireInv'
  BY DEF BusType, ProcType, UserType, WireInv
<1>7. SlotInv'
  BY DEF BusType, ProcType, SlotInv
<1>8. GrantInv'
  BY DEF BusType, ProcType, SlotInv, GrantInv
<1>9. HandleInv'
  BY DEF BusType, UserType, HandleInv
<1>10. ResultInv'
  BY DEF BusType, UserType, ResultInv
<1>11. QED
  BY <1>1, <1>2, <1>3, <1>4, <1>5, <1>6, <1>7, <1>8, <1>9, <1>10

\* Its job joins the queue, with a semaphore made anew.
LEMMA EnqueueSafe ==
    ASSUME PbusAssumption, IInv, NEW t \in Locker, Enqueue(t)
    PROVE  IInv'
<1> USE Distinct DEF IInv, TypeInv, Enqueue, NewGrant
<1>0. slot[t] \in Job /\ Prio[t] \in Nat /\ state[slot[t]] # "QUEUED" /\ enqueue(slot[t], Prio[t])
  BY DEF ProcType, SlotInv, BusType
<1>1. BusType'
  <2>1. UNCHANGED <<active, locked>>
    OBVIOUS
  <2>2. QED
    BY <1>0, <2>1, EnqueueKeeps DEF BusType
<1>2. ProcType'
  BY DEF ProcType, enqueue, SlotInv
<1>3. UserType'
  BY DEF UserType, enqueue, SlotInv
<1>4. QueueInv'
  BY <1>0, EnqueueKeeps
<1>5. BusInv'
  BY DEF BusType, ProcType, BusInv, enqueue, SlotInv
<1>6. WireInv'
  BY DEF BusType, ProcType, UserType, WireInv, enqueue, SlotInv
<1>7. SlotInv'
  BY DEF BusType, ProcType, SlotInv, enqueue, SlotInv
<1>8. GrantInv'
  BY DEF BusType, ProcType, SlotInv, GrantInv, enqueue, SlotInv
<1>9. HandleInv'
  <2>1. state'[Handle] = state[Handle]
    BY DEF BusType, ProcType, SlotInv, enqueue
  <2>2. QED
    BY <2>1 DEF BusType, UserType, HandleInv
<1>10. ResultInv'
  <2>1. state'[Handle] = state[Handle]
    BY DEF BusType, ProcType, SlotInv, enqueue
  <2>2. QED
    BY <2>1 DEF BusType, UserType, ResultInv
<1>11. QED
  BY <1>1, <1>2, <1>3, <1>4, <1>5, <1>6, <1>7, <1>8, <1>9, <1>10

\* The wait ends with the grant or without.
LEMMA TakeGrantSafe ==
    ASSUME PbusAssumption, IInv, NEW t \in Locker, TakeGrant(t)
    PROVE  IInv'
<1> USE Distinct DEF IInv, TypeInv, TakeGrant
<1>0. slot[t] \in Slot /\ \A u \in Locker : slot[u] = slot[t] => u = t
  BY DEF ProcType, SlotInv
<1>1. BusType'
  BY DEF BusType
<1>2. ProcType'
  BY DEF ProcType
<1>3. UserType'
  BY DEF UserType
<1>4. QueueInv'
  <2>1. queue' = queue /\ prio' = prio /\ state' = state
    OBVIOUS
  <2>2. QED
    BY <2>1, QueueKept
<1>5. BusInv'
  BY DEF BusType, ProcType, BusInv
<1>6. WireInv'
  BY DEF BusType, ProcType, UserType, WireInv
<1>7. SlotInv'
  <2>1. grant[slot[t]] = 1 => state[slot[t]] = "ACTIVE"
    BY <1>0 DEF BusType, SlotInv, GrantInv
  <2>2. QED
    BY <1>0, <2>1 DEF BusType, ProcType, SlotInv
<1>8. GrantInv'
  <2>1. CASE grant' = [grant EXCEPT ![slot[t]] = 0] /\ at' = [at EXCEPT ![t] = "held"]
    BY <1>0, <2>1 DEF ProcType, GrantInv
  <2>2. CASE grant' = grant /\ at' = [at EXCEPT ![t] = "expired"]
    BY <1>0, <2>2 DEF ProcType, GrantInv
  <2>3. QED
    BY <2>1, <2>2
<1>9. HandleInv'
  BY DEF BusType, UserType, HandleInv
<1>10. ResultInv'
  BY DEF BusType, UserType, ResultInv
<1>11. QED
  BY <1>1, <1>2, <1>3, <1>4, <1>5, <1>6, <1>7, <1>8, <1>9, <1>10

\* A handle is opened.
LEMMA OpenSafe ==
    ASSUME PbusAssumption, IInv, v_pbus_open
    PROVE  IInv'
<1> USE Distinct DEF IInv, TypeInv, v_pbus_open
<1>1. BusType'
  BY DEF BusType
<1>2. ProcType'
  BY DEF ProcType
<1>3. UserType'
  BY DEF UserType
<1>4. QueueInv'
  <2>1. queue' = queue /\ prio' = prio /\ state' = state
    OBVIOUS
  <2>2. QED
    BY <2>1, QueueKept
<1>5. BusInv'
  BY DEF BusType, ProcType, BusInv
<1>6. WireInv'
  BY DEF BusType, ProcType, UserType, WireInv
<1>7. SlotInv'
  BY DEF BusType, ProcType, SlotInv
<1>8. GrantInv'
  BY DEF BusType, ProcType, SlotInv, GrantInv
<1>9. HandleInv'
  BY DEF BusType, UserType, HandleInv
<1>10. ResultInv'
  BY DEF BusType, UserType, ResultInv
<1>11. QED
  BY <1>1, <1>2, <1>3, <1>4, <1>5, <1>6, <1>7, <1>8, <1>9, <1>10

\* The wait for a transfer ends, with its completion or without.
LEMMA WaitSafe ==
    ASSUME PbusAssumption, IInv, v_pbus_xfer_wait
    PROVE  IInv'
<1> USE Distinct DEF IInv, TypeInv, v_pbus_xfer_wait
<1>1. BusType'
  BY DEF BusType
<1>2. ProcType'
  BY DEF ProcType
<1>3. UserType'
  BY ZenonT(30) DEF UserType
<1>4. QueueInv'
  <2>1. queue' = queue /\ prio' = prio /\ state' = state
    OBVIOUS
  <2>2. QED
    BY <2>1, QueueKept
<1>5. BusInv'
  BY DEF BusType, ProcType, BusInv
<1>6. WireInv'
  BY DEF BusType, ProcType, UserType, WireInv
<1>7. SlotInv'
  BY DEF BusType, ProcType, SlotInv
<1>8. GrantInv'
  BY DEF BusType, ProcType, SlotInv, GrantInv
<1>9. HandleInv'
  BY DEF BusType, UserType, HandleInv
<1>10. ResultInv'
  BY DEF BusType, UserType, ResultInv
<1>11. QED
  BY <1>1, <1>2, <1>3, <1>4, <1>5, <1>6, <1>7, <1>8, <1>9, <1>10

\* A lock that timed out has the bus, or leaves the queue.
LEMMA RecheckSafe ==
    ASSUME PbusAssumption, IInv, NEW t \in Locker, Recheck(t)
    PROVE  IInv'
<1> USE Distinct DEF IInv, TypeInv, Recheck, GrantRacedIn, unqueue
<1>0. slot[t] \in Slot /\ slot_owner[slot[t]] = t /\ \A u \in Locker : slot[u] = slot[t] => u = t
  BY DEF ProcType, SlotInv
<1> DEFINE keep == UNCHANGED <<queue, state, slot, slot_owner>> /\ state[slot[t]] = "ACTIVE"
           drop == /\ queue' = Unlink(queue, slot[t]) /\ prio' = prio
                   /\ state' = [state EXCEPT ![slot[t]] = "IDLE"]
<1>a. keep \/ (drop /\ state[slot[t]] # "ACTIVE")
  OBVIOUS
<1>1. BusType'
  <2>1. CASE keep
    BY <2>1 DEF BusType
  <2>2. CASE drop
    BY <1>0, <2>2, UnqueueKeeps DEF BusType
  <2>3. QED
    BY <1>a, <2>1, <2>2
<1>2. ProcType'
  BY DEF ProcType, SlotInv
<1>3. UserType'
  BY DEF UserType, SlotInv
<1>4. QueueInv'
  <2>1. CASE keep
    BY <2>1, QueueKept
  <2>2. CASE drop
    BY <1>0, <2>2, UnqueueKeeps
  <2>3. QED
    BY <1>a, <2>1, <2>2
<1>5. BusInv'
  BY DEF BusType, ProcType, BusInv, SlotInv
<1>6. WireInv'
  BY DEF BusType, ProcType, UserType, WireInv, SlotInv
<1>7. SlotInv'
  <2>1. CASE keep /\ at' = [at EXCEPT ![t] = "held"]
    BY <1>0, <2>1 DEF BusType, ProcType, SlotInv
  <2>2. CASE drop /\ slot_owner' = [slot_owner EXCEPT ![slot[t]] = NULL]
             /\ slot' = [slot EXCEPT ![t] = NULL] /\ at' = [at EXCEPT ![t] = "idle"]
    BY <1>0, <2>2 DEF BusType, ProcType, SlotInv
  <2>3. QED
    BY <2>1, <2>2
<1>8. GrantInv'
  <2>1. CASE keep /\ at' = [at EXCEPT ![t] = "held"]
    BY <1>0, <2>1 DEF BusType, ProcType, SlotInv, GrantInv
  <2>2. CASE drop /\ slot_owner' = [slot_owner EXCEPT ![slot[t]] = NULL]
             /\ slot' = [slot EXCEPT ![t] = NULL] /\ at' = [at EXCEPT ![t] = "idle"]
    BY <1>0, <2>2 DEF BusType, ProcType, SlotInv, GrantInv
  <2>3. QED
    BY <2>1, <2>2
<1>9. HandleInv'
  <2>1. state'[Handle] = state[Handle]
    BY DEF BusType, ProcType, SlotInv, enqueue
  <2>2. QED
    BY <2>1 DEF BusType, UserType, HandleInv
<1>10. ResultInv'
  <2>1. state'[Handle] = state[Handle]
    BY DEF BusType, ProcType, SlotInv, enqueue
  <2>2. QED
    BY <2>1 DEF BusType, UserType, ResultInv
<1>11. QED
  BY <1>1, <1>2, <1>3, <1>4, <1>5, <1>6, <1>7, <1>8, <1>9, <1>10

\* An unlock frees the slot and the bus.
LEMMA UnlockSafe ==
    ASSUME PbusAssumption, IInv, NEW t \in Locker, v_pbus_unlock(t)
    PROVE  IInv'
<1> USE Distinct DEF IInv, TypeInv, v_pbus_unlock, drop_slot
<1>0. slot[t] \in Slot /\ slot_owner[slot[t]] = t /\ \A u \in Locker : slot[u] = slot[t] => u = t
  BY DEF ProcType, SlotInv
<1>1. BusType'
  <2>1. locked' \in BOOLEAN
    BY DEF BusType
  <2>2. QED
    BY <1>0, <2>1, UnqueueKeeps DEF BusType
<1>2. ProcType'
  BY DEF ProcType, SlotInv
<1>3. UserType'
  BY DEF UserType, SlotInv
<1>4. QueueInv'
  BY <1>0, UnqueueKeeps
<1>5. BusInv'
  <2>1. /\ state[slot[t]] = "ACTIVE" /\ slot[t] \in Slot /\ locked' = FALSE
        /\ \A s \in Slot : state[s] = "ACTIVE" => s = slot[t]
    BY <1>0, ZenonT(30) DEF BusType, BusInv, SlotInv
  <2>2. active = NULL /\ active' = NULL
    BY <2>1 DEF BusInv
  <2>3. \A j \in Job : state'[j] = "ACTIVE" <=> state[j] = "ACTIVE" /\ j # slot[t]
    BY <2>1 DEF BusType
  <2>4. QED
    BY <2>1, <2>2, <2>3 DEF BusInv
<1>6. WireInv'
  BY DEF BusType, ProcType, UserType, WireInv, SlotInv
<1>7. SlotInv'
  BY DEF BusType, ProcType, SlotInv, BusInv
<1>8. GrantInv'
  BY DEF BusType, ProcType, SlotInv, GrantInv, BusInv
<1>9. HandleInv'
  <2>1. state'[Handle] = state[Handle]
    BY DEF BusType, ProcType, SlotInv, enqueue
  <2>2. QED
    BY <2>1 DEF BusType, UserType, HandleInv
<1>10. ResultInv'
  <2>1. state'[Handle] = state[Handle]
    BY DEF BusType, ProcType, SlotInv, enqueue
  <2>2. QED
    BY <2>1 DEF BusType, UserType, ResultInv
<1>11. QED
  BY <1>1, <1>2, <1>3, <1>4, <1>5, <1>6, <1>7, <1>8, <1>9, <1>10

\* The tick submits the cyclic job if it is idle.
LEMMA TickSafe ==
    ASSUME PbusAssumption, IInv, v_pbus_tick_isr
    PROVE  IInv'
<1> USE Distinct DEF IInv, TypeInv, v_pbus_tick_isr
<1> DEFINE go == enqueue(Cyclic, Prio[Cyclic]) /\ state[Cyclic] = "IDLE" /\ Goto(Kernel, "dispatch")
           stay == UNCHANGED <<queue, state, prio, at>>
<1>0. (go \/ stay) /\ Cyclic \in Job /\ Prio[Cyclic] \in Nat
  OBVIOUS
<1>1. BusType'
  <2>1. CASE go
    BY <1>0, <2>1, EnqueueKeeps DEF BusType
  <2>2. CASE stay
    BY <2>2 DEF BusType
  <2>3. QED
    BY <1>0, <2>1, <2>2
<1>2. ProcType'
  BY DEF ProcType, enqueue
<1>3. UserType'
  BY DEF UserType, enqueue
<1>4. QueueInv'
  <2>1. CASE go
    BY <1>0, <2>1, EnqueueKeeps
  <2>2. CASE stay
    BY <2>2, QueueKept
  <2>3. QED
    BY <1>0, <2>1, <2>2
<1>5. BusInv'
  BY SMTT(30) DEF BusType, ProcType, BusInv, enqueue
<1>6. WireInv'
  BY DEF BusType, ProcType, UserType, WireInv, enqueue
<1>7. SlotInv'
  BY DEF BusType, ProcType, SlotInv, enqueue
<1>8. GrantInv'
  BY DEF BusType, ProcType, SlotInv, GrantInv, enqueue
<1>9. HandleInv'
  BY DEF BusType, UserType, HandleInv, enqueue
<1>10. ResultInv'
  BY DEF BusType, UserType, ResultInv, enqueue
<1>11. QED
  BY <1>1, <1>2, <1>3, <1>4, <1>5, <1>6, <1>7, <1>8, <1>9, <1>10

\* dispatch() finds the bus taken or the queue empty.
LEMMA PassSafe ==
    ASSUME PbusAssumption, IInv, NEW p \in Process, MayRun(p), at[p] = "dispatch",
           UNCHANGED <<slot_owner, slot, wire, countdown, handleVars, userVars>>,
           Goto(p, AfterDispatch(p)), UNCHANGED <<busVars, grant>>
    PROVE  IInv'
<1> USE Distinct DEF IInv, TypeInv, Goto
<1>1. BusType'
  BY DEF BusType
<1>2. ProcType'
  BY DEF ProcType
<1>3. UserType'
  BY DEF UserType
<1>4. QueueInv'
  <2>1. queue' = queue /\ prio' = prio /\ state' = state
    OBVIOUS
  <2>2. QED
    BY <2>1, QueueKept
<1>5. BusInv'
  BY DEF BusType, ProcType, BusInv
<1>6. WireInv'
  BY DEF BusType, ProcType, UserType, WireInv
<1>7. SlotInv'
  BY DEF BusType, ProcType, SlotInv
<1>8. GrantInv'
  BY DEF BusType, ProcType, SlotInv, GrantInv
<1>9. HandleInv'
  BY DEF BusType, UserType, HandleInv
<1>10. ResultInv'
  BY DEF BusType, UserType, ResultInv
<1>11. QED
  BY <1>1, <1>2, <1>3, <1>4, <1>5, <1>6, <1>7, <1>8, <1>9, <1>10

\* dispatch() hands the bus to a locker.
LEMMA GrantSafe ==
    ASSUME PbusAssumption, IInv, NEW p \in Process, MayRun(p), at[p] = "dispatch",
           UNCHANGED <<slot_owner, slot, wire, countdown, handleVars, userVars>>,
           NEW j, j = Head(queue), j \in Slot, BusFree, queue # <<>>,
           queue' = Tail(queue), state' = [state EXCEPT ![j] = "ACTIVE"], UNCHANGED prio,
           locked' = TRUE, grant' = [grant EXCEPT ![j] = 1], UNCHANGED active,
           Goto(p, AfterDispatch(p))
    PROVE  IInv'
<1> USE Distinct DEF IInv, TypeInv, BusFree
<1>0. /\ j \in Job /\ state[j] = "QUEUED" /\ queue' \in Seq(Job) /\ QueueInv'
      /\ state' \in [Job -> {"IDLE", "QUEUED", "ACTIVE"}]
  BY HeadKeeps
<1>1. BusType'
  BY <1>0 DEF BusType
<1>2. ProcType'
  BY DEF ProcType
<1>3. UserType'
  BY DEF UserType
<1>4. QueueInv'
  BY <1>0
<1>5. BusInv'
  <2>1. \A s \in Slot : state'[s] = "ACTIVE" <=> s = j
    BY <1>0 DEF BusType, BusInv
  <2>2. \A i \in Job \ Slot : state'[i] = state[i]
    BY <1>0 DEF BusType
  <2>3. QED
    BY <1>0, <2>1, <2>2 DEF BusInv
<1>6. WireInv'
  BY DEF BusType, ProcType, UserType, WireInv
<1>7. SlotInv'
  <2>1. \A i \in Job : state'[i] = IF i = j THEN "ACTIVE" ELSE state[i]
    BY <1>0 DEF BusType
  <2>2. \A q \in Process : q # p => at'[q] = at[q]
    BY DEF ProcType
  <2>3. at'[p] = IF p # Kernel /\ slot[p] # NULL THEN "take" ELSE "idle"
    BY DEF ProcType
  <2>4. QED
    BY <1>0, <2>1, <2>2, <2>3 DEF ProcType, SlotInv
<1>8. GrantInv'
  <2>1. \A i \in Job : state'[i] = IF i = j THEN "ACTIVE" ELSE state[i]
    BY <1>0 DEF BusType
  <2>2. \A s \in Slot : grant'[s] = IF s = j THEN 1 ELSE grant[s]
    BY DEF ProcType
  <2>3. \A s \in Slot : s # j => state[s] # "ACTIVE"
    BY <1>0 DEF BusInv
  <2>4. QED
    BY <1>0, <2>1, <2>2, <2>3 DEF ProcType, SlotInv, GrantInv
<1>9. HandleInv'
  BY DEF BusType, UserType, HandleInv
<1>10. ResultInv'
  BY DEF BusType, UserType, ResultInv
<1>11. QED
  BY <1>1, <1>2, <1>3, <1>4, <1>5, <1>6, <1>7, <1>8, <1>9, <1>10

\* dispatch() hands the bus to a transfer.
LEMMA TransferSafe ==
    ASSUME PbusAssumption, IInv, NEW p \in Process, MayRun(p), at[p] = "dispatch",
           UNCHANGED <<slot_owner, slot, wire, countdown, handleVars, userVars>>,
           NEW j, j = Head(queue), j \notin Slot, BusFree, queue # <<>>,
           queue' = Tail(queue), state' = [state EXCEPT ![j] = "ACTIVE"], UNCHANGED prio,
           active' = j, UNCHANGED <<locked, grant>>, Goto(p, "start")
    PROVE  IInv'
<1> USE Distinct DEF IInv, TypeInv, BusFree
<1>0. /\ j \in Job /\ state[j] = "QUEUED" /\ queue' \in Seq(Job) /\ QueueInv'
      /\ state' \in [Job -> {"IDLE", "QUEUED", "ACTIVE"}]
  BY HeadKeeps
<1>1. BusType'
  BY <1>0 DEF BusType
<1>2. ProcType'
  BY DEF ProcType
<1>3. UserType'
  BY DEF UserType
<1>4. QueueInv'
  BY <1>0
<1>5. BusInv'
  <2>1. \A i \in Job : state'[i] = IF i = j THEN "ACTIVE" ELSE state[i]
    BY <1>0 DEF BusType
  <2>2. \A i \in Job : state[i] # "ACTIVE"
    BY DEF BusInv, BusType
  <2>3. QED
    BY <1>0, <2>1, <2>2 DEF BusInv, BusType
<1>6. WireInv'
  BY DEF BusType, ProcType, UserType, WireInv
<1>7. SlotInv'
  <2>1. \A s \in Slot : state'[s] = state[s]
    BY <1>0 DEF BusType
  <2>2. \A q \in Process : at'[q] = IF q = p THEN "start" ELSE at[q]
    BY DEF ProcType
  <2>3. QED
    BY <1>0, <2>1, <2>2 DEF ProcType, SlotInv
<1>8. GrantInv'
  <2>1. \A s \in Slot : state'[s] = state[s]
    BY <1>0 DEF BusType
  <2>2. \A q \in Process : at'[q] = IF q = p THEN "start" ELSE at[q]
    BY DEF ProcType
  <2>3. QED
    BY <1>0, <2>1, <2>2 DEF ProcType, SlotInv, GrantInv
<1>9. HandleInv'
  <2>1. \A i \in Job : state'[i] = IF i = j THEN "ACTIVE" ELSE state[i]
    BY <1>0 DEF BusType
  <2>2. Handle \in Job
    OBVIOUS
  <2>3. QED
    BY <1>0, <2>1, <2>2 DEF UserType, HandleInv
<1>10. ResultInv'
  <2>1. \A i \in Job : state'[i] = IF i = j THEN "ACTIVE" ELSE state[i]
    BY <1>0 DEF BusType
  <2>2. Handle \in Job
    OBVIOUS
  <2>3. QED
    BY <1>0, <2>1, <2>2 DEF UserType, ResultInv
<1>11. QED
  BY <1>1, <1>2, <1>3, <1>4, <1>5, <1>6, <1>7, <1>8, <1>9, <1>10

\* One critical section of dispatch().
LEMMA DispatchSafe ==
    ASSUME PbusAssumption, IInv, NEW p \in Process, Dispatch(p)
    PROVE  IInv'
<1> DEFINE j == Head(queue)
<1>1. /\ MayRun(p) /\ at[p] = "dispatch"
      /\ UNCHANGED <<slot_owner, slot, wire, countdown, handleVars, userVars>>
  BY DEF Dispatch
<1>2. CASE Goto(p, AfterDispatch(p)) /\ UNCHANGED <<busVars, grant>>
  BY <1>1, <1>2, PassSafe
<1>3. CASE /\ BusFree /\ queue # <<>> /\ queue' = Tail(queue) /\ UNCHANGED prio
           /\ state' = [state EXCEPT ![j] = "ACTIVE"]
  <2>1. CASE /\ j \in Slot /\ locked' = TRUE /\ grant' = [grant EXCEPT ![j] = 1]
             /\ Goto(p, AfterDispatch(p)) /\ UNCHANGED active
    BY <1>1, <1>3, <2>1, GrantSafe
  <2>2. CASE j \notin Slot /\ active' = j /\ Goto(p, "start") /\ UNCHANGED <<locked, grant>>
    BY <1>1, <1>3, <2>2, TransferSafe
  <2>3. QED
    BY <1>3, <2>1, <2>2 DEF Dispatch
<1>4. QED
  BY <1>2, <1>3 DEF Dispatch

\* A task that owns no slot dies.
LEMMA DeadIdleSafe ==
    ASSUME PbusAssumption, IInv, NEW t \in Locker, at[Kernel] = "idle", TornDown(t) = {},
           at' = [at EXCEPT ![t] = "dead", ![Kernel] = "idle"], slot' = [slot EXCEPT ![t] = NULL],
           UNCHANGED <<queue, locked, state, slot_owner>>,
           UNCHANGED <<active, prio, grant, wire, countdown, handleVars, userVars>>
    PROVE  IInv'
<1> USE Distinct DEF IInv, TypeInv, TornDown
<1>0. slot[t] = NULL
  BY DEF ProcType, SlotInv
<1>b. /\ \A u \in Locker : slot'[u] = slot[u] /\ at'[u] = IF u = t THEN "dead" ELSE at[u]
      /\ at'[Kernel] = "idle" /\ slot'[Kernel] = NULL
  BY <1>0 DEF ProcType
<1>1. BusType'
  BY DEF BusType
<1>2. ProcType'
  BY DEF ProcType
<1>3. UserType'
  BY DEF UserType
<1>4. QueueInv'
  <2>1. queue' = queue /\ prio' = prio /\ state' = state
    OBVIOUS
  <2>2. QED
    BY <2>1, QueueKept
<1>5. BusInv'
  BY DEF BusType, ProcType, BusInv
<1>6. WireInv'
  BY <1>b DEF WireInv, ProcType
<1>7. SlotInv'
  BY <1>0, <1>b DEF SlotInv, ProcType
<1>8. GrantInv'
  BY <1>b DEF GrantInv, ProcType
<1>9. HandleInv'
  BY DEF BusType, UserType, HandleInv
<1>10. ResultInv'
  BY DEF BusType, UserType, ResultInv
<1>11. QED
  BY <1>1, <1>2, <1>3, <1>4, <1>5, <1>6, <1>7, <1>8, <1>9, <1>10

\* A task that owns a slot dies: off the queue, or the bus unlocked.
LEMMA DeadOwnerSafe ==
    ASSUME PbusAssumption, IInv, NEW t \in Locker, NEW s \in Slot, at[Kernel] = "idle",
           slot_owner[s] = t,
           NEW k \in {"idle", "dispatch"},
           at' = [at EXCEPT ![t] = "dead", ![Kernel] = k], slot' = [slot EXCEPT ![t] = NULL],
           drop_slot(s), UNCHANGED <<active, prio, grant, wire, countdown, handleVars, userVars>>
    PROVE  IInv'
<1> USE Distinct DEF IInv, TypeInv, drop_slot
<1>0. slot[t] = s /\ \A u \in Locker : slot[u] = s => u = t
  BY DEF ProcType, SlotInv
<1>a. \A j \in Job : state'[j] = IF j = s THEN "IDLE" ELSE state[j]
  BY DEF BusType
<1>b. /\ \A u \in Locker : slot'[u] = (IF u = t THEN NULL ELSE slot[u])
                        /\ at'[u] = IF u = t THEN "dead" ELSE at[u]
      /\ at'[Kernel] = k /\ slot'[Kernel] = NULL
  BY <1>0 DEF ProcType
<1>1. BusType'
  <2>1. locked' \in BOOLEAN
    BY DEF BusType
  <2>2. QED
    BY <2>1, UnqueueKeeps DEF BusType
<1>2. ProcType'
  BY DEF ProcType
<1>3. UserType'
  BY DEF UserType
<1>4. QueueInv'
  BY UnqueueKeeps
<1>5. BusInv'
  <2>1. CASE state[s] = "ACTIVE"
    <3>1. locked' = FALSE /\ active = NULL /\ \A r \in Slot : state'[r] # "ACTIVE"
      BY <1>a, <2>1 DEF BusType, BusInv
    <3>2. QED
      BY <1>a, <3>1 DEF BusInv
  <2>2. CASE state[s] # "ACTIVE"
    <3>1. locked' = locked /\ \A j \in Job : state'[j] = "ACTIVE" <=> state[j] = "ACTIVE"
      BY <1>a, <2>2 DEF BusType
    <3>2. QED
      BY <3>1 DEF BusInv, BusType
  <2>3. QED
    BY <2>1, <2>2
<1>6. WireInv'
  BY <1>b DEF WireInv, ProcType
<1>7. SlotInv'
  <2>1. \A r \in Slot : slot_owner'[r] = IF r = s THEN NULL ELSE slot_owner[r]
    BY DEF ProcType
  <2>2. QED
    BY <1>0, <1>a, <1>b, <2>1 DEF SlotInv, ProcType
<1>8. GrantInv'
  BY <1>0, <1>a, <1>b DEF GrantInv, ProcType
<1>9. HandleInv'
  BY <1>a DEF HandleInv, UserType
<1>10. ResultInv'
  BY <1>a DEF ResultInv, UserType
<1>11. QED
  BY <1>1, <1>2, <1>3, <1>4, <1>5, <1>6, <1>7, <1>8, <1>9, <1>10

\* v_pbus_task_teardown.
LEMMA TeardownSafe ==
    ASSUME PbusAssumption, IInv, NEW t \in Locker, v_pbus_task_teardown(t)
    PROVE  IInv'
<1> USE DEF v_pbus_task_teardown
<1>1. CASE TornDown(t) = {} /\ UNCHANGED <<queue, locked, state, slot_owner>>
  <2>1. at' = [at EXCEPT ![t] = "dead", ![Kernel] = "idle"]
    BY <1>1
  <2>2. QED
    BY <1>1, <2>1, DeadIdleSafe
<1>2. ASSUME NEW s \in TornDown(t), drop_slot(s)
      PROVE  IInv'
  <2>1. s \in Slot /\ slot_owner[s] = t
    BY DEF TornDown
  <2>2. PICK k \in {"idle", "dispatch"} : at' = [at EXCEPT ![t] = "dead", ![Kernel] = k]
    OBVIOUS
  <2>3. QED
    BY <1>2, <2>1, <2>2, DeadOwnerSafe
<1>3. QED
  BY <1>1, <1>2

\* A transfer is submitted: its outcome is to come.
LEMMA SubmitSafe ==
    ASSUME PbusAssumption, IInv, v_pbus_xfer_submit
    PROVE  IInv'
<1> USE Distinct DEF IInv, TypeInv, v_pbus_xfer_submit, FreshDone
<1>0. /\ Handle \in Job /\ Prio[Handle] \in Nat /\ state[Handle] # "QUEUED"
      /\ enqueue(Handle, Prio[Handle])
  BY DEF ProcType
<1>a. \A j \in Job : state'[j] = IF j = Handle THEN "QUEUED" ELSE state[j]
  BY DEF BusType, enqueue
<1>1. BusType'
  <2>1. UNCHANGED <<active, locked>>
    OBVIOUS
  <2>2. QED
    BY <1>0, <2>1, EnqueueKeeps DEF BusType
<1>2. ProcType'
  BY DEF ProcType, enqueue
<1>3. UserType'
  <2>1. xfer \in {1, 2} /\ xfer' = 3 - xfer
    BY DEF UserType
  <2>2. xfer' \in {1, 2}
    BY <2>1
  <2>3. submitted' \in BOOLEAN /\ expired' \in BOOLEAN /\ user' = "wait" /\ result' = "none"
    OBVIOUS
  <2>4. QED
    BY <2>2, <2>3 DEF UserType
<1>4. QueueInv'
  BY <1>0, EnqueueKeeps
<1>5. BusInv'
  BY <1>a DEF BusInv, BusType
<1>6. WireInv'
  BY DEF BusType, ProcType, UserType, WireInv, enqueue
<1>7. SlotInv'
  BY <1>a DEF SlotInv, ProcType
<1>8. GrantInv'
  BY <1>a DEF GrantInv, ProcType
<1>9. HandleInv'
  BY <1>a DEF HandleInv, UserType
<1>10. ResultInv'
  <2>1. wire = NULL \/ wire.job # Handle
    BY DEF BusInv, WireInv
  <2>2. QED
    BY <1>a, <2>1 DEF ResultInv, UserType
<1>11. QED
  BY <1>1, <1>2, <1>3, <1>4, <1>5, <1>6, <1>7, <1>8, <1>9, <1>10

\* The user task learns of its transfer.
LEMMA FinishSafe ==
    ASSUME PbusAssumption, IInv, v_pbus_xfer_finish
    PROVE  IInv'
<1> USE Distinct DEF IInv, TypeInv, v_pbus_xfer_finish, unqueue
<1> DEFINE keep == UNCHANGED <<queue, state>> /\ state[Handle] # "QUEUED"
           drop == /\ queue' = Unlink(queue, Handle) /\ prio' = prio
                   /\ state' = [state EXCEPT ![Handle] = "IDLE"]
<1>0. Handle \in Job /\ (keep \/ (drop /\ state[Handle] = "QUEUED"))
  OBVIOUS
<1>a. \A j \in Job : j # Handle \/ state[j] # "QUEUED" => state'[j] = state[j]
  BY DEF BusType
<1>b. state'[Handle] = IF state[Handle] = "QUEUED" THEN "IDLE" ELSE state[Handle]
  BY DEF BusType
<1>1. BusType'
  <2>1. CASE keep
    BY <2>1 DEF BusType
  <2>2. CASE drop
    BY <1>0, <2>2, UnqueueKeeps DEF BusType
  <2>3. QED
    BY <1>0, <2>1, <2>2
<1>2. ProcType'
  BY DEF ProcType
<1>3. UserType'
  <2>1. state[Handle] \in {"IDLE", "QUEUED", "ACTIVE"}
    BY DEF BusType
  <2>2. user = "finish" /\ state[Handle] = "IDLE" => rc \in {-1, xfer}
    BY DEF ResultInv
  <2>3. result' \in {"none", "ETIMEDOUT", "EBUSY", "failed", "mine"}
    BY <2>1, <2>2 DEF UserType
  <2>4. QED
    BY <2>3 DEF UserType
<1>4. QueueInv'
  <2>1. CASE keep
    BY <2>1, QueueKept
  <2>2. CASE drop
    BY <1>0, <2>2, UnqueueKeeps
  <2>3. QED
    BY <1>0, <2>1, <2>2
<1>5. BusInv'
  BY <1>a, <1>b DEF BusInv, BusType
<1>6. WireInv'
  BY DEF BusType, ProcType, UserType, WireInv
<1>7. SlotInv'
  BY <1>a DEF SlotInv, ProcType
<1>8. GrantInv'
  BY <1>a DEF GrantInv, ProcType
<1>9. HandleInv'
  BY <1>b DEF HandleInv, UserType, BusType
<1>10. ResultInv'
  BY <1>b DEF ResultInv, UserType, BusType
<1>11. QED
  BY <1>1, <1>2, <1>3, <1>4, <1>5, <1>6, <1>7, <1>8, <1>9, <1>10

\* The handle is closed: kept while its transfer is in flight.
LEMMA CloseSafe ==
    ASSUME PbusAssumption, IInv, handle_close
    PROVE  IInv'
<1> USE Distinct DEF IInv, TypeInv, handle_close, KeepsSlot, unqueue
<1> DEFINE keep == UNCHANGED <<queue, state>> /\ state[Handle] # "QUEUED"
           drop == /\ queue' = Unlink(queue, Handle) /\ prio' = prio
                   /\ state' = [state EXCEPT ![Handle] = "IDLE"]
<1>0. Handle \in Job /\ (keep \/ (drop /\ state[Handle] = "QUEUED"))
  OBVIOUS
<1>a. \A j \in Job : j # Handle \/ state[j] # "QUEUED" => state'[j] = state[j]
  BY DEF BusType
<1>b. state'[Handle] = IF state[Handle] = "QUEUED" THEN "IDLE" ELSE state[Handle]
  BY DEF BusType
<1>1. BusType'
  <2>1. CASE keep
    BY <2>1 DEF BusType
  <2>2. CASE drop
    BY <1>0, <2>2, UnqueueKeeps DEF BusType
  <2>3. QED
    BY <1>0, <2>1, <2>2
<1>2. ProcType'
  BY DEF ProcType
<1>3. UserType'
  BY DEF UserType
<1>4. QueueInv'
  <2>1. CASE keep
    BY <2>1, QueueKept
  <2>2. CASE drop
    BY <1>0, <2>2, UnqueueKeeps
  <2>3. QED
    BY <1>0, <2>1, <2>2
<1>5. BusInv'
  BY <1>a, <1>b DEF BusInv, BusType
<1>6. WireInv'
  BY DEF BusType, ProcType, UserType, WireInv
<1>7. SlotInv'
  BY <1>a DEF SlotInv, ProcType
<1>8. GrantInv'
  BY <1>a DEF GrantInv, ProcType
<1>9. HandleInv'
  BY <1>b DEF HandleInv, UserType, BusType
<1>10. ResultInv'
  BY <1>b DEF ResultInv, UserType, BusType
<1>11. QED
  BY <1>1, <1>2, <1>3, <1>4, <1>5, <1>6, <1>7, <1>8, <1>9, <1>10

\* At the start the bus is idle, the slots are free and the handle is closed.
LEMMA InitSafe ==
    ASSUME PbusAssumption, Init
    PROVE  IInv /\ NeverStalled
<1> USE Distinct DEF Init
<1>1. BusType
  <2>1. queue \in Seq(Job) /\ active \in {Handle, Cyclic, NULL}
    OBVIOUS
  <2>2. locked \in BOOLEAN
    OBVIOUS
  <2>3. state \in [Job -> {"IDLE", "QUEUED", "ACTIVE"}]
    OBVIOUS
  <2>4. prio \in [Job -> Nat]
    OBVIOUS
  <2>5. QED
    BY <2>1, <2>2, <2>3, <2>4 DEF BusType
<1>2. ProcType
  BY DEF ProcType
<1>3. UserType
  BY DEF UserType
<1>4. QueueInv
  <2>1. Sorted(queue, prio)
    BY DEF Sorted
  <2>2. QED
    BY <2>1, EmptyRange DEF QueueInv
<1>5. BusInv /\ WireInv
  BY DEF BusInv, WireInv
<1>6. SlotInv /\ GrantInv
  BY DEF SlotInv, GrantInv
<1>7. HandleInv /\ ResultInv
  BY DEF HandleInv, ResultInv
<1>8. NeverStalled
  BY DEF NeverStalled
<1>9. QED
  BY <1>1, <1>2, <1>3, <1>4, <1>5, <1>6, <1>7, <1>8 DEF IInv, TypeInv

\* Every step keeps the invariant.
LEMMA StepSafe ==
    ASSUME PbusAssumption, IInv, Next
    PROVE  IInv'
<1>1. ASSUME NEW p \in Process, Dispatch(p) \/ Start(p) \/ StartFailed(p) PROVE IInv'
  BY <1>1, DispatchSafe, StartSafe, StartFailedSafe
<1>2. CASE v_pbus_done_isr
  <2>1. wire.xfer \in {-1, 1, 2} /\ Complete(wire.xfer)
    BY <1>2 DEF v_pbus_done_isr, IInv, TypeInv, UserType
  <2>2. QED
    BY <2>1, CompleteSafe
<1>3. CASE v_pbus_abort_isr
  BY <1>3, CompleteSafe DEF v_pbus_abort_isr
<1>4. CASE v_pbus_cyclic_add \/ v_pbus_cyclic_remove \/ v_pbus_tick_isr
  BY <1>4, CyclicSafe, TickSafe
<1>5. ASSUME NEW t \in Locker, Claim(t) \/ Enqueue(t) \/ TakeGrant(t) PROVE IInv'
  BY <1>5, ClaimSafe, EnqueueSafe, TakeGrantSafe
<1>6. ASSUME NEW t \in Locker, Recheck(t) \/ v_pbus_unlock(t) \/ v_pbus_task_teardown(t)
      PROVE  IInv'
  BY <1>6, RecheckSafe, UnlockSafe, TeardownSafe
<1>7. CASE v_pbus_open \/ v_pbus_xfer_submit \/ v_pbus_xfer_wait
  BY <1>7, OpenSafe, SubmitSafe, WaitSafe
<1>8. CASE v_pbus_xfer_finish \/ handle_close
  BY <1>8, FinishSafe, CloseSafe
<1>9. QED
  BY <1>1, <1>2, <1>3, <1>4, <1>5, <1>6, <1>7, <1>8 DEF Next

\* Nobody moves: nothing changes.
LEMMA StutterSafe ==
    ASSUME IInv, UNCHANGED vars
    PROVE  IInv'
BY DEF IInv, TypeInv, BusType, ProcType, UserType, QueueInv, BusInv, WireInv, SlotInv, GrantInv,
       HandleInv, ResultInv, vars
------------------------------------------------------------------------------
(* The bus goes on *)

\* A step that frees no bus, queues no job and takes nobody out of dispatch() leaves
\* nobody stranded.
LEMMA StillGoing ==
    ASSUME NeverStalled,
           BusFree' /\ queue' # <<>> => BusFree /\ queue # <<>>,
           \A p \in Process : at[p] = "dispatch" => at'[p] = "dispatch"
    PROVE  NeverStalled'
BY DEF NeverStalled

\* Whoever frees the bus or queues a job goes to dispatch() itself, or has the kernel do
\* it, and nobody leaves dispatch() while the bus is idle and a job is queued.
LEMMA GoesOn ==
    ASSUME PbusAssumption, "dispatch" \notin KillAt, IInv, NeverStalled, Next
    PROVE  NeverStalled'
<1> USE Distinct DEF IInv, TypeInv
<1>0. /\ queue \in Seq(Job) /\ at \in [Process -> Where]
      /\ Kernel \in Process /\ Locker \subseteq Process
  BY DEF BusType, ProcType
<1>1. ASSUME NEW p \in Process, at'[p] = "dispatch" PROVE NeverStalled'
  BY <1>1 DEF NeverStalled
<1>2. ASSUME NEW p \in Process, Dispatch(p) PROVE NeverStalled'
  <2>1. ~(BusFree' /\ queue' # <<>>)
    <3>1. CASE UNCHANGED busVars /\ (~BusFree \/ queue = <<>>)
      BY <3>1 DEF BusFree
    <3>2. CASE BusFree /\ queue # <<>> /\ (locked' = TRUE \/ active' = Head(queue))
      <4>1. Head(queue) # NULL
        BY <1>0, <3>2, TailRange
      <4>2. QED
        BY <3>2, <4>1 DEF BusFree
    <3>3. QED
      BY <1>2, <3>1, <3>2 DEF Dispatch
  <2>2. QED
    BY <2>1 DEF NeverStalled
<1>3. ASSUME NEW p \in Process, Start(p) PROVE NeverStalled'
  <2>1. /\ \A q \in Process : at[q] = "dispatch" => at'[q] = "dispatch"
        /\ UNCHANGED <<queue, active, locked>>
    BY <1>0, <1>3 DEF Start
  <2>2. QED
    BY <2>1, StillGoing DEF BusFree
<1>4. ASSUME NEW p \in Process, StartFailed(p) PROVE NeverStalled'
  BY <1>0, <1>1, <1>4 DEF StartFailed
<1>5. ASSUME NEW o, Complete(o) PROVE NeverStalled'
  BY <1>0, <1>1, <1>5 DEF Complete
<1>6. ASSUME NEW t \in Locker, Enqueue(t) \/ v_pbus_unlock(t) PROVE NeverStalled'
  BY <1>0, <1>1, <1>6 DEF Enqueue, v_pbus_unlock
<1>7. CASE v_pbus_xfer_submit
  BY <1>0, <1>1, <1>7 DEF v_pbus_xfer_submit
<1>8. CASE v_pbus_tick_isr
  <2>1. CASE Goto(Kernel, "dispatch")
    BY <1>0, <1>1, <2>1
  <2>2. CASE UNCHANGED <<queue, state, prio, at>>
    BY <1>8, <2>2 DEF v_pbus_tick_isr, NeverStalled, BusFree
  <2>3. QED
    BY <1>8, <2>1, <2>2 DEF v_pbus_tick_isr
<1>9. ASSUME NEW t \in Locker, Claim(t) \/ TakeGrant(t) PROVE NeverStalled'
  <2>1. /\ \A q \in Process : at[q] = "dispatch" => at'[q] = "dispatch"
        /\ UNCHANGED <<queue, active, locked>>
    BY <1>0, <1>9 DEF Claim, TakeGrant
  <2>2. QED
    BY <2>1, StillGoing DEF BusFree
<1>10. ASSUME NEW t \in Locker, Recheck(t) PROVE NeverStalled'
  <2>1. /\ \A q \in Process : at[q] = "dispatch" => at'[q] = "dispatch"
        /\ UNCHANGED <<active, locked>>
    BY <1>0, <1>10 DEF Recheck
  <2>2. queue' # <<>> => queue # <<>>
    BY <1>0, <1>10, UnlinkType DEF Recheck, unqueue
  <2>3. QED
    BY <2>1, <2>2, StillGoing DEF BusFree
<1>11. ASSUME NEW t \in Locker, v_pbus_task_teardown(t) PROVE NeverStalled'
  <2> USE DEF v_pbus_task_teardown
  <2>1. CASE \E s \in TornDown(t) : state[s] = "ACTIVE"
    BY <1>0, <1>1, <1>11, <2>1
  <2>2. CASE ~\E s \in TornDown(t) : state[s] = "ACTIVE"
    <3>1. \A q \in Process : at[q] = "dispatch" => at'[q] = "dispatch"
      BY <1>0, <1>11
    <3>2. UNCHANGED active /\ locked' = locked
      BY <1>11, <2>2 DEF drop_slot, BusType
    <3>3. queue' # <<>> => queue # <<>>
      BY <1>0, <1>11, UnlinkType DEF drop_slot
    <3>4. QED
      BY <3>1, <3>2, <3>3, StillGoing DEF BusFree
  <2>3. QED
    BY <2>1, <2>2
<1>12. CASE v_pbus_cyclic_add \/ v_pbus_cyclic_remove \/ v_pbus_open \/ v_pbus_xfer_wait
  BY <1>12 DEF v_pbus_cyclic_add, v_pbus_cyclic_remove, v_pbus_open, v_pbus_xfer_wait, NeverStalled,
               BusFree
<1>13. CASE v_pbus_xfer_finish \/ handle_close
  <2>1. UNCHANGED <<active, locked, at>>
    BY <1>13 DEF v_pbus_xfer_finish, handle_close
  <2>2. queue' # <<>> => queue # <<>>
    BY <1>0, <1>13, UnlinkType DEF v_pbus_xfer_finish, handle_close, unqueue
  <2>3. QED
    BY <2>1, <2>2, StillGoing DEF BusFree
<1>14. QED
  BY <1>2, <1>3, <1>4, <1>5, <1>6, <1>7, <1>8, <1>9, <1>10, <1>11, <1>12, <1>13
     DEF Next, v_pbus_done_isr, v_pbus_abort_isr
------------------------------------------------------------------------------
(* What the invariant says *)

\* The bus has one user: the holder, or the transfer on the wire.
LEMMA Exclusively == ASSUME PbusAssumption, IInv PROVE Exclusive
<1> USE Distinct DEF IInv, TypeInv
<1>1. ASSUME NEW t \in Locker, at[t] = "held"
      PROVE  /\ slot[t] \in Slot /\ state[slot[t]] = "ACTIVE" /\ slot_owner[slot[t]] = t
             /\ locked /\ active = NULL /\ wire = NULL
  <2>1. slot[t] \in Slot /\ state[slot[t]] = "ACTIVE" /\ slot_owner[slot[t]] = t
    BY <1>1 DEF ProcType, SlotInv
  <2>2. QED
    BY <2>1 DEF BusInv, WireInv, BusType, UserType
<1>2. ASSUME NEW t \in Locker, NEW u \in Locker, at[t] = "held", at[u] = "held" PROVE t = u
  BY <1>1, <1>2 DEF BusInv
<1>3. wire # NULL => active = wire.job
  BY DEF WireInv
<1>4. QED
  BY <1>1, <1>2, <1>3 DEF Exclusive

\* A locked bus has an owner on its way to release it.
LEMMA NotLeaked == ASSUME PbusAssumption, IInv PROVE LockNotLeaked
<1> USE Distinct DEF IInv, TypeInv
<1> SUFFICES ASSUME locked
             PROVE  \E s \in Slot :
                      /\ state[s] = "ACTIVE" /\ slot_owner[s] # NULL
                      /\ at[slot_owner[s]] \in
                           {"dispatch", "start", "failed", "take", "expired", "held"}
                      /\ slot[slot_owner[s]] = s
                      /\ at[slot_owner[s]] = "take" => grant[s] = 1
  BY DEF LockNotLeaked
<1>1. PICK s \in Slot : state[s] = "ACTIVE"
  BY DEF BusInv
<1>2. slot_owner[s] \in Locker /\ slot[slot_owner[s]] = s
  BY <1>1 DEF SlotInv, ProcType
<1>3. at[slot_owner[s]] \in {"dispatch", "start", "failed", "take", "expired", "held"}
  BY <1>1, <1>2 DEF SlotInv, ProcType
<1>4. at[slot_owner[s]] = "take" => grant[s] = 1
  BY <1>1, <1>2 DEF GrantInv
<1>5. QED
  BY <1>1, <1>2, <1>3, <1>4

\* The queue holds the waiting jobs, once each and by priority.
LEMMA QueueRight == ASSUME PbusAssumption, IInv PROVE QueueExact
<1> USE Distinct DEF IInv, TypeInv
<1>1. /\ NoDup(queue) /\ ToSet(queue) = {j \in Job : state[j] = "QUEUED"}
      /\ \A i, j \in DOMAIN queue : i < j => prio[queue[i]] >= prio[queue[j]]
  BY DEF QueueInv, Sorted
<1>2. \A s \in Slot : state[s] = "QUEUED" => slot_owner[s] # NULL /\ grant[s] = 0
  BY DEF SlotInv, GrantInv
<1>3. state[Handle] # "IDLE" => used
  BY DEF HandleInv
<1>4. QED
  BY <1>1, <1>2, <1>3 DEF QueueExact

\* The bus has one user at a time, its queue is exact and nothing strands it, for any
\* number of lockers and slots and wherever a task is killed but inside dispatch()
\* (dispatch, release, v_pbus_lock, v_pbus_task_teardown).
THEOREM ArbitrationSafe ==
    ASSUME PbusAssumption, "dispatch" \notin KillAt
    PROVE  Spec => []Arbitration
<1>1. Init => IInv /\ NeverStalled
  BY InitSafe
<1>2. IInv /\ NeverStalled /\ [Next]_vars => IInv' /\ NeverStalled'
  <2>1. ASSUME IInv, NeverStalled, Next PROVE IInv' /\ NeverStalled'
    BY <2>1, StepSafe, GoesOn
  <2>2. ASSUME IInv, NeverStalled, UNCHANGED vars PROVE IInv' /\ NeverStalled'
    BY <2>2, StutterSafe DEF NeverStalled, BusFree, vars
  <2>3. QED
    BY <2>1, <2>2
<1>3. IInv /\ NeverStalled => Arbitration
  BY Exclusively, NotLeaked, QueueRight DEF Arbitration
<1>4. QED
  BY <1>1, <1>2, <1>3, PTL DEF Spec

\* A transfer through a handle is answered by its own completion, and its buffers are kept
\* until then, wherever tasks are killed (v_pbus_xfer_finish, handle_close).
THEOREM TransfersSafe ==
    ASSUME PbusAssumption
    PROVE  Spec => []TransfersMine
<1>1. Init => IInv
  BY InitSafe
<1>2. IInv /\ [Next]_vars => IInv'
  BY StepSafe, StutterSafe
<1>3. IInv => TransfersMine
  <2> SUFFICES ASSUME IInv PROVE TransfersMine
    OBVIOUS
  <2>1. ResultOfMine
    BY DEF IInv, TypeInv, UserType, ResultInv, ResultOfMine
  <2>2. BuffersHeld
    <3> SUFFICES ASSUME wire # NULL, wire.job = Handle PROVE used /\ (user = "closed" => orphan)
      BY DEF BuffersHeld
    <3>1. state[Handle] = "ACTIVE"
      BY Distinct DEF IInv, TypeInv, BusInv, WireInv
    <3>2. used
      BY <3>1 DEF IInv, HandleInv
    <3>3. user = "closed" => used = orphan
      BY DEF IInv, HandleInv
    <3>4. QED
      BY <3>2, <3>3, Zenon DEF IInv, TypeInv, UserType
  <2>3. QED
    BY <2>1, <2>2 DEF TransfersMine
<1>4. QED
  BY <1>1, <1>2, <1>3, PTL DEF Spec
------------------------------------------------------------------------------
(* The manager behind the bus *)

\* The worker has the transfer in hand that is on, until the DMA has it; a DMA stream runs
\* for the transfer that is on, and is running, or about to be stopped.
MgrInv ==
    /\ m_x = bus /\ ~mixed /\ SetupTrue /\ last \in Nat
    /\ m_worker \in {"run", "dma", "recover", "finish", "stop"} =>
         m_x = ran /\ m_x # NoXfer /\ (dma <=> m_worker = "dma")
    /\ dma => m_x = ran /\ m_x # NoXfer
    /\ stream # NoXfer => /\ stream = m_x /\ m_x # NoXfer
                          /\ IF dma THEN m_worker \in {"check", "take"} ELSE m_worker = "stop"

\* Every step keeps that.
LEMMA MgrKeeps ==
    ASSUME MgrBounds, MgrInv, [MgrNext]_mgr_all
    PROVE  MgrInv'
<1>1. CASE mgr_start
  <2>1. bus' \in Nat /\ last' = bus' /\ m_x' = bus' /\ bus' # NoXfer
    BY <1>1 DEF mgr_start, MgrInv, MgrBounds, NoXfer
  <2>2. /\ m_x = NoXfer /\ ~dma /\ stream = NoXfer
        /\ m_worker \notin {"run", "dma", "recover", "finish", "stop"}
    BY <1>1 DEF mgr_start, MgrInv
  <2>3. QED
    BY <1>1, <2>1, <2>2 DEF mgr_start, MgrInv, SetupTrue, hwVars
<1>2. CASE TakeKick \/ TakeTimesOut
  BY <1>2 DEF TakeKick, TakeTimesOut, MayBegin, Goes, MgrInv, SetupTrue, hwVars, mgrVars
<1>3. CASE ArmDma \/ StartDma \/ DmaRefused
  BY <1>3 DEF ArmDma, StartDma, DmaRefused, Goes, MgrInv, SetupTrue, hwVars, mgrVars
<1>4. CASE i2c_run \/ i2c_recover \/ InTime
  BY <1>4 DEF i2c_run, i2c_recover, InTime, Goes, MgrInv, SetupTrue, hwVars, mgrVars
<1>5. CASE spi_run
  BY <1>5 DEF spi_run, Goes, MgrInv, SetupTrue
<1>6. CASE WorkerFinish
  BY <1>6 DEF WorkerFinish, finish, Goes, MgrInv, SetupTrue, hwVars
<1>7. CASE i2c_dma_done
  <2>1. /\ stream = m_x /\ m_x = bus /\ m_x # NoXfer /\ ~mixed /\ last \in Nat
        /\ dma => m_worker \in {"check", "take"}
        /\ spi_cur # NoXfer => setup = spi_cur
        /\ m_worker \in {"run", "dma", "recover", "finish", "stop"} =>
             m_x = ran /\ (dma <=> m_worker = "dma")
    BY <1>7 DEF i2c_dma_done, MgrInv, SetupTrue
  <2>2. stream' = NoXfer /\ m_worker' = m_worker /\ last' = last /\ ran' = ran
        /\ setup' = setup /\ spi_cur' = spi_cur
    BY <1>7 DEF i2c_dma_done
  <2>3. CASE dma
    <3>1. ~dma' /\ finish(stream)
      BY <1>7, <2>3 DEF i2c_dma_done, Mine
    <3>2. m_x' = NoXfer /\ bus' = NoXfer /\ ~mixed'
      BY <2>1, <3>1 DEF finish
    <3>3. m_worker' \notin {"run", "dma", "recover", "finish", "stop"}
      BY <2>1, <2>2, <2>3
    <3>4. QED
      BY <2>1, <2>2, <3>1, <3>2, <3>3 DEF MgrInv, SetupTrue
  <2>4. CASE ~dma
    <3>1. UNCHANGED <<dma, m_x, bus, mixed>>
      BY <1>7, <2>4 DEF i2c_dma_done, Mine
    <3>2. QED
      BY <2>1, <2>2, <2>4, <3>1 DEF MgrInv, SetupTrue
  <2>5. QED
    BY <2>3, <2>4
<1>8. CASE TakeBack \/ i2c_dma_stop
  BY <1>8 DEF TakeBack, Overdue, i2c_dma_stop, Goes, MgrInv, SetupTrue, hwVars, mgrVars
<1>9. CASE UNCHANGED mgr_all
  BY <1>9 DEF mgr_all, mgrVars, hwVars, MgrInv, SetupTrue
<1>10. QED
  BY <1>1, <1>2, <1>3, <1>4, <1>5, <1>6, <1>7, <1>8, <1>9 DEF MgrNext

\* A completion ends the transfer it belongs to, be it the DMA interrupt's, late or not, the
\* deadline's or the worker's, and spi_run skips the set-up only when the registers hold it
\* (i2c_dma_done, v_pbus_mgr_step, spi_run): for any number of devices.
THEOREM ManagerSafe ==
    ASSUME MgrBounds
    PROVE  MgrSpec => []ManagerSound
<1>1. MgrInit => MgrInv
  BY DEF MgrInit, MgrInv, SetupTrue, MgrBounds, NoXfer
<1>2. MgrInv /\ [MgrNext]_mgr_all => MgrInv'
  BY MgrKeeps
<1>3. MgrInv => ManagerSound
  BY DEF MgrInv, ManagerSound, OwnCompletion
<1>4. QED
  BY <1>1, <1>2, <1>3, PTL DEF MgrSpec
==============================================================================

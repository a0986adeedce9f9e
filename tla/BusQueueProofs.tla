---------------------------- MODULE BusQueueProofs ----------------------------
(***************************************************************************)
(* The queued topics of the bus, for any number of blocks, topics, readers *)
(* and publishers and any use of them: no block is lost or held twice, a   *)
(* message lives exactly as long as a reader owes it, and what a reader    *)
(* gets is what was published under the number it is told.                 *)
(*                                                                         *)
(* Every block has exactly one holder: the free list, the chain that is    *)
(* being given back, a topic's stash, a call, or a queued message, which   *)
(* the number it was published under names.                                *)
(***************************************************************************)
EXTENDS Bus, ListLemmas

\* The sequence number of the oldest message queued on t.
Oldest(t) == Len(log[t]) - Len(queue[t])

\* Where in the queue of t the first message is that s has not passed.
Unread(t, s) == IF expect[s] <= Oldest(t) THEN 1 ELSE expect[s] - Oldest(t) + 1

(* Who holds a block *)

FreeLabel == <<"free", NONE, 0>>
GivingLabel == <<"giving", NONE, 0>>
StashLabel(t) == <<"stash", t, 0>>
ProdLabel(p) == <<"prod", p, 0>>
ConsLabel(s) == <<"cons", s, 0>>
QueueLabel(t, n) == <<"queue", t, n>>

Label == ({"free", "giving"} \X {NONE} \X {0}) \cup ({"stash"} \X Topic \X {0})
           \cup ({"prod"} \X Producer \X {0}) \cup ({"cons"} \X Sub \X {0})
           \cup ({"queue"} \X Topic \X Nat)

\* The blocks of the n-th message linked on t, while it is queued.
Queued(t, n) == IF Oldest(t) <= n /\ n < Len(log[t]) THEN queue[t][n - Oldest(t) + 1].blocks ELSE <<>>

\* The chain of each holder.
chains ==
    [L \in Label |->
       IF L[1] = "free" THEN free
       ELSE IF L[1] = "giving" THEN giving.blocks
       ELSE IF L[1] = "stash" THEN stash[L[2]]
       ELSE IF L[1] = "prod" THEN prod[L[2]].blocks
       ELSE IF L[1] = "cons" THEN cons[L[2]].blocks
       ELSE Queued(L[2], L[3])]

\* A block is on one chain, once.
Partition(f) ==
    /\ \A L \in Label : f[L] \in Seq(Block) /\ NoDup(f[L])
    /\ \A L, M \in Label : L # M => ToSet(f[L]) \cap ToSet(f[M]) = {}
    /\ \A b \in Block : \E L \in Label : b \in ToSet(f[L])

Owned == Partition(chains)

(* The parts of the invariant *)

Msg == [blocks : Seq(Block), seq : Nat, pins : Int, refs : Int]
Call == [pc : {"idle", "alloc", "copy", "link", "free"}, topic : Topic \cup {NONE}, need : Nat,
         id : Nat, ticket : BOOLEAN, blocks : Seq(Block)]
Reading == [pc : {"idle", "copy", "check", "retry", "free", "got", "view", "viewed"},
            msg : Block \cup {NIL}, at : Block \cup {NIL}, left : Int, same : BOOLEAN,
            out : Seq(Int), blocks : Seq(Block)]

BusTypeOK ==
    /\ use \in Uses /\ topics \in Seq(Topic)
    /\ free \in Seq(Block) /\ stash \in [Topic -> Seq(Block)]
    /\ lent \in [Topic -> Nat] /\ borrowed \in [Topic -> Nat]
    /\ queue \in [Topic -> Seq(Msg)] /\ data \in [Block -> Nat]
    /\ subs \in [Topic -> SUBSET Sub] /\ cursor \in [Sub -> Block \cup {NIL}]
    /\ expect \in [Sub -> Nat] /\ peeked \in [Sub -> Block \cup {NIL}]
    /\ alloc \in Producer \cup {NONE} /\ purging \in Topic \cup {NONE}
    /\ giving \in [topic : Topic \cup {NONE}, blocks : Seq(Block)]
    /\ prod \in [Producer -> Call] /\ cons \in [Sub -> Reading]
    /\ calls \in Nat /\ log \in [Topic -> Seq([id : Nat, n : Nat])]

\* A topic that was not created has nothing, and the bus lock is used by one at a time.
TopicsOK ==
    /\ \A t \in Topic :
         /\ t \notin ToSet(topics) => stash[t] = <<>> /\ queue[t] = <<>> /\ subs[t] = {}
         /\ borrowed[t] > 0 => t \in Overwriting
         /\ \A s \in subs[t] : TopicOf[s] = t
    /\ giving # Nothing => giving.topic \in ToSet(topics) /\ giving.blocks # <<>>
    /\ alloc # NONE => purging = NONE
    /\ purging # NONE => Orphaned(queue[purging])

\* A publisher holds the blocks it needs from the allocation to the link.
ProdOK ==
    /\ \A p \in Producer :
         /\ prod[p].pc = "idle" => prod[p].blocks = <<>>
         /\ prod[p].pc # "idle" => prod[p].topic \in ToSet(topics) /\ prod[p].need > 0
         /\ prod[p].pc = "alloc" =>
              /\ Len(prod[p].blocks) < prod[p].need
              /\ alloc # p => prod[p].blocks = <<>>
         /\ prod[p].pc \in {"copy", "link", "free"} => Len(prod[p].blocks) = prod[p].need
         /\ prod[p].pc = "link" => \A b \in ToSet(prod[p].blocks) : data[b] = prod[p].id
    /\ alloc # NONE => prod[alloc].pc = "alloc"

\* The message is whole: what was published under its number.
Whole(t, m) ==
    /\ m.blocks # <<>> /\ Len(m.blocks) = log[t][m.seq + 1].n
    /\ \A b \in ToSet(m.blocks) : data[b] = log[t][m.seq + 1].id

\* The queue of t is the tail of what was published there.
QueueOn(t) ==
    /\ Len(queue[t]) <= Len(log[t])
    /\ \A i \in 1..Len(queue[t]) :
         /\ queue[t][i].seq = Oldest(t) + i - 1
         /\ Whole(t, queue[t][i])

QueueOK == \A t \in Topic : QueueOn(t)

\* The cursor of s is on the first message it has not passed.
SubOn(t, s) ==
    /\ expect[s] <= Len(log[t])
    /\ cursor[s] = Link(queue[t], Unread(t, s))
    /\ t \notin Overwriting => Oldest(t) <= expect[s]

SubsOK == \A t \in Topic : \A s \in subs[t] : SubOn(t, s)

\* The message under the cursor of s.
Current(s) == queue[TopicOf[s]][Unread(TopicOf[s], s)]

\* What was published as the message m of the topic of s.
Published(s, m) == log[TopicOf[s]][m.seq + 1].id

\* What s copied so far is the start of the message under its cursor.
Copying(s) ==
    LET c == cons[s] IN
    /\ cursor[s] = c.msg /\ c.msg # NIL
    /\ Len(c.out) + c.left = Len(Current(s).blocks) /\ c.left >= 0
    /\ c.pc = "copy" => c.left > 0 /\ c.at = Current(s).blocks[Len(c.out) + 1]
    /\ c.pc = "check" => c.left = 0
    /\ \A k \in 1..Len(c.out) : c.out[k] = Published(s, Current(s))

\* What a finished read of s has is the message of the number it expects, less one.
Delivered(s) ==
    LET e == log[TopicOf[s]][expect[s]]
    IN expect[s] > 0 /\ Len(cons[s].out) = e.n /\ \A k \in 1..Len(cons[s].out) : cons[s].out[k] = e.id

\* A view of s is on the message under its cursor, of one block.
Viewing(s) ==
    /\ peeked[s] = cursor[s] /\ peeked[s] # NIL /\ Len(Current(s).blocks) = 1
    /\ cons[s].pc = "viewed" => cons[s].out = <<Published(s, Current(s))>>

\* Where s is in its call, and what it holds or has to show there.
ConsOn(s) ==
    LET c == cons[s] IN
    /\ c.pc # "idle" => s \in subs[TopicOf[s]]
    /\ c.pc # "free" => c.blocks = <<>>
    /\ c.pc = "free" => c.blocks # <<>>
    /\ s \in subs[TopicOf[s]] /\ c.pc \notin {"view", "viewed"} => peeked[s] = NIL
    /\ c.pc \in {"view", "viewed"} => Viewing(s)
    /\ c.pc \in {"copy", "check"} /\ c.same => c.msg \in ToSet(giving.blocks) \/ Copying(s)
    /\ c.pc \in {"free", "got"} => Delivered(s)

ConsOK == \A s \in Sub : ConsOn(s)

\* The inductive invariant.
BusInv == BusTypeOK /\ Owned /\ TopicsOK /\ ProdOK /\ QueueOK /\ RefsExact /\ SubsOK /\ ConsOK
------------------------------------------------------------------------------
(* Chains *)

\* Blocks moved from one chain to another, or within one.
LEMMA PartitionMove ==
    ASSUME NEW f, NEW g, Partition(f), NEW A \in Label, NEW B \in Label,
           \A L \in Label : L # A /\ L # B => g[L] = f[L],
           g[A] \in Seq(Block) /\ NoDup(g[A]), g[B] \in Seq(Block) /\ NoDup(g[B]),
           A # B => ToSet(g[A]) \cap ToSet(g[B]) = {},
           ToSet(g[A]) \cup ToSet(g[B]) = ToSet(f[A]) \cup ToSet(f[B])
    PROVE  Partition(g)
<1>1. \A L \in Label : g[L] \in Seq(Block) /\ NoDup(g[L])
  BY DEF Partition
<1>2. ASSUME NEW L \in Label, NEW M \in Label, L # M PROVE ToSet(g[L]) \cap ToSet(g[M]) = {}
  <2>0. \A N, O \in Label : N # O => ToSet(f[N]) \cap ToSet(f[O]) = {}
    BY DEF Partition
  <2>1. CASE L \in {A, B} /\ M \in {A, B}
    BY <1>2, <2>1
  <2>2. CASE L \in {A, B} /\ M \notin {A, B}
    <3>1. g[M] = f[M] /\ ToSet(f[M]) \cap ToSet(f[A]) = {} /\ ToSet(f[M]) \cap ToSet(f[B]) = {}
      BY <1>2, <2>0, <2>2
    <3>2. QED
      BY <2>2, <3>1
  <2>3. CASE L \notin {A, B} /\ M \in {A, B}
    <3>1. g[L] = f[L] /\ ToSet(f[L]) \cap ToSet(f[A]) = {} /\ ToSet(f[L]) \cap ToSet(f[B]) = {}
      BY <1>2, <2>0, <2>3
    <3>2. QED
      BY <2>3, <3>1
  <2>4. CASE L \notin {A, B} /\ M \notin {A, B}
    BY <1>2, <2>0, <2>4
  <2>5. QED
    BY <2>1, <2>2, <2>3, <2>4
<1>3. ASSUME NEW b \in Block PROVE \E L \in Label : b \in ToSet(g[L])
  <2>1. PICK L \in Label : b \in ToSet(f[L])
    BY DEF Partition
  <2>2. CASE L \in {A, B}
    BY <2>1, <2>2
  <2>3. CASE L \notin {A, B}
    BY <2>1, <2>3
  <2>4. QED
    BY <2>2, <2>3
<1>4. QED
  BY <1>1, <1>2, <1>3 DEF Partition

\* Every holder has a label.
LEMMA LabelsAre ==
    /\ FreeLabel \in Label /\ GivingLabel \in Label
    /\ \A t \in Topic : StashLabel(t) \in Label
    /\ \A p \in Producer : ProdLabel(p) \in Label
    /\ \A s \in Sub : ConsLabel(s) \in Label
    /\ \A t \in Topic, n \in Nat : QueueLabel(t, n) \in Label
BY DEF Label, FreeLabel, GivingLabel, StashLabel, ProdLabel, ConsLabel, QueueLabel

\* Every label is a holder's.
LEMMA LabelCases ==
    ASSUME NEW L \in Label
    PROVE  \/ L = FreeLabel \/ L = GivingLabel
           \/ \E t \in Topic : L = StashLabel(t)
           \/ \E p \in Producer : L = ProdLabel(p)
           \/ \E s \in Sub : L = ConsLabel(s)
           \/ \E t \in Topic, n \in Nat : L = QueueLabel(t, n)
BY DEF Label, FreeLabel, GivingLabel, StashLabel, ProdLabel, ConsLabel, QueueLabel

\* Two holders have two labels.
LEMMA LabelsDiffer ==
    /\ FreeLabel # GivingLabel
    /\ \A t \in Topic : /\ FreeLabel # StashLabel(t) /\ GivingLabel # StashLabel(t)
                        /\ \A u \in Topic : StashLabel(t) = StashLabel(u) => t = u
                        /\ \A p \in Producer : StashLabel(t) # ProdLabel(p)
                        /\ \A s \in Sub : StashLabel(t) # ConsLabel(s)
    /\ \A p \in Producer : /\ FreeLabel # ProdLabel(p) /\ GivingLabel # ProdLabel(p)
                           /\ \A q \in Producer : ProdLabel(p) = ProdLabel(q) => p = q
                           /\ \A s \in Sub : ProdLabel(p) # ConsLabel(s)
    /\ \A s \in Sub : /\ FreeLabel # ConsLabel(s) /\ GivingLabel # ConsLabel(s)
                      /\ \A r \in Sub : ConsLabel(r) = ConsLabel(s) => r = s
    /\ \A t \in Topic, n \in Nat :
         /\ FreeLabel # QueueLabel(t, n) /\ GivingLabel # QueueLabel(t, n)
         /\ \A u \in Topic : StashLabel(u) # QueueLabel(t, n)
         /\ \A p \in Producer : ProdLabel(p) # QueueLabel(t, n)
         /\ \A s \in Sub : ConsLabel(s) # QueueLabel(t, n)
         /\ \A u \in Topic, k \in Nat : QueueLabel(t, n) = QueueLabel(u, k) => t = u /\ n = k
BY DEF FreeLabel, GivingLabel, StashLabel, ProdLabel, ConsLabel, QueueLabel

\* The chain under each label.
LEMMA ChainsAre ==
    /\ chains[FreeLabel] = free /\ chains[GivingLabel] = giving.blocks
    /\ \A t \in Topic : chains[StashLabel(t)] = stash[t]
    /\ \A p \in Producer : chains[ProdLabel(p)] = prod[p].blocks
    /\ \A s \in Sub : chains[ConsLabel(s)] = cons[s].blocks
    /\ \A t \in Topic, n \in Nat : chains[QueueLabel(t, n)] = Queued(t, n)
<1>1. QED
  BY LabelsAre DEF chains, FreeLabel, GivingLabel, StashLabel, ProdLabel, ConsLabel, QueueLabel

\* The same, after a step.
LEMMA ChainsAreNext ==
    /\ chains'[FreeLabel] = free' /\ chains'[GivingLabel] = giving'.blocks
    /\ \A t \in Topic : chains'[StashLabel(t)] = stash'[t]
    /\ \A p \in Producer : chains'[ProdLabel(p)] = prod'[p].blocks
    /\ \A s \in Sub : chains'[ConsLabel(s)] = cons'[s].blocks
    /\ \A t \in Topic, n \in Nat : chains'[QueueLabel(t, n)] = Queued(t, n)'
<1>1. QED
  BY LabelsAre DEF chains, FreeLabel, GivingLabel, StashLabel, ProdLabel, ConsLabel, QueueLabel

\* A step that moves blocks between two holders and leaves the others alone.
LEMMA OwnedMove ==
    ASSUME Owned, NEW A \in Label, NEW B \in Label,
           free' = free \/ FreeLabel \in {A, B},
           giving'.blocks = giving.blocks \/ GivingLabel \in {A, B},
           \A t \in Topic : stash'[t] = stash[t] \/ StashLabel(t) \in {A, B},
           \A p \in Producer : prod'[p].blocks = prod[p].blocks \/ ProdLabel(p) \in {A, B},
           \A s \in Sub : cons'[s].blocks = cons[s].blocks \/ ConsLabel(s) \in {A, B},
           \A t \in Topic, n \in Nat : Queued(t, n)' = Queued(t, n) \/ QueueLabel(t, n) \in {A, B},
           chains'[A] \in Seq(Block) /\ NoDup(chains'[A]),
           chains'[B] \in Seq(Block) /\ NoDup(chains'[B]),
           A # B => ToSet(chains'[A]) \cap ToSet(chains'[B]) = {},
           ToSet(chains'[A]) \cup ToSet(chains'[B]) = ToSet(chains[A]) \cup ToSet(chains[B])
    PROVE  Owned'
<1>1. ASSUME NEW L \in Label, L # A, L # B PROVE chains'[L] = chains[L]
  <2>1. CASE L = FreeLabel
    BY <1>1, <2>1, ChainsAre, ChainsAreNext
  <2>2. CASE L = GivingLabel
    BY <1>1, <2>2, ChainsAre, ChainsAreNext
  <2>3. ASSUME NEW t \in Topic, L = StashLabel(t) PROVE chains'[L] = chains[L]
    BY <1>1, <2>3, ChainsAre, ChainsAreNext
  <2>4. ASSUME NEW p \in Producer, L = ProdLabel(p) PROVE chains'[L] = chains[L]
    BY <1>1, <2>4, ChainsAre, ChainsAreNext
  <2>5. ASSUME NEW s \in Sub, L = ConsLabel(s) PROVE chains'[L] = chains[L]
    BY <1>1, <2>5, ChainsAre, ChainsAreNext
  <2>6. ASSUME NEW t \in Topic, NEW n \in Nat, L = QueueLabel(t, n) PROVE chains'[L] = chains[L]
    BY <1>1, <2>6, ChainsAre, ChainsAreNext
  <2>7. QED
    BY LabelCases, <2>1, <2>2, <2>3, <2>4, <2>5, <2>6
<1>2. Partition(chains)
  BY DEF Owned
<1>3. Partition(chains')
  BY <1>1, <1>2, PartitionMove
<1>4. QED
  BY <1>3 DEF Owned, Partition

\* A step that leaves every chain alone.
LEMMA OwnedKept ==
    ASSUME Owned, free' = free, giving'.blocks = giving.blocks,
           \A t \in Topic : stash'[t] = stash[t],
           \A p \in Producer : prod'[p].blocks = prod[p].blocks,
           \A s \in Sub : cons'[s].blocks = cons[s].blocks,
           \A t \in Topic, n \in Nat : Queued(t, n)' = Queued(t, n)
    PROVE  Owned'
<1>1. chains'[FreeLabel] = chains[FreeLabel]
  BY ChainsAre, ChainsAreNext
<1>2. FreeLabel \in Label /\ chains[FreeLabel] \in Seq(Block) /\ NoDup(chains[FreeLabel])
  BY LabelsAre DEF Owned, Partition
<1>3. QED
  BY <1>1, <1>2, OwnedMove
------------------------------------------------------------------------------
(* Queues *)

\* The same messages, whoever waits for them.
Alike(q, r) ==
    /\ Len(q) = Len(r)
    /\ \A i \in 1..Len(r) : q[i].blocks = r[i].blocks /\ q[i].seq = r[i].seq

\* No block is NIL.
LEMMA NilIs == NIL \notin Block
BY BusAssumption DEF NIL, Block

\* What a queue and its messages are.
LEMMA QueueTypes ==
    ASSUME BusTypeOK, QueueOK, NEW t \in Topic
    PROVE  /\ queue[t] \in Seq(Msg) /\ log[t] \in Seq([id : Nat, n : Nat])
           /\ Len(queue[t]) \in Nat /\ Len(log[t]) \in Nat /\ Oldest(t) \in Nat
           /\ Len(queue[t]) <= Len(log[t]) /\ Oldest(t) + Len(queue[t]) = Len(log[t])
           /\ DOMAIN queue[t] = 1..Len(queue[t])
           /\ \A i \in 1..Len(queue[t]) :
                /\ queue[t][i] \in Msg /\ queue[t][i].blocks \in Seq(Block)
                /\ queue[t][i].blocks # <<>> /\ Head(queue[t][i].blocks) \in Block
                /\ Head(queue[t][i].blocks) \in ToSet(queue[t][i].blocks)
                /\ queue[t][i].seq = Oldest(t) + i - 1 /\ queue[t][i].seq \in Nat
                /\ Whole(t, queue[t][i])
<1>1. queue[t] \in Seq(Msg) /\ log[t] \in Seq([id : Nat, n : Nat])
  BY DEF BusTypeOK
<1>2. Len(queue[t]) \in Nat /\ Len(log[t]) \in Nat /\ DOMAIN queue[t] = 1..Len(queue[t])
  BY <1>1, LenProperties
<1>3. Len(queue[t]) <= Len(log[t])
  BY DEF QueueOK, QueueOn
<1>4. Oldest(t) \in Nat /\ Oldest(t) + Len(queue[t]) = Len(log[t])
  BY <1>2, <1>3 DEF Oldest
<1>5. ASSUME NEW i \in 1..Len(queue[t])
      PROVE /\ queue[t][i] \in Msg /\ queue[t][i].blocks \in Seq(Block)
            /\ queue[t][i].blocks # <<>> /\ Head(queue[t][i].blocks) \in Block
            /\ Head(queue[t][i].blocks) \in ToSet(queue[t][i].blocks)
            /\ queue[t][i].seq = Oldest(t) + i - 1 /\ queue[t][i].seq \in Nat
            /\ Whole(t, queue[t][i])
  <2>1. queue[t][i] \in Msg
    BY <1>1, ElementOfSeq
  <2>2. queue[t][i].blocks \in Seq(Block) /\ queue[t][i].seq \in Nat
    BY <2>1 DEF Msg
  <2>3. queue[t][i].seq = Oldest(t) + i - 1 /\ Whole(t, queue[t][i])
    BY DEF QueueOK, QueueOn
  <2>4. queue[t][i].blocks # <<>>
    BY <2>3 DEF Whole
  <2>5. QED
    BY <2>1, <2>2, <2>3, <2>4, TailRange
<1>6. QED
  BY <1>1, <1>2, <1>3, <1>4, <1>5

\* The chain of the i-th message, by its sequence number.
LEMMA QueuedAt ==
    ASSUME BusTypeOK, QueueOK, NEW t \in Topic, NEW i \in 1..Len(queue[t])
    PROVE  /\ queue[t][i].seq \in Nat
           /\ Queued(t, queue[t][i].seq) = queue[t][i].blocks
           /\ chains[QueueLabel(t, queue[t][i].seq)] = queue[t][i].blocks
<1>1. /\ Len(queue[t]) \in Nat /\ Oldest(t) \in Nat /\ Len(log[t]) \in Nat
      /\ Oldest(t) + Len(queue[t]) = Len(log[t])
      /\ queue[t][i].seq = Oldest(t) + i - 1 /\ queue[t][i].seq \in Nat
  BY QueueTypes
<1>2. i \in 1..Len(queue[t])
  OBVIOUS
<1>3. PICK o \in Nat, l \in Nat, n \in Nat :
        o = Oldest(t) /\ l = Len(queue[t]) /\ n = Len(log[t])
  BY <1>1
<1>4. o <= o + i - 1 /\ o + i - 1 < n /\ (o + i - 1) - o + 1 = i
  BY <1>1, <1>2, <1>3
<1>5. Queued(t, queue[t][i].seq) = queue[t][i].blocks
  BY <1>1, <1>3, <1>4 DEF Queued
<1>6. QED
  BY <1>1, <1>5, ChainsAre

\* Different messages of a topic have no block in common.
LEMMA BlocksApart ==
    ASSUME BusTypeOK, QueueOK, Owned, NEW t \in Topic,
           NEW i \in 1..Len(queue[t]), NEW j \in 1..Len(queue[t]), i # j
    PROVE  ToSet(queue[t][i].blocks) \cap ToSet(queue[t][j].blocks) = {}
<1>1. queue[t][i].seq \in Nat /\ queue[t][j].seq \in Nat /\ queue[t][i].seq # queue[t][j].seq
  <2>1. PICK o \in Nat : o = Oldest(t)
    BY QueueTypes
  <2>2. /\ queue[t][i].seq = o + i - 1 /\ queue[t][j].seq = o + j - 1
        /\ queue[t][i].seq \in Nat /\ queue[t][j].seq \in Nat
    BY <2>1, QueueTypes
  <2>3. o + i - 1 # o + j - 1
    BY <2>1
  <2>4. QED
    BY <2>2, <2>3
<1>2. QueueLabel(t, queue[t][i].seq) # QueueLabel(t, queue[t][j].seq)
  BY <1>1, LabelsDiffer
<1>3. QueueLabel(t, queue[t][i].seq) \in Label /\ QueueLabel(t, queue[t][j].seq) \in Label
  BY <1>1, LabelsAre
<1>4. QED
  BY <1>2, <1>3, QueuedAt DEF Owned, Partition

\* Two messages begin with two blocks.
LEMMA HeadsApart ==
    ASSUME BusTypeOK, QueueOK, Owned, NEW t \in Topic,
           NEW i \in 1..Len(queue[t]), NEW j \in 1..Len(queue[t]),
           Head(queue[t][i].blocks) = Head(queue[t][j].blocks)
    PROVE  i = j
<1>1. /\ Head(queue[t][i].blocks) \in ToSet(queue[t][i].blocks)
      /\ Head(queue[t][j].blocks) \in ToSet(queue[t][j].blocks)
  BY QueueTypes
<1>2. QED
  BY <1>1, BlocksApart

\* At finds a message by its first block.
LEMMA AtIs ==
    ASSUME BusTypeOK, QueueOK, Owned, NEW t \in Topic, NEW i \in 1..Len(queue[t])
    PROVE  At(t, Head(queue[t][i].blocks)) = i
<1> DEFINE j == At(t, Head(queue[t][i].blocks))
<1>1. DOMAIN queue[t] = 1..Len(queue[t])
  BY QueueTypes
<1>2. j \in 1..Len(queue[t]) /\ Head(queue[t][j].blocks) = Head(queue[t][i].blocks)
  BY <1>1 DEF At
<1>3. QED
  BY <1>2, HeadsApart

\* Where a reader stands.
LEMMA UnreadIs ==
    ASSUME BusTypeOK, QueueOK, Owned, SubsOK, NEW t \in Topic, NEW s \in subs[t]
    PROVE  /\ s \in Sub /\ expect[s] \in Nat /\ Unread(t, s) \in 1..(Len(queue[t]) + 1)
           /\ cursor[s] = NIL <=> Unread(t, s) = Len(queue[t]) + 1
           /\ cursor[s] # NIL =>
                /\ Unread(t, s) \in 1..Len(queue[t])
                /\ cursor[s] = Head(queue[t][Unread(t, s)].blocks)
                /\ At(t, cursor[s]) = Unread(t, s)
           /\ \A i \in 1..Len(queue[t]) : expect[s] <= queue[t][i].seq <=> Unread(t, s) <= i
<1>1. s \in Sub /\ expect[s] \in Nat /\ expect[s] <= Len(log[t])
  BY DEF BusTypeOK, SubsOK, SubOn
<1>2. PICK o \in Nat, l \in Nat, n \in Nat :
        o = Oldest(t) /\ l = Len(queue[t]) /\ n = Len(log[t]) /\ o + l = n
  BY QueueTypes
<1>3. PICK x \in Nat : x = expect[s]
  BY <1>1
<1>4. PICK u : u = Unread(t, s)
  OBVIOUS
<1>5. u = IF x <= o THEN 1 ELSE x - o + 1
  BY <1>2, <1>3, <1>4 DEF Unread
<1>6. x <= n
  BY <1>1, <1>2, <1>3
<1>7. u \in 1..(l + 1)
  BY <1>5, <1>6, <1>2
<1>8. cursor[s] = Link(queue[t], u)
  BY <1>4 DEF SubsOK, SubOn
<1>9. DOMAIN queue[t] = 1..l /\ \A i \in 1..l : Head(queue[t][i].blocks) \in Block
  BY QueueTypes, <1>2
<1>10. NIL \notin Block
  BY BusAssumption DEF NIL, Block
<1>11. CASE u = l + 1
  <2>1. u \notin 1..l
    BY <1>11, <1>2
  <2>2. cursor[s] = NIL
    BY <1>8, <1>9, <2>1 DEF Link
  <2>3. ASSUME NEW i \in 1..l PROVE expect[s] <= queue[t][i].seq <=> u <= i
    <3>1. queue[t][i].seq = o + i - 1
      BY <1>2, QueueTypes
    <3>2. x <= o + i - 1 <=> u <= i
      BY <1>2, <1>3, <1>5, <2>3
    <3>3. QED
      BY <3>1, <3>2, <1>3
  <2>4. QED
    BY <1>1, <1>2, <1>4, <1>7, <1>11, <2>2, <2>3
<1>12. CASE u # l + 1
  <2>1. u \in 1..l
    BY <1>7, <1>12, <1>2
  <2>2. cursor[s] = Head(queue[t][u].blocks) /\ cursor[s] # NIL
    BY <1>8, <1>9, <1>10, <2>1 DEF Link
  <2>3. At(t, cursor[s]) = u
    BY <2>1, <2>2, <1>2, AtIs
  <2>4. ASSUME NEW i \in 1..l PROVE expect[s] <= queue[t][i].seq <=> u <= i
    <3>1. queue[t][i].seq = o + i - 1
      BY <1>2, QueueTypes
    <3>2. x <= o + i - 1 <=> u <= i
      BY <1>2, <1>3, <1>5, <2>4
    <3>3. QED
      BY <3>1, <3>2, <1>3
  <2>5. QED
    BY <1>1, <1>2, <1>4, <1>7, <1>12, <2>1, <2>2, <2>3, <2>4
<1>13. QED
  BY <1>11, <1>12

\* Topic t with the same messages, and the same payload in their blocks.
LEMMA QueueAlike ==
    ASSUME BusTypeOK, BusTypeOK', QueueOK, NEW t \in Topic, log'[t] = log[t],
           Alike(queue'[t], queue[t]),
           \A i \in 1..Len(queue[t]) : \A b \in ToSet(queue[t][i].blocks) : data'[b] = data[b]
    PROVE  /\ QueueOn(t)' /\ Oldest(t)' = Oldest(t)
           /\ \A n \in Nat : Queued(t, n)' = Queued(t, n)
           /\ \A i \in Nat : Link(queue'[t], i) = Link(queue[t], i)
<1>1. /\ Len(queue'[t]) = Len(queue[t]) /\ Len(queue[t]) \in Nat /\ Oldest(t) \in Nat
      /\ Len(queue[t]) <= Len(log[t]) /\ Oldest(t) + Len(queue[t]) = Len(log[t])
      /\ Len(log[t]) \in Nat
  BY QueueTypes DEF Alike
<1>2. Oldest(t)' = Oldest(t)
  BY <1>1 DEF Oldest
<1>3. ASSUME NEW i \in 1..Len(queue[t])
      PROVE /\ queue'[t][i].blocks = queue[t][i].blocks
            /\ queue'[t][i].seq = queue[t][i].seq /\ queue[t][i].seq = Oldest(t) + i - 1
            /\ Whole(t, queue[t][i])'
  <2>1. queue'[t][i].blocks = queue[t][i].blocks /\ queue'[t][i].seq = queue[t][i].seq
    BY DEF Alike
  <2>2. queue[t][i].seq = Oldest(t) + i - 1 /\ Whole(t, queue[t][i])
    BY QueueTypes
  <2>3. Whole(t, queue[t][i])'
    BY <2>1, <2>2 DEF Whole
  <2>4. QED
    BY <2>1, <2>2, <2>3
<1>4. QueueOn(t)'
  BY <1>1, <1>2, <1>3 DEF QueueOn
<1>5. ASSUME NEW n \in Nat PROVE Queued(t, n)' = Queued(t, n)
  <2>1. PICK o \in Nat, l \in Nat : o = Oldest(t) /\ l = Len(queue[t])
    BY <1>1
  <2>2. CASE o <= n /\ n < Len(log[t])
    <3>1. n - o + 1 \in 1..l
      BY <2>1, <2>2, <1>1, <1>5
    <3>2. queue'[t][n - o + 1].blocks = queue[t][n - o + 1].blocks
      BY <3>1, <2>1, <1>3
    <3>3. QED
      BY <1>2, <2>1, <2>2, <3>2 DEF Queued
  <2>3. CASE ~(o <= n /\ n < Len(log[t]))
    BY <1>2, <2>1, <2>3 DEF Queued
  <2>4. QED
    BY <2>2, <2>3
<1>6. DOMAIN queue'[t] = DOMAIN queue[t] /\ DOMAIN queue[t] = 1..Len(queue[t])
  <2>1. queue'[t] \in Seq(Msg) /\ queue[t] \in Seq(Msg)
    BY DEF BusTypeOK
  <2>2. QED
    BY <2>1, <1>1, LenProperties
<1>7. \A i \in Nat : Link(queue'[t], i) = Link(queue[t], i)
  BY <1>3, <1>6 DEF Link
<1>8. QED
  BY <1>2, <1>4, <1>5, <1>7

\* Topic t without its oldest message.
LEMMA QueueTail ==
    ASSUME BusTypeOK, BusTypeOK', QueueOK, NEW t \in Topic, log'[t] = log[t],
           queue[t] # <<>>, Alike(queue'[t], Tail(queue[t])),
           \A i \in 1..Len(queue[t]) : \A b \in ToSet(queue[t][i].blocks) : data'[b] = data[b]
    PROVE  /\ QueueOn(t)' /\ Oldest(t)' = Oldest(t) + 1 /\ Oldest(t) \in Nat
           /\ Len(queue[t]) \in Nat \ {0} /\ Len(queue'[t]) = Len(queue[t]) - 1
           /\ \A n \in Nat : IF n = Oldest(t) THEN Queued(t, n) = queue[t][1].blocks /\ Queued(t, n)' = <<>>
                             ELSE Queued(t, n)' = Queued(t, n)
           /\ \A i \in Nat \ {0} : Link(queue'[t], i) = Link(queue[t], i + 1)
           /\ \A i \in 1..(Len(queue[t]) - 1) :
                queue'[t][i].blocks = queue[t][i + 1].blocks /\ queue'[t][i].seq = queue[t][i + 1].seq
<1>1. queue[t] \in Seq(Msg) /\ queue'[t] \in Seq(Msg)
  BY DEF BusTypeOK
<1>2. /\ Tail(queue[t]) \in Seq(Msg) /\ Len(Tail(queue[t])) = Len(queue[t]) - 1
      /\ Len(queue[t]) \in Nat \ {0}
      /\ \A i \in 1..(Len(queue[t]) - 1) : Tail(queue[t])[i] = queue[t][i + 1]
  BY <1>1, HeadTailProperties, EmptySeq
<1>3. PICK o \in Nat, l \in Nat \ {0}, g \in Nat :
        o = Oldest(t) /\ l = Len(queue[t]) /\ g = Len(log[t]) /\ o + l = g
  BY <1>2, QueueTypes
<1>4. Len(queue'[t]) = l - 1 /\ l - 1 \in Nat
  BY <1>2, <1>3 DEF Alike
<1>5. ASSUME NEW i \in 1..(l - 1)
      PROVE queue'[t][i].blocks = queue[t][i + 1].blocks /\ queue'[t][i].seq = queue[t][i + 1].seq
  BY <1>2, <1>3, <1>5 DEF Alike
<1>6. Oldest(t)' = g - (l - 1) /\ Oldest(t)' = o + 1
  BY <1>3, <1>4 DEF Oldest
<1>7. ASSUME NEW i \in 1..(l - 1)
      PROVE  queue'[t][i].seq = (o + 1) + i - 1 /\ Whole(t, queue[t][i])'
  <2>1. i + 1 \in 1..l /\ (o + 1) + i - 1 = o + (i + 1) - 1
    BY <1>3, <1>7
  <2>2. queue[t][i + 1].seq = o + (i + 1) - 1 /\ Whole(t, queue[t][i + 1])
    BY <2>1, <1>3, QueueTypes
  <2>3. Whole(t, queue[t][i])'
    BY <2>1, <2>2, <1>3, <1>5, <1>7 DEF Whole
  <2>4. QED
    BY <2>1, <2>2, <2>3, <1>5, <1>7
<1>8. QueueOn(t)'
  <2>1. l - 1 <= g
    BY <1>3
  <2>2. QED
    BY <1>3, <1>4, <1>6, <1>7, <2>1 DEF QueueOn
<1>9. Queued(t, o) = queue[t][1].blocks
  <2>1. o <= o /\ o < g /\ o - o + 1 = 1
    BY <1>3
  <2>2. QED
    BY <2>1, <1>3 DEF Queued
<1>10. Queued(t, o)' = <<>>
  <2>1. ~(o + 1 <= o)
    BY <1>3
  <2>2. QED
    BY <2>1, <1>6, <1>3 DEF Queued
<1>11. ASSUME NEW n \in Nat \ {o} PROVE Queued(t, n)' = Queued(t, n)
  <2>1. CASE o < n /\ n < g
    <3>1. n - (o + 1) + 1 \in 1..(l - 1) /\ (n - (o + 1) + 1) + 1 = n - o + 1
      BY SMTT(40), <2>1, <1>3, <1>11
    <3>2. queue'[t][n - (o + 1) + 1].blocks = queue[t][n - o + 1].blocks
      BY <3>1, <1>5
    <3>3. o + 1 <= n /\ o <= n
      BY <2>1, <1>3, <1>11
    <3>4. QED
      BY <1>3, <1>6, <2>1, <3>2, <3>3 DEF Queued
  <2>2. CASE ~(o < n /\ n < g)
    <3>1. ~(o + 1 <= n /\ n < g) /\ ~(o <= n /\ n < g)
      BY <2>2, <1>3, <1>11
    <3>2. QED
      BY <1>3, <1>6, <3>1 DEF Queued
  <2>3. QED
    BY <2>1, <2>2
<1>12. DOMAIN queue'[t] = 1..(l - 1) /\ DOMAIN queue[t] = 1..l
  BY <1>1, <1>3, <1>4, LenProperties
<1>13. ASSUME NEW i \in Nat \ {0} PROVE Link(queue'[t], i) = Link(queue[t], i + 1)
  <2>1. i \in 1..(l - 1) <=> i + 1 \in 1..l
    BY <1>3, <1>13
  <2>2. QED
    BY <2>1, <1>5, <1>12 DEF Link
<1>14. QED
  BY <1>2, <1>3, <1>4, <1>5, <1>6, <1>8, <1>9, <1>10, <1>11, <1>13

\* Topic t with one more message at its end.
LEMMA QueueAppend ==
    ASSUME BusTypeOK, BusTypeOK', QueueOK, NEW t \in Topic, NEW m \in Msg, NEW e \in [id : Nat, n : Nat],
           queue'[t] = Append(queue[t], m), log'[t] = Append(log[t], e), data' = data,
           m.seq = Len(log[t]), m.blocks # <<>>, Len(m.blocks) = e.n,
           \A b \in ToSet(m.blocks) : data[b] = e.id
    PROVE  /\ QueueOn(t)' /\ Oldest(t)' = Oldest(t)
           /\ Len(queue'[t]) = Len(queue[t]) + 1 /\ Len(log'[t]) = Len(log[t]) + 1
           /\ \A i \in 1..Len(queue[t]) : queue'[t][i] = queue[t][i]
           /\ \A i \in 1..Len(log[t]) : log'[t][i] = log[t][i]
           /\ queue'[t][Len(queue[t]) + 1] = m
           /\ \A n \in Nat : IF n = Len(log[t]) THEN Queued(t, n) = <<>> /\ Queued(t, n)' = m.blocks
                             ELSE Queued(t, n)' = Queued(t, n)
           /\ \A i \in 1..Len(queue[t]) : Link(queue'[t], i) = Link(queue[t], i)
           /\ Link(queue'[t], Len(queue[t]) + 1) = Head(m.blocks)
<1>1. queue[t] \in Seq(Msg) /\ queue'[t] \in Seq(Msg) /\ log[t] \in Seq([id : Nat, n : Nat])
  BY DEF BusTypeOK
<1>2. PICK o \in Nat, l \in Nat, g \in Nat :
        o = Oldest(t) /\ l = Len(queue[t]) /\ g = Len(log[t]) /\ o + l = g
  BY QueueTypes
<1>0. o \in Nat /\ l \in Nat /\ g \in Nat /\ o + l = g
  BY <1>2
<1>3. /\ Len(queue'[t]) = l + 1 /\ queue'[t][l + 1] = m
      /\ \A i \in 1..l : queue'[t][i] = queue[t][i]
  BY <1>1, <1>2, AppendProperties
<1>4. /\ Len(log'[t]) = g + 1 /\ log'[t][g + 1] = e
      /\ \A i \in 1..g : log'[t][i] = log[t][i]
  BY <1>1, <1>2, AppendProperties
<1>5. Oldest(t)' = (g + 1) - (l + 1) /\ Oldest(t)' = o
  BY <1>2, <1>3, <1>4 DEF Oldest
<1>6. ASSUME NEW i \in 1..l PROVE queue'[t][i].seq = o + i - 1 /\ Whole(t, queue[t][i])'
  <2>1. queue[t][i].seq = o + i - 1 /\ Whole(t, queue[t][i])
    BY <1>2, QueueTypes
  <2>2. queue[t][i].seq + 1 \in 1..g
    <3>1. i \in 1..l /\ o + i - 1 + 1 \in 1..g
      BY <1>0, <1>6
    <3>2. QED
      BY <3>1, <2>1
  <2>3. log'[t][queue[t][i].seq + 1] = log[t][queue[t][i].seq + 1]
    BY <2>2, <1>4
  <2>4. Whole(t, queue[t][i])'
    BY <2>1, <2>3, <1>3, <1>6 DEF Whole
  <2>5. QED
    BY <2>1, <2>4, <1>3, <1>6
<1>7. m.seq = o + (l + 1) - 1 /\ Whole(t, m)'
  <2>1. m.seq = g /\ o + (l + 1) - 1 = g
    BY <1>2
  <2>2. Whole(t, m)'
    BY <2>1, <1>4 DEF Whole
  <2>3. QED
    BY <2>1, <2>2
<1>8. QueueOn(t)'
  <2>1. l + 1 <= g + 1 /\ \A i \in 1..(l + 1) : i \in 1..l \/ i = l + 1
    BY SMTT(40), <1>2
  <2>2. QED
    BY <2>1, <1>3, <1>4, <1>5, <1>6, <1>7 DEF QueueOn
<1>9. Queued(t, g) = <<>>
  BY <1>2 DEF Queued
<1>10. Queued(t, g)' = m.blocks
  <2>1. o <= g /\ g < g + 1 /\ g - o + 1 = l + 1
    BY <1>0
  <2>2. QED
    BY <2>1, <1>3, <1>4, <1>5 DEF Queued
<1>11. ASSUME NEW n \in Nat \ {g} PROVE Queued(t, n)' = Queued(t, n)
  <2>1. CASE o <= n /\ n < g
    <3>1. n - o + 1 \in 1..l /\ n < g + 1
      BY <2>1, <1>0, <1>11
    <3>2. QED
      BY <1>2, <1>3, <1>4, <1>5, <2>1, <3>1 DEF Queued
  <2>2. CASE ~(o <= n /\ n < g)
    <3>1. ~(o <= n /\ n < g + 1)
      BY <2>2, <1>2, <1>11
    <3>2. QED
      BY <1>2, <1>4, <1>5, <2>2, <3>1 DEF Queued
  <2>3. QED
    BY <2>1, <2>2
<1>12. DOMAIN queue'[t] = 1..(l + 1) /\ DOMAIN queue[t] = 1..l
  BY <1>1, <1>2, <1>3, LenProperties
<1>13. ASSUME NEW i \in 1..l PROVE Link(queue'[t], i) = Link(queue[t], i)
  <2>1. i \in 1..(l + 1)
    BY <1>2, <1>13
  <2>2. QED
    BY <2>1, <1>3, <1>12, <1>13 DEF Link
<1>14. Link(queue'[t], l + 1) = Head(m.blocks)
  <2>1. l + 1 \in 1..(l + 1)
    BY <1>2
  <2>2. QED
    BY <2>1, <1>3, <1>12 DEF Link
<1>15. QED
  BY <1>2, <1>3, <1>4, <1>5, <1>8, <1>9, <1>10, <1>11, <1>13, <1>14
------------------------------------------------------------------------------
(* What a step leaves as it was *)

\* What a use of the bus fixes is in its types.
LEMMA UseIs ==
    ASSUME BusTypeOK
    PROVE  TopicOf \in [Sub -> Topic] /\ reserve \in [Topic -> Nat]
<1>1. use \in Use
  BY BusAssumption DEF BusTypeOK
<1>2. QED
  BY <1>1 DEF Use, TopicOf, reserve

\* Every topic keeps its messages.
LEMMA AlikeStep ==
    ASSUME BusTypeOK, BusTypeOK', QueueOK, Owned, SubsOK, log' = log,
           \A t \in Topic : Alike(queue'[t], queue[t]),
           \A t \in Topic : \A i \in 1..Len(queue[t]) : \A b \in ToSet(queue[t][i].blocks) :
             data'[b] = data[b]
    PROVE  /\ QueueOK' /\ \A t \in Topic : Oldest(t)' = Oldest(t)
           /\ \A t \in Topic, n \in Nat : Queued(t, n)' = Queued(t, n)
           /\ \A t \in Topic : \A s \in subs[t] : expect'[s] = expect[s] =>
                /\ Unread(t, s)' = Unread(t, s)
                /\ cursor'[s] = cursor[s] => SubOn(t, s)'
                /\ cursor[s] # NIL =>
                     /\ queue'[t][Unread(t, s)].blocks = queue[t][Unread(t, s)].blocks
                     /\ queue'[t][Unread(t, s)].seq = queue[t][Unread(t, s)].seq
<1>1. ASSUME NEW t \in Topic
      PROVE  /\ QueueOn(t)' /\ Oldest(t)' = Oldest(t)
             /\ \A n \in Nat : Queued(t, n)' = Queued(t, n)
             /\ \A i \in Nat : Link(queue'[t], i) = Link(queue[t], i)
  BY QueueAlike
<1>2. ASSUME NEW t \in Topic, NEW s \in subs[t], expect'[s] = expect[s]
      PROVE  /\ Unread(t, s)' = Unread(t, s)
             /\ cursor'[s] = cursor[s] => SubOn(t, s)'
             /\ cursor[s] # NIL =>
                  /\ queue'[t][Unread(t, s)].blocks = queue[t][Unread(t, s)].blocks
                  /\ queue'[t][Unread(t, s)].seq = queue[t][Unread(t, s)].seq
  <2>1. Oldest(t)' = Oldest(t)
    BY <1>1
  <2>2. Unread(t, s)' = Unread(t, s)
    BY <2>1, <1>2 DEF Unread
  <2>3. Unread(t, s) \in 1..(Len(queue[t]) + 1) /\ Len(queue[t]) \in Nat
        /\ (cursor[s] # NIL => Unread(t, s) \in 1..Len(queue[t]))
    BY UnreadIs, QueueTypes
  <2>4. Unread(t, s) \in Nat
    BY <2>3
  <2>5. Link(queue'[t], Unread(t, s)) = Link(queue[t], Unread(t, s))
    BY <1>1, <2>4
  <2>6. SubOn(t, s)
    BY DEF SubsOK
  <2>7. cursor'[s] = cursor[s] => SubOn(t, s)'
    BY <2>1, <2>2, <2>5, <2>6, <1>2 DEF SubOn
  <2>8. cursor[s] # NIL =>
          /\ queue'[t][Unread(t, s)].blocks = queue[t][Unread(t, s)].blocks
          /\ queue'[t][Unread(t, s)].seq = queue[t][Unread(t, s)].seq
    BY <2>3 DEF Alike
  <2>9. QED
    BY <2>2, <2>7, <2>8
<1>3. QED
  BY <1>1, <1>2 DEF QueueOK

\* Topic t loses its oldest message.
LEMMA TailStep ==
    ASSUME BusTypeOK, BusTypeOK', QueueOK, Owned, SubsOK, log' = log, data' = data,
           NEW t \in Topic, queue[t] # <<>>, Alike(queue'[t], Tail(queue[t])),
           \A u \in Topic \ {t} : queue'[u] = queue[u]
    PROVE  /\ QueueOK' /\ Oldest(t)' = Oldest(t) + 1 /\ Oldest(t) \in Nat
           /\ Len(queue[t]) \in Nat \ {0} /\ Len(queue'[t]) = Len(queue[t]) - 1
           /\ \A u \in Topic, n \in Nat :
                IF u = t /\ n = Oldest(t) THEN Queued(u, n) = queue[t][1].blocks /\ Queued(u, n)' = <<>>
                ELSE Queued(u, n)' = Queued(u, n)
           /\ \A i \in 1..(Len(queue[t]) - 1) :
                queue'[t][i].blocks = queue[t][i + 1].blocks /\ queue'[t][i].seq = queue[t][i + 1].seq
           /\ \A u \in Topic \ {t} : \A s \in subs[u] : expect'[s] = expect[s] =>
                /\ Unread(u, s)' = Unread(u, s)
                /\ cursor'[s] = cursor[s] => SubOn(u, s)'
           /\ \A s \in subs[t] : expect'[s] = expect[s] =>
                /\ Unread(t, s) # 1 =>
                     /\ Unread(t, s)' = Unread(t, s) - 1
                     /\ cursor'[s] = cursor[s] => SubOn(t, s)'
                     /\ cursor[s] # NIL =>
                          /\ queue'[t][Unread(t, s) - 1].blocks = queue[t][Unread(t, s)].blocks
                          /\ queue'[t][Unread(t, s) - 1].seq = queue[t][Unread(t, s)].seq
                /\ Unread(t, s) = 1 /\ t \in Overwriting /\ cursor'[s] = Link(queue[t], 2) => SubOn(t, s)'
<1>1. /\ QueueOn(t)' /\ Oldest(t)' = Oldest(t) + 1 /\ Oldest(t) \in Nat
      /\ Len(queue[t]) \in Nat \ {0} /\ Len(queue'[t]) = Len(queue[t]) - 1
      /\ \A n \in Nat : IF n = Oldest(t) THEN Queued(t, n) = queue[t][1].blocks /\ Queued(t, n)' = <<>>
                        ELSE Queued(t, n)' = Queued(t, n)
      /\ \A i \in Nat \ {0} : Link(queue'[t], i) = Link(queue[t], i + 1)
      /\ \A i \in 1..(Len(queue[t]) - 1) :
           queue'[t][i].blocks = queue[t][i + 1].blocks /\ queue'[t][i].seq = queue[t][i + 1].seq
  BY QueueTail
<1>2. ASSUME NEW u \in Topic \ {t}
      PROVE  /\ QueueOn(u)' /\ Oldest(u)' = Oldest(u)
             /\ \A n \in Nat : Queued(u, n)' = Queued(u, n)
             /\ \A i \in Nat : Link(queue'[u], i) = Link(queue[u], i)
  <2>1. Alike(queue'[u], queue[u])
    BY DEF Alike
  <2>2. QED
    BY <2>1, QueueAlike
<1>3. ASSUME NEW u \in Topic \ {t}, NEW s \in subs[u], expect'[s] = expect[s]
      PROVE  /\ Unread(u, s)' = Unread(u, s)
             /\ cursor'[s] = cursor[s] => SubOn(u, s)'
  <2>1. Oldest(u)' = Oldest(u)
    BY <1>2
  <2>2. Unread(u, s)' = Unread(u, s)
    BY <2>1, <1>3 DEF Unread
  <2>3. SubOn(u, s)
    BY DEF SubsOK
  <2>4. QED
    BY <2>1, <2>2, <2>3, <1>3 DEF SubOn
<1>4. ASSUME NEW s \in subs[t], expect'[s] = expect[s]
      PROVE  /\ Unread(t, s) # 1 =>
                  /\ Unread(t, s)' = Unread(t, s) - 1
                  /\ cursor'[s] = cursor[s] => SubOn(t, s)'
                  /\ cursor[s] # NIL =>
                       /\ queue'[t][Unread(t, s) - 1].blocks = queue[t][Unread(t, s)].blocks
                       /\ queue'[t][Unread(t, s) - 1].seq = queue[t][Unread(t, s)].seq
             /\ Unread(t, s) = 1 /\ t \in Overwriting /\ cursor'[s] = Link(queue[t], 2) => SubOn(t, s)'
  <2>1. PICK o \in Nat, l \in Nat \ {0}, x \in Nat :
          o = Oldest(t) /\ l = Len(queue[t]) /\ x = expect[s] /\ x <= Len(log[t])
    BY <1>1, UnreadIs DEF SubsOK, SubOn
  <2>2. o \in Nat /\ l \in Nat \ {0} /\ x \in Nat
    BY <2>1
  <2>3. Unread(t, s) = IF x <= o THEN 1 ELSE x - o + 1
    BY <2>1 DEF Unread
  <2>4. Unread(t, s)' = IF x <= o + 1 THEN 1 ELSE x - (o + 1) + 1
    BY <2>1, <1>1, <1>4 DEF Unread
  <2>5. SubOn(t, s)
    BY DEF SubsOK
  <2>6. ASSUME Unread(t, s) # 1
        PROVE  /\ Unread(t, s)' = Unread(t, s) - 1
               /\ cursor'[s] = cursor[s] => SubOn(t, s)'
               /\ cursor[s] # NIL =>
                    /\ queue'[t][Unread(t, s) - 1].blocks = queue[t][Unread(t, s)].blocks
                    /\ queue'[t][Unread(t, s) - 1].seq = queue[t][Unread(t, s)].seq
    <3>1. x > o /\ Unread(t, s) = x - o + 1
      BY <2>2, <2>3, <2>6
    <3>2. PICK k \in Nat \ {0} : k = x - o
      BY <3>1, <2>2
    <3>3. Unread(t, s) = k + 1 /\ Unread(t, s)' = k /\ k = (k + 1) - 1
      BY <3>1, <3>2, <2>2, <2>4
    <3>4. Link(queue'[t], k) = Link(queue[t], k + 1)
      BY <1>1, <3>2
    <3>5. o + 1 <= x
      BY <3>1, <2>2
    <3>6. cursor'[s] = cursor[s] => SubOn(t, s)'
      BY <3>3, <3>4, <3>5, <2>1, <2>5, <1>1, <1>4 DEF SubOn
    <3>7. ASSUME cursor[s] # NIL
          PROVE  /\ queue'[t][k].blocks = queue[t][k + 1].blocks
                 /\ queue'[t][k].seq = queue[t][k + 1].seq
      <4>1. k + 1 \in 1..l
        BY <3>3, <3>7, <2>1, UnreadIs
      <4>2. k \in 1..(l - 1)
        BY <4>1, <3>2, <2>2
      <4>3. QED
        BY <4>2, <2>1, <1>1
    <3>8. QED
      BY <3>3, <3>6, <3>7
  <2>7. ASSUME Unread(t, s) = 1, t \in Overwriting, cursor'[s] = Link(queue[t], 2)
        PROVE  SubOn(t, s)'
    <3>1. x <= o
      BY <2>2, <2>3, <2>7
    <3>2. Unread(t, s)' = 1
      BY <3>1, <2>2, <2>4
    <3>3. Link(queue'[t], 1) = Link(queue[t], 2)
      <4>1. Link(queue'[t], 1) = Link(queue[t], 1 + 1)
        BY <1>1
      <4>2. QED
        BY <4>1
    <3>4. QED
      BY <3>2, <3>3, <2>1, <2>5, <2>7, <1>4 DEF SubOn
  <2>8. QED
    BY <2>6, <2>7
<1>5. QueueOK'
  BY <1>1, <1>2 DEF QueueOK
<1>6. QED
  BY <1>1, <1>2, <1>3, <1>4, <1>5

\* A reader that keeps what it had: its message is still queued, or is being freed.
LEMMA ReaderKept ==
    ASSUME BusTypeOK, BusTypeOK', QueueOK, Owned, SubsOK, NEW s \in Sub, ConsOn(s),
           use' = use, cons'[s] = cons[s], expect'[s] = expect[s], peeked'[s] = peeked[s],
           s \in subs'[TopicOf[s]] <=> s \in subs[TopicOf[s]],
           \A k \in 1..Len(log[TopicOf[s]]) : log'[TopicOf[s]][k] = log[TopicOf[s]][k],
           \/ /\ cursor'[s] = cursor[s]
              /\ s \in subs[TopicOf[s]] /\ cursor[s] # NIL =>
                   /\ Current(s)'.blocks = Current(s).blocks
                   /\ Current(s)'.seq = Current(s).seq
              /\ cons[s].msg \in ToSet(giving.blocks) => cons[s].msg \in ToSet(giving'.blocks)
           \/ /\ cons[s].pc \notin {"view", "viewed"}
              /\ cons[s].pc \in {"copy", "check"} /\ cons[s].same => cons[s].msg \in ToSet(giving'.blocks)
    PROVE  ConsOn(s)'
<1> DEFINE t == TopicOf[s]
<1>1. t \in Topic /\ TopicOf' = TopicOf
  BY UseIs DEF TopicOf
<1>2. ASSUME cons[s].pc \in {"free", "got"} PROVE Delivered(s)'
  <2>1. Delivered(s) /\ s \in subs[t]
    BY <1>2 DEF ConsOn
  <2>2. expect[s] \in Nat /\ expect[s] <= Len(log[t]) /\ expect[s] > 0
    BY <1>1, <2>1, UnreadIs DEF SubsOK, SubOn, Delivered
  <2>3. expect[s] \in 1..Len(log[t])
    BY <2>2, <1>1, QueueTypes
  <2>4. QED
    BY <2>1, <2>3, <1>1 DEF Delivered
<1>3. ASSUME s \in subs[t], cursor[s] # NIL, cursor'[s] = cursor[s],
             Current(s)'.blocks = Current(s).blocks, Current(s)'.seq = Current(s).seq
      PROVE  (Copying(s) => Copying(s)') /\ (Viewing(s) => Viewing(s)')
  <2>1. Unread(t, s) \in 1..Len(queue[t])
    BY <1>1, <1>3, UnreadIs
  <2>2. PICK o \in Nat, l \in Nat : o = Oldest(t) /\ l = Len(queue[t]) /\ o + l = Len(log[t])
    BY <1>1, QueueTypes
  <2>3. PICK u \in 1..l : u = Unread(t, s)
    BY <2>1, <2>2
  <2>4. Current(s).seq = o + u - 1
    BY <2>2, <2>3, <1>1, QueueTypes DEF Current
  <2>5. o + u - 1 + 1 \in 1..(o + l)
    BY <2>2, <2>3
  <2>6. Published(s, Current(s))' = Published(s, Current(s))
    BY <2>2, <2>4, <2>5, <1>1, <1>3 DEF Published
  <2>7. Copying(s) => Copying(s)'
    BY <2>6, <1>3 DEF Copying
  <2>8. Viewing(s) => Viewing(s)'
    BY <2>6, <1>3 DEF Viewing
  <2>9. QED
    BY <2>7, <2>8
<1>4. ASSUME cons[s].pc \in {"copy", "check"}, cons[s].same
      PROVE  cons[s].msg \in ToSet(giving'.blocks) \/ Copying(s)'
  <2>1. s \in subs[t] /\ (cons[s].msg \in ToSet(giving.blocks) \/ Copying(s))
    BY <1>4 DEF ConsOn
  <2>2. Copying(s) => cursor[s] # NIL
    BY DEF Copying
  <2>3. QED
    BY <2>1, <2>2, <1>3, <1>4
<1>5. ASSUME cons[s].pc \in {"view", "viewed"} PROVE Viewing(s)'
  <2>1. s \in subs[t] /\ Viewing(s)
    BY <1>5 DEF ConsOn
  <2>2. cursor[s] # NIL
    BY <2>1 DEF Viewing
  <2>3. QED
    BY <2>1, <2>2, <1>3, <1>5
<1>6. QED
  BY <1>1, <1>2, <1>4, <1>5 DEF ConsOn

\* A step that touches no queue, no subscription and no payload that is queued.
LEMMA StayStep ==
    ASSUME BusTypeOK, BusTypeOK', QueueOK, Owned, SubsOK, RefsExact,
           UNCHANGED <<use, queue, log, subs, cursor, expect, peeked, purging>>,
           \A t \in Topic : \A i \in 1..Len(queue[t]) : \A b \in ToSet(queue[t][i].blocks) :
             data'[b] = data[b]
    PROVE  /\ QueueOK' /\ SubsOK' /\ RefsExact'
           /\ \A t \in Topic, n \in Nat : Queued(t, n)' = Queued(t, n)
           /\ TopicOf' = TopicOf
           /\ \A s \in Sub : s \in subs[TopicOf[s]] => Current(s)' = Current(s)
           /\ \A s \in Sub :
                ConsOn(s) /\ cons'[s] = cons[s]
                  /\ (cons[s].msg \in ToSet(giving.blocks) => cons[s].msg \in ToSet(giving'.blocks))
                => ConsOn(s)'
<1>1. \A t \in Topic : Alike(queue'[t], queue[t])
  BY DEF Alike
<1>2. /\ QueueOK' /\ \A t \in Topic : Oldest(t)' = Oldest(t)
      /\ \A t \in Topic, n \in Nat : Queued(t, n)' = Queued(t, n)
      /\ \A t \in Topic : \A s \in subs[t] : Unread(t, s)' = Unread(t, s) /\ SubOn(t, s)'
  BY <1>1, AlikeStep
<1>3. SubsOK'
  BY <1>2 DEF SubsOK
<1>4. RefsExact'
  BY ZenonT(40) DEF RefsExact, Owing, Viewers
<1>5. ASSUME NEW s \in Sub, s \in subs[TopicOf[s]] PROVE Current(s)' = Current(s)
  <2>1. TopicOf[s] \in Topic /\ TopicOf' = TopicOf
    BY UseIs DEF TopicOf
  <2>2. Unread(TopicOf[s], s)' = Unread(TopicOf[s], s)
    BY <1>2, <1>5, <2>1 DEF Unread
  <2>3. QED
    BY <2>1, <2>2 DEF Current
<1>6. ASSUME NEW s \in Sub, ConsOn(s), cons'[s] = cons[s],
             cons[s].msg \in ToSet(giving.blocks) => cons[s].msg \in ToSet(giving'.blocks)
      PROVE  ConsOn(s)'
  <2>1. TopicOf[s] \in Topic
    BY UseIs
  <2>2. QED
    BY <2>1, <1>5, <1>6, ReaderKept
<1>7. TopicOf' = TopicOf
  BY DEF TopicOf
<1>8. QED
  BY <1>2, <1>3, <1>4, <1>5, <1>6, <1>7

------------------------------------------------------------------------------
(* The steps *)

\* It holds at boot, when v_bus_init has chained the pool.
LEMMA BusInitInv ==
    ASSUME BusInit PROVE BusInv
<1>1. block_count \in Nat /\ \A i \in 1..block_count : i - 1 \in Block
  BY BusAssumption DEF Block
<1>2. free \in Seq(Block) /\ Len(free) = block_count
  <2>1. free \in [1..block_count -> Block]
    BY <1>1 DEF BusInit
  <2>2. QED
    BY <1>1, <2>1, FcnIsSeq
<1>3. \A S : <<>> \in Seq(S)
  BY EmptySeq
<1>4. BusTypeOK
  <2>1. NoRead \in Reading /\ NoMessage \in Call
    BY <1>3 DEF NoRead, NoMessage, Reading, Call
  <2>2. QED
    BY <1>2, <1>3, <2>1 DEF BusInit, BusTypeOK, Nothing
<1>5. Owned
  <2>1. /\ chains[FreeLabel] = free /\ chains[GivingLabel] = <<>>
        /\ \A t \in Topic : chains[StashLabel(t)] = <<>>
        /\ \A p \in Producer : chains[ProdLabel(p)] = <<>>
        /\ \A s \in Sub : chains[ConsLabel(s)] = <<>>
    BY ChainsAre DEF BusInit, Nothing, NoMessage, NoRead
  <2>2. \A t \in Topic, n \in Nat : Queued(t, n) = <<>>
    <3>1. \A t \in Topic : Len(log[t]) = 0
      BY EmptySeq DEF BusInit
    <3>2. QED
      BY <3>1 DEF Queued
  <2>3. \A L \in Label : L # FreeLabel => chains[L] = <<>>
    BY <2>1, <2>2, LabelCases, ChainsAre
  <2>4. NoDup(free) /\ ToSet(free) = Block
    <3>1. DOMAIN free = 1..block_count /\ \A i \in 1..block_count : free[i] = i - 1
      BY DEF BusInit
    <3>2. NoDup(free)
      BY <1>1, <3>1 DEF NoDup
    <3>3. ASSUME NEW b \in Block PROVE b \in ToSet(free)
      <4>1. b + 1 \in 1..block_count /\ (b + 1) - 1 = b
        BY <1>1, <3>3 DEF Block
      <4>2. QED
        BY <4>1, <3>1 DEF ToSet
    <3>4. QED
      BY <1>1, <3>1, <3>2, <3>3 DEF ToSet
  <2>5. QED
    BY <1>2, <1>3, <2>1, <2>3, <2>4, EmptyRange, LabelsAre DEF Owned, Partition
<1>6. TopicsOK
  BY <1>4, EmptyRange DEF BusInit, TopicsOK, Nothing, BusTypeOK
<1>7. ProdOK
  BY DEF BusInit, ProdOK, NoMessage
<1>8. Len(<<>>) = 0
  BY EmptySeq
<1>9. QueueOK
  BY <1>8 DEF BusInit, QueueOK, QueueOn
<1>10. RefsExact /\ SubsOK
  BY DEF BusInit, RefsExact, SubsOK
<1>11. ConsOK
  BY DEF BusInit, ConsOK, ConsOn, NoRead
<1>12. QED
  BY <1>4, <1>5, <1>6, <1>7, <1>9, <1>10, <1>11 DEF BusInv

\* The reservation of a topic leaves the pool.
LEMMA DeclareStep ==
    ASSUME BusInv, NEW t \in Topic, v_bus_topic_declare(t)
    PROVE  BusInv'
<1> DEFINE k == reserve[t]
           a == SubSeq(free, 1, k)
           b == SubSeq(free, k + 1, Len(free))
<1>0. BusTypeOK /\ Owned /\ TopicsOK /\ ProdOK /\ QueueOK /\ RefsExact /\ SubsOK /\ ConsOK
  BY DEF BusInv
<1>1. /\ t \notin ToSet(topics) /\ k <= Len(free) /\ topics' = <<t>> \o topics
      /\ stash' = [stash EXCEPT ![t] = Reverse(a)] /\ free' = b
      /\ UNCHANGED <<use, lent, borrowed, queue, data, subVars, alloc, giving, purging, prod, cons, calls, log>>
  BY DEF v_bus_topic_declare
<1>2. free \in Seq(Block) /\ NoDup(free) /\ topics \in Seq(Topic) /\ k \in 0..Len(free)
      /\ stash \in [Topic -> Seq(Block)] /\ stash[t] = <<>>
  <2>1. NoDup(free)
    BY <1>0, LabelsAre, ChainsAre DEF Owned, Partition
  <2>2. k \in Nat
    BY <1>0, UseIs
  <2>3. free \in Seq(Block) /\ Len(free) \in Nat
    BY <1>0, LenProperties DEF BusTypeOK
  <2>4. QED
    BY <1>0, <1>1, <2>1, <2>2, <2>3 DEF BusTypeOK, TopicsOK
<1>3. /\ a \in Seq(Block) /\ NoDup(a) /\ b \in Seq(Block) /\ NoDup(b)
      /\ ToSet(a) \cap ToSet(b) = {} /\ ToSet(a) \cup ToSet(b) = ToSet(free)
  BY <1>2, CutRange
<1>4. Reverse(a) \in Seq(Block) /\ NoDup(Reverse(a)) /\ ToSet(Reverse(a)) = ToSet(a)
  BY <1>3, ReverseRange
<1> HIDE DEF a, b, k
<1>5. topics' \in Seq(Topic) /\ ToSet(topics') = ToSet(topics) \cup {t}
  BY <1>1, <1>2, PushRange
<1>6. BusTypeOK'
  BY <1>0, <1>1, <1>2, <1>3, <1>4, <1>5 DEF BusTypeOK, subVars
<1>7. /\ QueueOK' /\ SubsOK' /\ RefsExact'
      /\ \A u \in Topic, n \in Nat : Queued(u, n)' = Queued(u, n)
      /\ \A s \in Sub : ConsOn(s) => ConsOn(s)'
  BY <1>0, <1>1, <1>6, StayStep DEF subVars
<1>8. Owned'
  <2>1. FreeLabel \in Label /\ StashLabel(t) \in Label
    BY LabelsAre
  <2>2. /\ chains[FreeLabel] = free /\ chains[StashLabel(t)] = <<>>
        /\ chains'[FreeLabel] = b /\ chains'[StashLabel(t)] = Reverse(a)
    BY <1>1, <1>2, ChainsAre, ChainsAreNext
  <2>3. ToSet(chains'[FreeLabel]) \cup ToSet(chains'[StashLabel(t)])
          = ToSet(chains[FreeLabel]) \cup ToSet(chains[StashLabel(t)])
    BY <1>3, <1>4, <2>2, EmptyRange
  <2>4. ToSet(chains'[FreeLabel]) \cap ToSet(chains'[StashLabel(t)]) = {}
    BY <1>3, <1>4, <2>2
  <2>5. \A u \in Topic : stash'[u] = stash[u] \/ StashLabel(u) \in {FreeLabel, StashLabel(t)}
    BY <1>1, <1>2
  <2>6. giving' = giving /\ prod' = prod /\ cons' = cons
    BY <1>1
  <2>7. QED
    BY <1>0, <1>3, <1>4, <1>7, <2>1, <2>2, <2>3, <2>4, <2>5, <2>6, OwnedMove
<1>9. TopicsOK'
  BY <1>0, <1>1, <1>2, <1>5 DEF TopicsOK, subVars, TopicOf
<1>10. ProdOK'
  BY <1>0, <1>1, <1>5 DEF ProdOK, subVars
<1>11. QED
  BY <1>0, <1>6, <1>7, <1>8, <1>9, <1>10 DEF BusInv, ConsOK

\* A call starts.
LEMMA CallStep ==
    ASSUME BusInv, NEW p \in Producer,
           \/ \E t \in Topic, n \in 1..MaxBlocks : v_bus_publish(p, t, n)
           \/ \E t \in Topic : v_bus_reserve(p, t)
    PROVE  BusInv'
<1>0. BusTypeOK /\ Owned /\ TopicsOK /\ ProdOK /\ QueueOK /\ RefsExact /\ SubsOK /\ ConsOK
  BY DEF BusInv
<1>2. calls' \in Nat /\ Len(<<>>) = 0 /\ <<>> \in Seq(Block)
  <2>1. calls' = calls + 1
    BY DEF v_bus_publish, v_bus_reserve
  <2>2. QED
    BY SMTT(40), <1>0, <2>1, EmptySeq DEF BusTypeOK
<1>1. PICK c \in Call :
        /\ Unlocked /\ prod[p].pc = "idle"
        /\ c.pc = "alloc" /\ c.topic \in ToSet(topics) /\ c.need > 0 /\ c.blocks = <<>>
        /\ prod' = [prod EXCEPT ![p] = c]
        /\ UNCHANGED <<poolVars, queue, data, subVars, alloc, giving, purging, cons, log>>
  <2>2. CASE \E t \in Topic, n \in 1..MaxBlocks : v_bus_publish(p, t, n)
    <3>1. PICK t \in Topic, n \in 1..MaxBlocks : v_bus_publish(p, t, n)
      BY <2>2
    <3>2. n \in Nat \ {0} /\ n > 0
      BY BusAssumption
    <3> DEFINE c == [NoMessage EXCEPT !.pc = "alloc", !.topic = t, !.need = n, !.id = calls']
    <3>3. c \in Call /\ c.pc = "alloc" /\ c.topic = t /\ c.need = n /\ c.blocks = <<>>
      BY <3>2, <1>2 DEF NoMessage, Call
    <3>4. /\ Unlocked /\ prod[p].pc = "idle" /\ t \in ToSet(topics)
          /\ prod' = [prod EXCEPT ![p] = c]
          /\ UNCHANGED <<poolVars, queue, data, subVars, alloc, giving, purging, cons, log>>
      BY <3>1 DEF v_bus_publish
    <3> HIDE DEF c
    <3>5. QED
      BY <3>2, <3>3, <3>4
  <2>3. CASE \E t \in Topic : v_bus_reserve(p, t)
    <3>1. PICK t \in Topic : v_bus_reserve(p, t)
      BY <2>3
    <3> DEFINE c == [NoMessage EXCEPT !.pc = "alloc", !.topic = t, !.need = 1, !.id = calls',
                                      !.ticket = TRUE]
    <3>3. c \in Call /\ c.pc = "alloc" /\ c.topic = t /\ c.need = 1 /\ c.blocks = <<>>
      BY <1>2 DEF NoMessage, Call
    <3>4. /\ Unlocked /\ prod[p].pc = "idle" /\ t \in ToSet(topics)
          /\ prod' = [prod EXCEPT ![p] = c]
          /\ UNCHANGED <<poolVars, queue, data, subVars, alloc, giving, purging, cons, log>>
      BY <3>1 DEF v_bus_reserve
    <3> HIDE DEF c
    <3>5. c.need > 0
      BY <3>3
    <3>6. QED
      BY <3>3, <3>4, <3>5
  <2>4. QED
    BY <2>2, <2>3
<1>3. BusTypeOK'
  <2>1. prod' \in [Producer -> Call]
    BY <1>0, <1>1 DEF BusTypeOK
  <2>2. QED
    BY <1>0, <1>1, <1>2, <2>1 DEF BusTypeOK, poolVars, subVars
<1>4. /\ QueueOK' /\ SubsOK' /\ RefsExact'
      /\ \A u \in Topic, k \in Nat : Queued(u, k)' = Queued(u, k)
      /\ \A s \in Sub : ConsOn(s) => ConsOn(s)'
  BY <1>0, <1>1, <1>3, StayStep DEF subVars, poolVars
<1>5. \A q \in Producer : prod'[q].blocks = prod[q].blocks
  BY <1>0, <1>1 DEF BusTypeOK, ProdOK
<1>6. Owned'
  BY <1>0, <1>1, <1>4, <1>5, OwnedKept DEF poolVars
<1>7. TopicsOK'
  BY <1>0, <1>1 DEF TopicsOK, poolVars, subVars, TopicOf
<1>8. ProdOK'
  <2>1. prod[p].pc # "alloc" /\ alloc # p
    BY <1>0, <1>1, BusAssumption DEF ProdOK, Unlocked
  <2>2. QED
    BY <1>0, <1>1, <1>2, <2>1 DEF ProdOK, poolVars, BusTypeOK
<1>9. QED
  BY <1>0, <1>3, <1>4, <1>6, <1>7, <1>8 DEF BusInv, ConsOK

\* What a publisher's call is.
LEMMA ProdIs ==
    ASSUME BusTypeOK, Owned, TopicsOK, ProdOK, NEW p \in Producer
    PROVE  /\ prod[p] \in Call /\ prod[p].blocks \in Seq(Block) /\ NoDup(prod[p].blocks)
           /\ prod[p].need \in Nat /\ Len(prod[p].blocks) \in Nat
           /\ prod[p].pc # "idle" => prod[p].topic \in Topic /\ prod[p].topic \in ToSet(topics)
<1>1. prod[p] \in Call
  BY DEF BusTypeOK
<1>2. prod[p].blocks \in Seq(Block) /\ prod[p].need \in Nat /\ prod[p].topic \in Topic \cup {NONE}
  BY <1>1 DEF Call
<1>3. NoDup(prod[p].blocks)
  BY LabelsAre, ChainsAre DEF Owned, Partition
<1>4. \A x \in ToSet(topics) : x \in Topic
  BY LenProperties, ElementOfSeq DEF BusTypeOK, ToSet
<1>5. prod[p].pc # "idle" => prod[p].topic \in ToSet(topics)
  BY DEF ProdOK
<1>6. QED
  BY <1>1, <1>2, <1>3, <1>4, <1>5, LenProperties

\* alloc_msg: all the blocks from the stash, or refused, or one at a time.
LEMMA AllocMsgStep ==
    ASSUME BusInv, NEW p \in Producer, alloc_msg(p)
    PROVE  BusInv'
<1> DEFINE t == prod[p].topic
           n == prod[p].need
<1>0. BusTypeOK /\ Owned /\ TopicsOK /\ ProdOK /\ QueueOK /\ RefsExact /\ SubsOK /\ ConsOK
  BY DEF BusInv
<1>1. /\ alloc = NONE /\ purging = NONE /\ prod[p].pc = "alloc"
      /\ UNCHANGED <<use, topics, free, lent, borrowed, queue, data, subVars, giving, purging, cons, calls, log>>
  BY DEF alloc_msg, Unlocked
<1>2. /\ prod[p] \in Call /\ t \in Topic /\ t \in ToSet(topics) /\ n \in Nat \ {0}
      /\ prod[p].blocks = <<>> /\ p # NONE
  BY <1>0, <1>1, ProdIs, BusAssumption DEF ProdOK
<1>3. <<>> \in Seq(Block) /\ NoMessage \in Call
  BY EmptySeq DEF NoMessage, Call
<1>4. ASSUME BusTypeOK'
      PROVE /\ QueueOK' /\ SubsOK' /\ RefsExact'
            /\ \A u \in Topic, k \in Nat : Queued(u, k)' = Queued(u, k)
            /\ \A s \in Sub : ConsOn(s) => ConsOn(s)'
  BY <1>0, <1>1, <1>4, StayStep DEF subVars
<1>5. CASE /\ Len(stash[t]) >= n
           /\ stash' = [stash EXCEPT ![t] = SubSeq(@, n + 1, Len(@))]
           /\ prod' = [prod EXCEPT ![p].pc = "copy",
                                   ![p].blocks = Reverse(SubSeq(stash[t], 1, n))]
           /\ UNCHANGED alloc
  <2> DEFINE a == SubSeq(stash[t], 1, n)
             b == SubSeq(stash[t], n + 1, Len(stash[t]))
  <2>1. stash[t] \in Seq(Block) /\ NoDup(stash[t]) /\ n \in 0..Len(stash[t])
    <3>1. NoDup(stash[t])
      BY <1>0, <1>2, LabelsAre, ChainsAre DEF Owned, Partition
    <3>2. stash[t] \in Seq(Block) /\ Len(stash[t]) \in Nat
      BY <1>0, <1>2, LenProperties DEF BusTypeOK
    <3>3. QED
      BY <1>2, <1>5, <3>1, <3>2
  <2>2. /\ a \in Seq(Block) /\ NoDup(a) /\ Len(a) = n /\ b \in Seq(Block) /\ NoDup(b)
        /\ ToSet(a) \cap ToSet(b) = {} /\ ToSet(a) \cup ToSet(b) = ToSet(stash[t])
    BY SMTT(40), <2>1, CutRange
  <2>3. /\ Reverse(a) \in Seq(Block) /\ NoDup(Reverse(a)) /\ ToSet(Reverse(a)) = ToSet(a)
        /\ Len(Reverse(a)) = n
    BY <2>2, ReverseRange
  <2>4. /\ stash' = [stash EXCEPT ![t] = b]
        /\ prod' = [prod EXCEPT ![p].pc = "copy", ![p].blocks = Reverse(a)]
        /\ alloc' = alloc
    BY <1>5
  <2> HIDE DEF a, b
  <2>5. /\ prod'[p] \in Call /\ prod'[p].pc = "copy" /\ prod'[p].blocks = Reverse(a)
        /\ prod'[p].topic = t /\ prod'[p].need = n
        /\ \A q \in Producer \ {p} : prod'[q] = prod[q]
        /\ prod' \in [Producer -> Call]
    BY <1>0, <1>2, <2>3, <2>4 DEF Call, BusTypeOK
  <2> HIDE DEF t, n
  <2>6. BusTypeOK'
    <3>1. stash' \in [Topic -> Seq(Block)] /\ alloc' = alloc
      BY <1>0, <2>2, <2>4 DEF BusTypeOK
    <3>2. QED
      BY <1>0, <1>1, <2>5, <3>1 DEF BusTypeOK, subVars
  <2>7. Owned'
    <3>1. ProdLabel(p) \in Label /\ StashLabel(t) \in Label
      BY <1>2, LabelsAre
    <3>2. /\ chains[ProdLabel(p)] = <<>> /\ chains[StashLabel(t)] = stash[t]
          /\ chains'[ProdLabel(p)] = Reverse(a) /\ chains'[StashLabel(t)] = b
      BY ZenonT(40), <1>0, <1>2, <2>4, <2>5, ChainsAre, ChainsAreNext DEF BusTypeOK
    <3>3. /\ ToSet(chains'[ProdLabel(p)]) \cup ToSet(chains'[StashLabel(t)])
               = ToSet(chains[ProdLabel(p)]) \cup ToSet(chains[StashLabel(t)])
          /\ ToSet(chains'[ProdLabel(p)]) \cap ToSet(chains'[StashLabel(t)]) = {}
      BY <2>2, <2>3, <3>2, EmptyRange
    <3>4. /\ \A u \in Topic : stash'[u] = stash[u] \/ StashLabel(u) \in {ProdLabel(p), StashLabel(t)}
          /\ \A q \in Producer : prod'[q].blocks = prod[q].blocks
                                  \/ ProdLabel(q) \in {ProdLabel(p), StashLabel(t)}
      BY <1>0, <2>4, <2>5 DEF BusTypeOK
    <3>5. free' = free /\ giving' = giving /\ cons' = cons
      BY <1>1
    <3>6. QED
      BY <1>0, <1>4, <2>2, <2>3, <2>6, <3>1, <3>2, <3>3, <3>4, <3>5, OwnedMove
  <2>8. TopicsOK'
    BY ZenonT(40), <1>0, <1>1, <1>2, <1>5, <2>4 DEF TopicsOK, subVars, TopicOf, BusTypeOK
  <2>9. ProdOK'
    <3>1. topics' = topics /\ data' = data /\ alloc' = NONE
      BY <1>1, <2>4
    <3>2. prod'[p].topic \in ToSet(topics') /\ prod'[p].need > 0 /\ Len(prod'[p].blocks) = prod'[p].need
      BY <1>2, <2>3, <2>5, <3>1
    <3>3. ASSUME NEW q \in Producer, q # p PROVE prod'[q] = prod[q]
      BY <2>5, <3>3
    <3>4. QED
      BY <1>0, <1>1, <2>5, <3>1, <3>2, <3>3 DEF ProdOK
  <2>10. QED
    BY <1>0, <1>4, <2>6, <2>7, <2>8, <2>9 DEF BusInv, ConsOK
<1>6. CASE prod' = [prod EXCEPT ![p] = NoMessage] /\ UNCHANGED <<stash, alloc>>
  <2>1. /\ prod' \in [Producer -> Call] /\ prod'[p].pc = "idle" /\ prod'[p].blocks = <<>>
        /\ \A q \in Producer \ {p} : prod'[q] = prod[q]
    BY <1>0, <1>3, <1>6 DEF BusTypeOK, NoMessage
  <2>2. BusTypeOK'
    BY <1>0, <1>1, <1>6, <2>1 DEF BusTypeOK, subVars
  <2>3. Owned'
    BY <1>0, <1>1, <1>2, <1>4, <1>6, <2>1, <2>2, OwnedKept
  <2>4. TopicsOK'
    BY <1>0, <1>1, <1>6 DEF TopicsOK, subVars, TopicOf
  <2>5. ProdOK'
    BY <1>0, <1>1, <1>6, <2>1 DEF ProdOK
  <2>6. QED
    BY <1>0, <1>4, <2>2, <2>3, <2>4, <2>5 DEF BusInv, ConsOK
<1>7. CASE alloc' = p /\ UNCHANGED <<stash, prod>>
  <2>1. BusTypeOK'
    BY <1>0, <1>1, <1>7 DEF BusTypeOK, subVars
  <2>2. Owned'
    BY <1>0, <1>1, <1>4, <1>7, <2>1, OwnedKept
  <2>3. TopicsOK'
    BY <1>0, <1>1, <1>7 DEF TopicsOK, subVars, TopicOf
  <2>4. ProdOK'
    <3>1. \A q \in Producer : prod[q].pc = "alloc" => Len(prod[q].blocks) < prod[q].need
                                                    /\ prod[q].blocks = <<>>
      BY <1>0, <1>1, BusAssumption DEF ProdOK
    <3>2. data' = data /\ topics' = topics /\ prod' = prod
      BY <1>1, <1>7
    <3>3. QED
      BY <1>0, <1>1, <1>7, <3>1, <3>2 DEF ProdOK
  <2>5. QED
    BY <1>0, <1>4, <2>1, <2>2, <2>3, <2>4 DEF BusInv, ConsOK
<1>8. QED
  BY <1>5, <1>6, <1>7 DEF alloc_msg

\* Where take_one finds a block.
LEMMA AllocTakeStep ==
    ASSUME BusInv, AllocTake
    PROVE  BusInv'
<1> DEFINE p == alloc
           t == prod[p].topic
           got == prod[p].blocks
<1>0. BusTypeOK /\ Owned /\ TopicsOK /\ ProdOK /\ QueueOK /\ RefsExact /\ SubsOK /\ ConsOK
  BY DEF BusInv
<1>1. /\ p # NONE /\ giving = Nothing /\ p \in Producer /\ prod[p].pc = "alloc" /\ purging = NONE
      /\ UNCHANGED <<use, topics, queue, data, subVars, giving, purging, cons, calls, log>>
  BY <1>0 DEF AllocTake, BusTypeOK, ProdOK, TopicsOK
<1>2. PICK last \in BOOLEAN, b \in Block :
        /\ last <=> Len(got) + 1 = prod[p].need
        /\ take_one(t, b)
        /\ prod' = [prod EXCEPT ![p].blocks = <<b>> \o @, ![p].pc = IF last THEN "copy" ELSE @]
        /\ alloc' = IF last THEN NONE ELSE alloc
  BY DEF AllocTake
<1>3. /\ prod[p] \in Call /\ t \in Topic /\ t \in ToSet(topics) /\ got \in Seq(Block) /\ NoDup(got)
      /\ prod[p].need \in Nat /\ Len(got) \in Nat /\ Len(got) < prod[p].need
  BY <1>0, <1>1, ProdIs DEF ProdOK
\* The chain the block comes from.
<1>4. PICK A \in Label :
        /\ A # ProdLabel(p) /\ chains[A] \in Seq(Block) /\ chains[A] # <<>> /\ b = Head(chains[A])
        /\ chains'[A] = Tail(chains[A])
        /\ free' = free \/ FreeLabel = A
        /\ \A u \in Topic : stash'[u] = stash[u] \/ StashLabel(u) = A
        /\ stash' \in [Topic -> Seq(Block)] /\ free' \in Seq(Block)
        /\ \A u \in Topic : u \notin ToSet(topics) => stash'[u] = <<>>
        /\ lent' \in [Topic -> Nat] /\ borrowed' \in [Topic -> Nat]
        /\ \A u \in Topic : borrowed'[u] > 0 => u \in Overwriting
  <2> HIDE DEF t, p
  <2>0. /\ free \in Seq(Block) /\ stash \in [Topic -> Seq(Block)]
        /\ lent \in [Topic -> Nat] /\ borrowed \in [Topic -> Nat]
        /\ \A u \in Topic : borrowed[u] > 0 => u \in Overwriting
        /\ \A u \in Topic : u \notin ToSet(topics) => stash[u] = <<>>
    BY <1>0 DEF BusTypeOK, TopicsOK
  <2>1. \A q \in Seq(Block) : q # <<>> => Tail(q) \in Seq(Block)
    BY HeadTailProperties
  <2>2. CASE /\ stash[t] # <<>> /\ b = Head(stash[t])
             /\ stash' = [stash EXCEPT ![t] = Tail(@)]
             /\ UNCHANGED <<free, lent, borrowed>>
    <3>1. StashLabel(t) \in Label /\ StashLabel(t) # ProdLabel(p)
      BY <1>1, <1>3, LabelsAre, LabelsDiffer
    <3>2. chains[StashLabel(t)] = stash[t] /\ chains'[StashLabel(t)] = Tail(stash[t])
      BY <1>3, <2>0, <2>2, ChainsAre, ChainsAreNext
    <3>3. QED
      BY <1>3, <2>0, <2>1, <2>2, <3>1, <3>2
  <2>3. CASE /\ free # <<>> /\ b = Head(free) /\ free' = Tail(free)
             /\ UNCHANGED <<stash, lent, borrowed>>
    <3>1. FreeLabel \in Label /\ FreeLabel # ProdLabel(p)
      BY <1>1, LabelsAre, LabelsDiffer
    <3>2. chains[FreeLabel] = free /\ chains'[FreeLabel] = Tail(free)
      BY <2>3, ChainsAre, ChainsAreNext
    <3>3. QED
      BY <2>0, <2>1, <2>3, <3>1, <3>2
  <2>4. CASE /\ t \in Overwriting
             /\ \E l \in Topic :
                  /\ FirstTopic(l, {x \in Topic : Lender(t, x)}) /\ b = Head(stash[l])
                  /\ stash' = [stash EXCEPT ![l] = Tail(@)]
                  /\ lent' = [lent EXCEPT ![l] = @ + 1]
             /\ borrowed' = [borrowed EXCEPT ![t] = @ + 1]
             /\ UNCHANGED free
    <3>1. PICK l \in Topic :
                  /\ FirstTopic(l, {x \in Topic : Lender(t, x)}) /\ b = Head(stash[l])
                  /\ stash' = [stash EXCEPT ![l] = Tail(@)]
                  /\ lent' = [lent EXCEPT ![l] = @ + 1]
      BY <2>4
    <3>2. stash[l] # <<>>
      BY <3>1 DEF FirstTopic, Lender
    <3>3. StashLabel(l) \in Label /\ StashLabel(l) # ProdLabel(p)
      BY <1>1, LabelsAre, LabelsDiffer
    <3>4. chains[StashLabel(l)] = stash[l] /\ chains'[StashLabel(l)] = Tail(stash[l])
      BY <2>0, <3>1, ChainsAre, ChainsAreNext
    <3>5. lent' \in [Topic -> Nat] /\ borrowed' \in [Topic -> Nat]
          /\ \A u \in Topic : borrowed'[u] > 0 => u \in Overwriting
      <4>1. lent' \in [Topic -> Nat]
        BY <2>0, <3>1
      <4>2. borrowed' \in [Topic -> Nat] /\ \A u \in Topic \ {t} : borrowed'[u] = borrowed[u]
        BY SMTT(40), <1>3, <2>0, <2>4
      <4>3. QED
        BY <2>0, <2>4, <4>1, <4>2
    <3>6. QED
      BY <2>0, <2>1, <2>4, <3>1, <3>2, <3>3, <3>4, <3>5
  <2>5. QED
    BY <1>2, <2>2, <2>3, <2>4 DEF take_one
<1>5. /\ ProdLabel(p) \in Label /\ chains[ProdLabel(p)] = got
      /\ NoDup(chains[A]) /\ ToSet(chains[A]) \cap ToSet(got) = {}
  <2>1. ProdLabel(p) \in Label /\ chains[ProdLabel(p)] = got
    BY <1>1, LabelsAre, ChainsAre
  <2>2. QED
    BY <1>0, <1>4, <2>1 DEF Owned, Partition
<1>6. /\ b \in ToSet(chains[A]) /\ NoDup(Tail(chains[A])) /\ Tail(chains[A]) \in Seq(Block)
      /\ ToSet(Tail(chains[A])) = ToSet(chains[A]) \ {b}
  BY <1>4, <1>5, TailRange
<1>7. /\ <<b>> \o got \in Seq(Block) /\ NoDup(<<b>> \o got)
      /\ ToSet(<<b>> \o got) = ToSet(got) \cup {b} /\ Len(<<b>> \o got) = Len(got) + 1
  <2>1. b \notin ToSet(got)
    BY <1>5, <1>6
  <2>2. Len(<<b>> \o got) = Len(got) + 1
    BY <1>3, ConcatProperties
  <2>3. QED
    BY <1>3, <2>1, <2>2, PushRange
<1>8. /\ prod'[p] \in Call /\ prod'[p].blocks = <<b>> \o got
      /\ prod'[p].pc = (IF last THEN "copy" ELSE "alloc")
      /\ prod'[p].topic = t /\ prod'[p].need = prod[p].need
      /\ \A q \in Producer \ {p} : prod'[q] = prod[q]
      /\ prod' \in [Producer -> Call]
  <2> DEFINE c == [prod[p] EXCEPT !.blocks = <<b>> \o got, !.pc = IF last THEN "copy" ELSE "alloc"]
  <2>1. prod' = [prod EXCEPT ![p] = c]
    BY <1>0, <1>1, <1>2 DEF BusTypeOK
  <2>2. /\ c \in Call /\ c.blocks = <<b>> \o got /\ c.pc = (IF last THEN "copy" ELSE "alloc")
        /\ c.topic = t /\ c.need = prod[p].need
    BY <1>3, <1>7 DEF Call
  <2> HIDE DEF c
  <2>3. QED
    BY <1>0, <1>1, <2>1, <2>2 DEF BusTypeOK
<1>9. BusTypeOK'
  BY <1>0, <1>1, <1>2, <1>4, <1>8 DEF BusTypeOK, subVars
<1>10. /\ QueueOK' /\ SubsOK' /\ RefsExact'
       /\ \A u \in Topic, k \in Nat : Queued(u, k)' = Queued(u, k)
       /\ \A s \in Sub : ConsOn(s) => ConsOn(s)'
  BY <1>0, <1>1, <1>9, StayStep DEF subVars
<1>11. Owned'
  <2>1. chains'[ProdLabel(p)] = <<b>> \o got
    BY <1>1, <1>8, ChainsAreNext
  <2>2. /\ ToSet(chains'[A]) \cup ToSet(chains'[ProdLabel(p)]) = ToSet(chains[A]) \cup ToSet(chains[ProdLabel(p)])
        /\ ToSet(chains'[A]) \cap ToSet(chains'[ProdLabel(p)]) = {}
    BY <1>4, <1>5, <1>6, <1>7, <2>1
  <2>3. \A q \in Producer : prod'[q].blocks = prod[q].blocks \/ ProdLabel(q) \in {A, ProdLabel(p)}
    BY <1>8
  <2>4. giving' = giving /\ cons' = cons
    BY <1>1
  <2>5. QED
    BY ZenonT(40), <1>0, <1>4, <1>5, <1>6, <1>7, <1>10, <2>1, <2>2, <2>3, <2>4, OwnedMove
<1>12. TopicsOK'
  BY SMTT(40), <1>0, <1>1, <1>2, <1>4 DEF TopicsOK, subVars, TopicOf
<1>13. ProdOK'
  <2>1. Len(got) + 1 < prod[p].need \/ last
    BY <1>2, <1>3
  <2>2. \A q \in Producer \ {p} : prod[q].pc = "alloc" => prod[q].blocks = <<>>
    BY <1>0 DEF ProdOK
  <2>3. QED
    BY SMTT(40), <1>0, <1>1, <1>2, <1>3, <1>7, <1>8, <2>1, <2>2, BusAssumption DEF ProdOK
<1>14. QED
  BY <1>0, <1>9, <1>10, <1>11, <1>12, <1>13 DEF BusInv, ConsOK

\* What is being given back.
LEMMA GivingIs ==
    ASSUME BusTypeOK, Owned, TopicsOK, giving # Nothing
    PROVE  /\ giving.topic \in Topic /\ giving.topic \in ToSet(topics)
           /\ giving.blocks \in Seq(Block) /\ giving.blocks # <<>> /\ NoDup(giving.blocks)
<1>1. giving.blocks \in Seq(Block)
  BY DEF BusTypeOK
<1>2. NoDup(giving.blocks)
  BY LabelsAre, ChainsAre DEF Owned, Partition
<1>3. \A x \in ToSet(topics) : x \in Topic
  BY LenProperties, ElementOfSeq DEF BusTypeOK, ToSet
<1>4. QED
  BY <1>1, <1>2, <1>3 DEF TopicsOK

\* A block of the chain goes where it is owed.
LEMMA FreeChainStep ==
    ASSUME BusInv, free_chain
    PROVE  BusInv'
<1> DEFINE t == giving.topic
           c == giving.blocks
           b == Head(c)
<1>0. BusTypeOK /\ Owned /\ TopicsOK /\ ProdOK /\ QueueOK /\ RefsExact /\ SubsOK /\ ConsOK
  BY DEF BusInv
<1>1. /\ giving # Nothing /\ give_one(t, b) /\ Bump(b)
      /\ giving' = IF Len(c) = 1 THEN Nothing ELSE [giving EXCEPT !.blocks = Tail(@)]
      /\ UNCHANGED <<use, topics, queue, data, subVars, alloc, purging, prod, calls, log>>
  BY DEF free_chain
<1>2. t \in Topic /\ t \in ToSet(topics) /\ c \in Seq(Block) /\ c # <<>> /\ NoDup(c)
  BY <1>0, <1>1, GivingIs
<1>3. /\ b \in Block /\ b \in ToSet(c) /\ Tail(c) \in Seq(Block) /\ NoDup(Tail(c))
      /\ ToSet(Tail(c)) = ToSet(c) \ {b}
  BY <1>2, TailRange
\* What is left of the chain.
<1>4. giving' \in [topic : Topic \cup {NONE}, blocks : Seq(Block)] /\ giving'.blocks = Tail(c)
      /\ (giving' # Nothing => giving'.topic = t /\ giving'.blocks # <<>>)
  <2>1. CASE Len(c) = 1
    <3>1. Len(Tail(c)) = 0
      BY <1>2, <2>1, HeadTailProperties
    <3>2. Tail(c) = <<>>
      BY <1>3, <3>1, EmptySeq
    <3>3. <<>> \in Seq(Block)
      BY EmptySeq
    <3>4. QED
      BY <1>1, <2>1, <3>2, <3>3 DEF Nothing
  <2>2. CASE Len(c) # 1
    <3>1. Len(Tail(c)) # 0
      BY <1>2, <2>2, HeadTailProperties, LenProperties
    <3>2. Tail(c) # <<>>
      BY <3>1, EmptySeq
    <3>3. giving' = [giving EXCEPT !.blocks = Tail(@)]
      BY <1>1, <2>2
    <3>4. giving' \in [topic : Topic \cup {NONE}, blocks : Seq(Block)] /\ giving'.blocks = Tail(c)
          /\ giving'.topic = t
      BY <1>0, <1>3, <3>3 DEF BusTypeOK
    <3>5. QED
      BY <3>2, <3>4
  <2>3. QED
    BY <2>1, <2>2
\* Where the block goes.
<1>5. PICK A \in Label :
        /\ A # GivingLabel /\ chains[A] \in Seq(Block)
        /\ chains'[A] = <<b>> \o chains[A]
        /\ free' = free \/ FreeLabel = A
        /\ \A u \in Topic : stash'[u] = stash[u] \/ StashLabel(u) = A
        /\ stash' \in [Topic -> Seq(Block)] /\ free' \in Seq(Block)
        /\ \A u \in Topic : u \notin ToSet(topics) => stash'[u] = <<>>
        /\ lent' \in [Topic -> Nat] /\ borrowed' \in [Topic -> Nat]
        /\ \A u \in Topic : borrowed'[u] > 0 => u \in Overwriting
  <2> HIDE DEF t, c, b
  <2>0. /\ free \in Seq(Block) /\ stash \in [Topic -> Seq(Block)]
        /\ lent \in [Topic -> Nat] /\ borrowed \in [Topic -> Nat]
        /\ \A u \in Topic : borrowed[u] > 0 => u \in Overwriting
        /\ \A u \in Topic : u \notin ToSet(topics) => stash[u] = <<>>
    BY <1>0 DEF BusTypeOK, TopicsOK
  <2>1. \A q \in Seq(Block) : <<b>> \o q \in Seq(Block)
    BY <1>3, PushRange
  <2>2. ASSUME NEW l \in Topic, l \in ToSet(topics), stash' = [stash EXCEPT ![l] = <<b>> \o @]
        PROVE  /\ StashLabel(l) \in Label /\ StashLabel(l) # GivingLabel
               /\ chains[StashLabel(l)] \in Seq(Block)
               /\ chains'[StashLabel(l)] = <<b>> \o chains[StashLabel(l)]
               /\ \A u \in Topic : stash'[u] = stash[u] \/ StashLabel(u) = StashLabel(l)
               /\ stash' \in [Topic -> Seq(Block)]
               /\ \A u \in Topic : u \notin ToSet(topics) => stash'[u] = <<>>
    <3>1. StashLabel(l) \in Label /\ StashLabel(l) # GivingLabel
      BY LabelsAre, LabelsDiffer
    <3>2. chains[StashLabel(l)] = stash[l] /\ chains'[StashLabel(l)] = <<b>> \o stash[l]
      BY <2>0, <2>2, ChainsAre, ChainsAreNext
    <3>3. QED
      BY <2>0, <2>1, <2>2, <3>1, <3>2
  <2>3. CASE /\ borrowed[t] > 0
             /\ \E l \in Topic :
                  /\ FirstTopic(l, {x \in Topic : lent[x] > 0})
                  /\ stash' = [stash EXCEPT ![l] = <<b>> \o @]
                  /\ lent' = [lent EXCEPT ![l] = @ - 1]
             /\ borrowed' = [borrowed EXCEPT ![t] = @ - 1]
             /\ UNCHANGED free
    <3>1. PICK l \in Topic : /\ FirstTopic(l, {x \in Topic : lent[x] > 0})
                             /\ stash' = [stash EXCEPT ![l] = <<b>> \o @]
                             /\ lent' = [lent EXCEPT ![l] = @ - 1]
      BY <2>3
    <3>2. l \in ToSet(topics) /\ lent[l] > 0
      BY <3>1 DEF FirstTopic, ToSet
    <3>3. lent' \in [Topic -> Nat]
      BY <2>0, <3>1, <3>2
    <3>4. borrowed' \in [Topic -> Nat] /\ \A u \in Topic \ {t} : borrowed'[u] = borrowed[u]
      BY SMTT(40), <1>2, <2>0, <2>3
    <3>5. t \in Overwriting
      BY <1>2, <2>0, <2>3
    <3>6. QED
      BY <2>0, <2>2, <2>3, <3>1, <3>2, <3>3, <3>4, <3>5
  <2>4. CASE /\ stash' = [stash EXCEPT ![t] = <<b>> \o @] /\ UNCHANGED <<free, lent, borrowed>>
    BY <1>2, <2>0, <2>2, <2>4
  <2>5. CASE free' = <<b>> \o free /\ UNCHANGED <<stash, lent, borrowed>>
    <3>1. FreeLabel \in Label /\ FreeLabel # GivingLabel
      BY LabelsAre, LabelsDiffer
    <3>2. chains[FreeLabel] = free /\ chains'[FreeLabel] = <<b>> \o free
      BY <2>5, ChainsAre, ChainsAreNext
    <3>3. QED
      BY <2>0, <2>1, <2>5, <3>1, <3>2
  <2>6. QED
    BY <1>1, <2>3, <2>4, <2>5 DEF give_one
<1>6. cons' \in [Sub -> Reading] /\ \A s \in Sub :
        /\ cons'[s].pc = cons[s].pc /\ cons'[s].msg = cons[s].msg /\ cons'[s].at = cons[s].at
        /\ cons'[s].left = cons[s].left /\ cons'[s].out = cons[s].out /\ cons'[s].blocks = cons[s].blocks
        /\ cons'[s].same <=> cons[s].same /\ cons[s].msg # b
  <2>1. ASSUME NEW s \in Sub
        PROVE  LET d == [cons[s] EXCEPT !.same = @ /\ cons[s].msg # b]
               IN /\ d \in Reading
                  /\ d.pc = cons[s].pc /\ d.msg = cons[s].msg /\ d.at = cons[s].at
                  /\ d.left = cons[s].left /\ d.out = cons[s].out /\ d.blocks = cons[s].blocks
                  /\ d.same <=> cons[s].same /\ cons[s].msg # b
    BY ZenonT(40), <1>0 DEF BusTypeOK, Reading
  <2>2. QED
    BY <1>1, <2>1 DEF Bump
<1>7. BusTypeOK'
  BY <1>0, <1>1, <1>4, <1>5, <1>6 DEF BusTypeOK, subVars
<1>8. /\ QueueOK' /\ SubsOK' /\ RefsExact' /\ TopicOf' = TopicOf
      /\ \A u \in Topic, k \in Nat : Queued(u, k)' = Queued(u, k)
      /\ \A s \in Sub : s \in subs[TopicOf[s]] => Current(s)' = Current(s)
  BY <1>0, <1>1, <1>7, StayStep DEF subVars
<1>9. Owned'
  <2>1. GivingLabel \in Label /\ chains[GivingLabel] = c /\ chains'[GivingLabel] = Tail(c)
    BY <1>4, LabelsAre, ChainsAre, ChainsAreNext
  <2>2. NoDup(chains[A]) /\ ToSet(chains[A]) \cap ToSet(c) = {}
    BY <1>0, <1>5, <2>1 DEF Owned, Partition
  <2>3. /\ chains'[A] \in Seq(Block) /\ NoDup(chains'[A])
        /\ ToSet(chains'[A]) = ToSet(chains[A]) \cup {b}
    BY <1>3, <1>5, <2>2, PushRange
  <2>4. /\ ToSet(chains'[A]) \cup ToSet(chains'[GivingLabel]) = ToSet(chains[A]) \cup ToSet(chains[GivingLabel])
        /\ ToSet(chains'[A]) \cap ToSet(chains'[GivingLabel]) = {}
    BY <1>3, <2>1, <2>2, <2>3
  <2>5. prod' = prod /\ \A s \in Sub : cons'[s].blocks = cons[s].blocks
    BY <1>1, <1>6
  <2>6. chains'[GivingLabel] \in Seq(Block) /\ NoDup(chains'[GivingLabel])
    BY <1>3, <2>1
  <2>7. \A u \in Topic : stash'[u] = stash[u] \/ StashLabel(u) \in {A, GivingLabel}
    BY <1>5
  <2> HIDE DEF t, c, b
  <2>8. QED
    BY ZenonT(40), <1>0, <1>5, <1>8, <2>1, <2>3, <2>4, <2>5, <2>6, <2>7, OwnedMove
<1>10. TopicsOK'
  BY <1>0, <1>1, <1>2, <1>4, <1>5 DEF TopicsOK, subVars, TopicOf
<1>11. ProdOK'
  BY <1>0, <1>1 DEF ProdOK
<1>12. ASSUME NEW s \in Sub PROVE ConsOn(s)'
  <2>1. ConsOn(s)
    BY <1>0 DEF ConsOK
  <2>2. cursor' = cursor /\ peeked' = peeked /\ expect' = expect /\ subs' = subs /\ log' = log
    BY <1>1 DEF subVars
  <2>3. s \in subs[TopicOf[s]] => Published(s, Current(s))' = Published(s, Current(s))
    BY <1>8, <2>2 DEF Published
  <2>4. s \in subs[TopicOf[s]] => (Copying(s) => Copying(s)') /\ (Viewing(s) => Viewing(s)')
    BY <1>6, <1>8, <2>2, <2>3 DEF Copying, Viewing
  <2>5. Delivered(s) => Delivered(s)'
    BY <1>6, <1>8, <2>2 DEF Delivered
  <2>6. cons'[s].same /\ cons[s].msg \in ToSet(giving.blocks) => cons'[s].msg \in ToSet(giving'.blocks)
    BY <1>3, <1>4, <1>6
  <2>7. QED
    BY <1>6, <1>8, <2>1, <2>2, <2>4, <2>5, <2>6 DEF ConsOn
<1>13. QED
  BY <1>0, <1>7, <1>8, <1>9, <1>10, <1>11, <1>12 DEF BusInv, ConsOK

\* alloc_msg gives up what it took.
LEMMA AllocGiveBackStep ==
    ASSUME BusInv, AllocGiveBack
    PROVE  BusInv'
<1> DEFINE p == alloc
           t == prod[p].topic
           got == prod[p].blocks
<1>0. BusTypeOK /\ Owned /\ TopicsOK /\ ProdOK /\ QueueOK /\ RefsExact /\ SubsOK /\ ConsOK
  BY DEF BusInv
<1>1. /\ p # NONE /\ giving = Nothing /\ p \in Producer /\ prod[p].pc = "alloc" /\ purging = NONE
      /\ giving' = IF got = <<>> THEN Nothing ELSE [topic |-> t, blocks |-> got]
      /\ prod' = [prod EXCEPT ![p] = NoMessage] /\ alloc' = NONE
      /\ UNCHANGED <<poolVars, queue, data, subVars, purging, cons, calls, log>>
  BY <1>0 DEF AllocGiveBack, BusTypeOK, ProdOK, TopicsOK
<1>2. t \in Topic /\ t \in ToSet(topics) /\ got \in Seq(Block) /\ NoDup(got)
  BY <1>0, <1>1, ProdIs
<1>3. <<>> \in Seq(Block) /\ NoMessage \in Call
  BY EmptySeq DEF NoMessage, Call
<1>4. /\ giving' \in [topic : Topic \cup {NONE}, blocks : Seq(Block)] /\ giving'.blocks = got
      /\ giving' # Nothing => giving'.topic = t /\ got # <<>>
  BY <1>1, <1>2, <1>3 DEF Nothing
<1>5. /\ prod' \in [Producer -> Call] /\ prod'[p].blocks = <<>> /\ prod'[p].pc = "idle"
      /\ \A q \in Producer \ {p} : prod'[q] = prod[q]
  BY <1>0, <1>1, <1>3 DEF BusTypeOK, NoMessage
<1>6. BusTypeOK'
  BY <1>0, <1>1, <1>4, <1>5 DEF BusTypeOK, subVars, poolVars
<1>7. giving.blocks = <<>>
  BY <1>1 DEF Nothing
<1>8. /\ QueueOK' /\ SubsOK' /\ RefsExact'
      /\ \A u \in Topic, k \in Nat : Queued(u, k)' = Queued(u, k)
      /\ \A s \in Sub : ConsOn(s) => ConsOn(s)'
  BY <1>0, <1>1, <1>6, <1>7, StayStep, EmptyRange DEF subVars, poolVars
<1>9. Owned'
  <2>1. /\ GivingLabel \in Label /\ chains[GivingLabel] = <<>> /\ chains'[GivingLabel] = got
        /\ ProdLabel(p) \in Label /\ chains[ProdLabel(p)] = got /\ chains'[ProdLabel(p)] = <<>>
    BY <1>1, <1>4, <1>5, <1>7, LabelsAre, ChainsAre, ChainsAreNext
  <2>2. /\ \A q \in Producer : prod'[q].blocks = prod[q].blocks \/ ProdLabel(q) \in {GivingLabel, ProdLabel(p)}
        /\ free' = free /\ stash' = stash /\ cons' = cons
    BY <1>1, <1>5 DEF poolVars
  <2>3. /\ ToSet(chains'[GivingLabel]) \cap ToSet(chains'[ProdLabel(p)]) = {}
        /\ ToSet(chains'[GivingLabel]) \cup ToSet(chains'[ProdLabel(p)])
             = ToSet(chains[GivingLabel]) \cup ToSet(chains[ProdLabel(p)])
        /\ chains'[GivingLabel] \in Seq(Block) /\ NoDup(chains'[GivingLabel])
        /\ chains'[ProdLabel(p)] \in Seq(Block) /\ NoDup(chains'[ProdLabel(p)])
    BY <1>2, <1>3, <2>1, EmptyRange
  <2> HIDE DEF p, t, got
  <2>4. QED
    BY <1>0, <1>8, <2>1, <2>2, <2>3, OwnedMove
<1>10. TopicsOK'
  BY <1>0, <1>1, <1>2, <1>4 DEF TopicsOK, subVars, poolVars, TopicOf
<1>11. ProdOK'
  <2>1. \A q \in Producer \ {p} : prod[q].pc = "alloc" => prod[q].blocks = <<>>
    BY <1>0 DEF ProdOK
  <2>2. QED
    BY <1>0, <1>1, <1>5, <2>1 DEF ProdOK, poolVars
<1>12. QED
  BY <1>0, <1>6, <1>8, <1>9, <1>10, <1>11 DEF BusInv, ConsOK

\* The producer fills blocks nobody else has.
LEMMA CopyInStep ==
    ASSUME BusInv, NEW p \in Producer, CopyIn(p)
    PROVE  BusInv'
<1>0. BusTypeOK /\ Owned /\ TopicsOK /\ ProdOK /\ QueueOK /\ RefsExact /\ SubsOK /\ ConsOK
  BY DEF BusInv
<1>1. /\ alloc = NONE /\ prod[p].pc = "copy"
      /\ data' = [b \in Block |-> IF b \in ToSet(prod[p].blocks) THEN prod[p].id ELSE data[b]]
      /\ prod' = [prod EXCEPT ![p].pc = "link"]
      /\ UNCHANGED <<poolVars, queue, subVars, alloc, giving, purging, cons, calls, log>>
  BY DEF CopyIn, Unlocked
<1>2. prod[p] \in Call /\ prod[p].id \in Nat
  BY <1>0, ProdIs DEF Call
<1>3. /\ prod' \in [Producer -> Call] /\ prod'[p].pc = "link" /\ prod'[p].blocks = prod[p].blocks
      /\ prod'[p].topic = prod[p].topic /\ prod'[p].need = prod[p].need /\ prod'[p].id = prod[p].id
      /\ \A q \in Producer \ {p} : prod'[q] = prod[q]
  <2> DEFINE c == [prod[p] EXCEPT !.pc = "link"]
  <2>1. /\ c \in Call /\ c.pc = "link" /\ c.blocks = prod[p].blocks /\ c.topic = prod[p].topic
        /\ c.need = prod[p].need /\ c.id = prod[p].id
    BY <1>2 DEF Call
  <2>2. prod' = [prod EXCEPT ![p] = c]
    BY <1>0, <1>1 DEF BusTypeOK
  <2> HIDE DEF c
  <2>3. QED
    BY <1>0, <2>1, <2>2 DEF BusTypeOK
<1>4. BusTypeOK'
  <2>1. data' \in [Block -> Nat]
    BY <1>0, <1>1, <1>2 DEF BusTypeOK
  <2>2. QED
    BY <1>0, <1>1, <1>3, <2>1 DEF BusTypeOK, subVars, poolVars
<1>5. ASSUME NEW t \in Topic, NEW i \in 1..Len(queue[t]), NEW b \in ToSet(queue[t][i].blocks)
      PROVE  data'[b] = data[b]
  <2>1. /\ queue[t][i].seq \in Nat
        /\ chains[QueueLabel(t, queue[t][i].seq)] = queue[t][i].blocks
    BY <1>0, QueuedAt
  <2>2. /\ QueueLabel(t, queue[t][i].seq) \in Label /\ ProdLabel(p) \in Label
        /\ QueueLabel(t, queue[t][i].seq) # ProdLabel(p)
    BY <2>1, LabelsAre, LabelsDiffer
  <2>3. chains[ProdLabel(p)] = prod[p].blocks
    BY ChainsAre
  <2>4. b \notin ToSet(prod[p].blocks)
    BY <1>0, <2>1, <2>2, <2>3 DEF Owned, Partition
  <2>5. b \in Block
    <3>1. queue[t][i].blocks \in Seq(Block)
      BY <1>0, QueueTypes
    <3>2. QED
      BY <3>1, LenProperties, ElementOfSeq DEF ToSet
  <2>6. QED
    BY <1>1, <2>4, <2>5
<1>6. /\ QueueOK' /\ SubsOK' /\ RefsExact'
      /\ \A u \in Topic, k \in Nat : Queued(u, k)' = Queued(u, k)
      /\ \A s \in Sub : ConsOn(s) => ConsOn(s)'
  BY <1>0, <1>1, <1>4, <1>5, StayStep DEF subVars, poolVars
<1>7. Owned'
  <2>1. \A q \in Producer : prod'[q].blocks = prod[q].blocks
    BY <1>3
  <2>2. QED
    BY <1>0, <1>1, <1>6, <2>1, OwnedKept DEF poolVars
<1>8. TopicsOK'
  BY <1>0, <1>1 DEF TopicsOK, subVars, poolVars, TopicOf
<1>9. ProdOK'
  <2>1. ASSUME NEW q \in Producer, prod'[q].pc = "link", NEW b \in ToSet(prod'[q].blocks)
        PROVE  data'[b] = prod'[q].id
    <3>1. prod'[q].blocks = prod[q].blocks /\ prod[q].blocks \in Seq(Block)
      BY <1>0, <1>3, ProdIs
    <3>2. b \in Block
      BY <2>1, <3>1, LenProperties, ElementOfSeq DEF ToSet
    <3>3. CASE q = p
      BY <1>1, <1>3, <2>1, <3>1, <3>2, <3>3
    <3>4. CASE q # p
      <4>1. ProdLabel(p) \in Label /\ ProdLabel(q) \in Label /\ ProdLabel(p) # ProdLabel(q)
        BY <3>4, LabelsAre, LabelsDiffer
      <4>2. chains[ProdLabel(p)] = prod[p].blocks /\ chains[ProdLabel(q)] = prod[q].blocks
        BY ChainsAre
      <4>3. b \notin ToSet(prod[p].blocks)
        BY <1>0, <2>1, <3>1, <4>1, <4>2 DEF Owned, Partition
      <4>4. prod'[q] = prod[q]
        BY <1>3, <3>4
      <4>5. data[b] = prod[q].id
        BY <1>0, <2>1, <4>4 DEF ProdOK
      <4>6. QED
        BY <1>1, <3>2, <4>3, <4>4, <4>5
    <3>5. QED
      BY <3>3, <3>4
  <2>2. QED
    <3>1. topics' = topics /\ alloc' = alloc /\ alloc = NONE
      BY <1>1 DEF poolVars
    <3>2. ASSUME NEW q \in Producer
          PROVE  /\ prod'[q].pc = "idle" => prod'[q].blocks = <<>>
                 /\ prod'[q].pc # "idle" => prod'[q].topic \in ToSet(topics') /\ prod'[q].need > 0
                 /\ prod'[q].pc = "alloc" =>
                      /\ Len(prod'[q].blocks) < prod'[q].need
                      /\ alloc' # q => prod'[q].blocks = <<>>
                 /\ prod'[q].pc \in {"copy", "link", "free"} => Len(prod'[q].blocks) = prod'[q].need
      <4>1. CASE q = p
        BY <1>0, <1>1, <1>3, <3>1, <4>1 DEF ProdOK
      <4>2. CASE q # p
        BY <1>0, <1>3, <3>1, <4>2 DEF ProdOK
      <4>3. QED
        BY <4>1, <4>2
    <3>3. QED
      BY <2>1, <3>1, <3>2 DEF ProdOK
<1>10. QED
  BY <1>0, <1>4, <1>6, <1>7, <1>8, <1>9 DEF BusInv, ConsOK

\* A ticket given back, or a message nobody waits for.
LEMMA CancelStep ==
    ASSUME BusInv, NEW p \in Producer, v_bus_cancel(p)
    PROVE  BusInv'
<1> DEFINE t == prod[p].topic
           got == prod[p].blocks
<1>0. BusTypeOK /\ Owned /\ TopicsOK /\ ProdOK /\ QueueOK /\ RefsExact /\ SubsOK /\ ConsOK
  BY DEF BusInv
<1>1. /\ alloc = NONE /\ giving = Nothing /\ prod[p].pc \in {"free", "link"}
      /\ giving' = [topic |-> t, blocks |-> got] /\ prod' = [prod EXCEPT ![p] = NoMessage]
      /\ UNCHANGED <<poolVars, queue, data, subVars, alloc, purging, cons, calls, log>>
  BY DEF v_bus_cancel, Unlocked
<1>2. t \in Topic /\ t \in ToSet(topics) /\ got \in Seq(Block) /\ NoDup(got) /\ got # <<>>
  <2>1. Len(got) > 0
    BY <1>0, <1>1 DEF ProdOK
  <2>2. QED
    BY <1>0, <1>1, <2>1, ProdIs, EmptySeq
<1>3. <<>> \in Seq(Block) /\ NoMessage \in Call
  BY EmptySeq DEF NoMessage, Call
<1>4. /\ giving' \in [topic : Topic \cup {NONE}, blocks : Seq(Block)]
      /\ giving'.blocks = got /\ giving'.topic = t
  BY <1>1, <1>2
<1>5. /\ prod' \in [Producer -> Call] /\ prod'[p].blocks = <<>> /\ prod'[p].pc = "idle"
      /\ \A q \in Producer \ {p} : prod'[q] = prod[q]
  BY <1>0, <1>1, <1>3 DEF BusTypeOK, NoMessage
<1>6. BusTypeOK'
  BY <1>0, <1>1, <1>4, <1>5 DEF BusTypeOK, subVars, poolVars
<1>7. giving.blocks = <<>>
  BY <1>1 DEF Nothing
<1>8. /\ QueueOK' /\ SubsOK' /\ RefsExact'
      /\ \A u \in Topic, k \in Nat : Queued(u, k)' = Queued(u, k)
      /\ \A s \in Sub : ConsOn(s) => ConsOn(s)'
  BY <1>0, <1>1, <1>6, <1>7, StayStep, EmptyRange DEF subVars, poolVars
<1>9. Owned'
  <2>1. /\ GivingLabel \in Label /\ chains[GivingLabel] = <<>> /\ chains'[GivingLabel] = got
        /\ ProdLabel(p) \in Label /\ chains[ProdLabel(p)] = got /\ chains'[ProdLabel(p)] = <<>>
    BY <1>1, <1>4, <1>5, <1>7, LabelsAre, ChainsAre, ChainsAreNext
  <2>2. /\ \A q \in Producer : prod'[q].blocks = prod[q].blocks \/ ProdLabel(q) \in {GivingLabel, ProdLabel(p)}
        /\ free' = free /\ stash' = stash /\ cons' = cons
    BY <1>1, <1>5 DEF poolVars
  <2>3. /\ ToSet(chains'[GivingLabel]) \cap ToSet(chains'[ProdLabel(p)]) = {}
        /\ ToSet(chains'[GivingLabel]) \cup ToSet(chains'[ProdLabel(p)])
             = ToSet(chains[GivingLabel]) \cup ToSet(chains[ProdLabel(p)])
        /\ chains'[GivingLabel] \in Seq(Block) /\ NoDup(chains'[GivingLabel])
        /\ chains'[ProdLabel(p)] \in Seq(Block) /\ NoDup(chains'[ProdLabel(p)])
    BY <1>2, <1>3, <2>1, EmptyRange
  <2> HIDE DEF t, got
  <2>4. QED
    BY <1>0, <1>8, <2>1, <2>2, <2>3, OwnedMove
<1>10. TopicsOK'
  BY <1>0, <1>1, <1>2, <1>4 DEF TopicsOK, subVars, poolVars, TopicOf
<1>11. ProdOK'
  BY <1>0, <1>1, <1>5 DEF ProdOK, poolVars
<1>12. QED
  BY <1>0, <1>6, <1>8, <1>9, <1>10, <1>11 DEF BusInv, ConsOK

\* A reader's state and what it owns.
LEMMA ConsIs ==
    ASSUME BusTypeOK, Owned, NEW s \in Sub
    PROVE  /\ cons[s] \in Reading /\ cons[s].blocks \in Seq(Block) /\ NoDup(cons[s].blocks)
           /\ TopicOf[s] \in Topic /\ cons[s].out \in Seq(Int) /\ Len(cons[s].out) \in Nat
           /\ cons[s].left \in Int /\ cons[s].at \in Block \cup {NIL}
<1>1. cons[s] \in Reading
  BY DEF BusTypeOK
<1>2. NoDup(cons[s].blocks)
  BY LabelsAre, ChainsAre DEF Owned, Partition
<1>3. cons[s].blocks \in Seq(Block) /\ cons[s].out \in Seq(Int) /\ cons[s].left \in Int
      /\ cons[s].at \in Block \cup {NIL}
  BY <1>1 DEF Reading
<1>4. QED
  BY <1>1, <1>2, <1>3, UseIs, LenProperties

\* Only the state of reader s changes: cons[s] becomes c.
LEMMA ReaderStep ==
    ASSUME BusInv, NEW s \in Sub, NEW c \in Reading, cons' = [cons EXCEPT ![s] = c],
           c.blocks = cons[s].blocks,
           UNCHANGED <<poolVars, queue, data, subVars, alloc, giving, purging, prod, calls, log>>
    PROVE  /\ BusTypeOK' /\ Owned' /\ TopicsOK' /\ ProdOK' /\ QueueOK' /\ SubsOK' /\ RefsExact'
           /\ TopicOf' = TopicOf /\ cons'[s] = c
           /\ s \in subs[TopicOf[s]] =>
                Current(s)' = Current(s) /\ Published(s, Current(s))' = Published(s, Current(s))
           /\ ConsOn(s)' => ConsOK'
<1>0. BusTypeOK /\ Owned /\ TopicsOK /\ ProdOK /\ QueueOK /\ RefsExact /\ SubsOK /\ ConsOK
  BY DEF BusInv
<1>1. /\ cons' \in [Sub -> Reading] /\ cons'[s] = c /\ \A r \in Sub \ {s} : cons'[r] = cons[r]
  BY <1>0 DEF BusTypeOK
<1>2. BusTypeOK'
  BY <1>0, <1>1 DEF BusTypeOK, subVars, poolVars
<1>3. /\ QueueOK' /\ SubsOK' /\ RefsExact' /\ TopicOf' = TopicOf
      /\ \A t \in Topic, n \in Nat : Queued(t, n)' = Queued(t, n)
      /\ \A r \in Sub : r \in subs[TopicOf[r]] => Current(r)' = Current(r)
      /\ \A r \in Sub \ {s} : ConsOn(r) => ConsOn(r)'
  BY <1>0, <1>1, <1>2, StayStep DEF subVars, poolVars
<1>4. Owned'
  BY <1>0, <1>1, <1>3, OwnedKept DEF poolVars
<1>5. TopicsOK' /\ ProdOK'
  BY <1>0 DEF TopicsOK, ProdOK, subVars, poolVars, TopicOf
<1>6. s \in subs[TopicOf[s]] => Published(s, Current(s))' = Published(s, Current(s))
  BY <1>3 DEF Published
<1>7. QED
  BY <1>0, <1>1, <1>2, <1>3, <1>4, <1>5, <1>6 DEF ConsOK

\* A reader looks at the message it has in place.
LEMMA ViewReadStep ==
    ASSUME BusInv, NEW s \in Sub, ViewRead(s)
    PROVE  BusInv'
<1>0. BusTypeOK /\ Owned /\ TopicsOK /\ ProdOK /\ QueueOK /\ RefsExact /\ SubsOK /\ ConsOK
  BY DEF BusInv
<1>1. /\ cons[s].pc = "view"
      /\ cons' = [cons EXCEPT ![s].pc = "viewed", ![s].out = <<data[peeked[s]]>>]
      /\ UNCHANGED <<poolVars, queue, data, subVars, alloc, giving, purging, prod, calls, log>>
  BY DEF ViewRead
<1>2. /\ ConsOn(s) /\ Viewing(s) /\ s \in subs[TopicOf[s]] /\ cons[s] \in Reading /\ TopicOf[s] \in Topic
      /\ cons[s].blocks = <<>>
  BY SMTT(40), <1>0, <1>1, ConsIs DEF ConsOK, ConsOn
\* The view is the first, and only, block of the message.
<1>3. /\ peeked[s] \in Block /\ data[peeked[s]] = Published(s, Current(s)) /\ data[peeked[s]] \in Int
  <2> DEFINE t == TopicOf[s]
             u == Unread(t, s)
  <2>1. u \in 1..Len(queue[t]) /\ cursor[s] = Head(queue[t][u].blocks) /\ peeked[s] = cursor[s]
    BY <1>0, <1>2, UnreadIs DEF Viewing
  <2>2. /\ Head(queue[t][u].blocks) \in Block /\ Head(queue[t][u].blocks) \in ToSet(queue[t][u].blocks)
        /\ Whole(t, queue[t][u])
    BY SMTT(40), <1>0, <1>2, <2>1, QueueTypes
  <2>3. data[peeked[s]] = log[t][queue[t][u].seq + 1].id
    BY ZenonT(40), <2>1, <2>2 DEF Whole
  <2>4. data[peeked[s]] \in Int
    BY SMTT(40), <1>0, <2>1, <2>2 DEF BusTypeOK
  <2>5. QED
    BY <2>1, <2>2, <2>3, <2>4 DEF Published, Current
<1>4. PICK c : c = [cons[s] EXCEPT !.pc = "viewed", !.out = <<data[peeked[s]]>>]
  OBVIOUS
<1>5. <<data[peeked[s]]>> \in Seq(Int)
  BY <1>3
<1>6. /\ c \in Reading /\ c.pc = "viewed" /\ c.out = <<data[peeked[s]]>> /\ c.blocks = cons[s].blocks
  BY <1>2, <1>4, <1>5 DEF Reading
<1>7. cons' = [cons EXCEPT ![s] = c]
  BY <1>0, <1>1, <1>4 DEF BusTypeOK
<1>8. /\ BusTypeOK' /\ Owned' /\ TopicsOK' /\ ProdOK' /\ QueueOK' /\ SubsOK' /\ RefsExact'
      /\ TopicOf' = TopicOf /\ cons'[s] = c
      /\ Current(s)' = Current(s) /\ Published(s, Current(s))' = Published(s, Current(s))
      /\ ConsOn(s)' => ConsOK'
  BY <1>1, <1>2, <1>6, <1>7, ReaderStep
<1>9. Viewing(s)'
  BY <1>1, <1>2, <1>3, <1>6, <1>8 DEF Viewing, subVars
<1>10. ConsOn(s)'
  BY <1>1, <1>2, <1>6, <1>8, <1>9 DEF ConsOn, subVars
<1>11. QED
  BY <1>8, <1>10 DEF BusInv

\* A read returns.
LEMMA PopReturnsStep ==
    ASSUME BusInv, NEW s \in Sub, PopReturns(s)
    PROVE  BusInv'
<1>0. BusTypeOK /\ Owned /\ TopicsOK /\ ProdOK /\ QueueOK /\ RefsExact /\ SubsOK /\ ConsOK
  BY DEF BusInv
<1>1. /\ cons[s].pc = "got" /\ cons' = [cons EXCEPT ![s] = NoRead]
      /\ UNCHANGED <<poolVars, queue, data, subVars, alloc, giving, purging, prod, calls, log>>
  BY DEF PopReturns
<1>2. /\ ConsOn(s) /\ cons[s].blocks = <<>> /\ (s \in subs[TopicOf[s]] => peeked[s] = NIL)
  BY <1>0, <1>1 DEF ConsOK, ConsOn
<1>3. NoRead \in Reading /\ NoRead.pc = "idle" /\ NoRead.blocks = <<>>
  BY EmptySeq DEF NoRead, Reading
<1>4. /\ BusTypeOK' /\ Owned' /\ TopicsOK' /\ ProdOK' /\ QueueOK' /\ SubsOK' /\ RefsExact'
      /\ TopicOf' = TopicOf /\ cons'[s] = NoRead
      /\ ConsOn(s)' => ConsOK'
  BY <1>1, <1>2, <1>3, ReaderStep
<1>5. ConsOn(s)'
  BY <1>1, <1>2, <1>3, <1>4 DEF ConsOn, subVars
<1>6. QED
  BY <1>4, <1>5 DEF BusInv

\* v_bus_pop notes where the copy starts.
LEMMA PopStep ==
    ASSUME BusInv, NEW s \in Sub, v_bus_pop(s)
    PROVE  BusInv'
<1> DEFINE t == TopicOf[s]
           u == Unread(t, s)
<1>0. BusTypeOK /\ Owned /\ TopicsOK /\ ProdOK /\ QueueOK /\ RefsExact /\ SubsOK /\ ConsOK
  BY DEF BusInv
<1>1. /\ s \in subs[t] /\ peeked[s] = NIL /\ cons[s].pc \in {"idle", "retry"}
      /\ UNCHANGED <<poolVars, queue, data, subVars, alloc, giving, purging, prod, calls, log>>
  BY DEF v_bus_pop
<1>2. t \in Topic /\ ConsOn(s) /\ cons[s].blocks = <<>>
  BY <1>0, <1>1, ConsIs DEF ConsOK, ConsOn
<1>3. NoRead \in Reading /\ NoRead.pc = "idle" /\ NoRead.blocks = <<>>
  BY EmptySeq DEF NoRead, Reading
<1>4. CASE cons' = [cons EXCEPT ![s] = NoRead]
  <2>1. /\ BusTypeOK' /\ Owned' /\ TopicsOK' /\ ProdOK' /\ QueueOK' /\ SubsOK' /\ RefsExact'
        /\ TopicOf' = TopicOf /\ cons'[s] = NoRead
        /\ ConsOn(s)' => ConsOK'
    BY <1>1, <1>2, <1>3, <1>4, ReaderStep
  <2>2. ConsOn(s)'
    BY <1>1, <1>2, <1>3, <2>1 DEF ConsOn, subVars
  <2>3. QED
    BY <2>1, <2>2 DEF BusInv
<1>5. CASE /\ cursor[s] # NIL
           /\ cons' = [cons EXCEPT ![s] =
                [NoRead EXCEPT !.pc = "copy", !.msg = cursor[s], !.at = cursor[s],
                               !.left = Len(queue[t][At(t, cursor[s])].blocks)]]
  <2>1. /\ u \in 1..Len(queue[t]) /\ cursor[s] = Head(queue[t][u].blocks) /\ At(t, cursor[s]) = u
    BY <1>0, <1>1, <1>2, <1>5, UnreadIs
  <2>2. /\ queue[t][u].blocks \in Seq(Block) /\ queue[t][u].blocks # <<>> /\ cursor[s] \in Block
    BY <1>0, <1>2, <2>1, QueueTypes
  <2>3. PICK left \in Nat \ {0} : left = Len(queue[t][u].blocks)
    BY <2>2, EmptySeq
  <2>4. PICK c : c = [NoRead EXCEPT !.pc = "copy", !.msg = cursor[s], !.at = cursor[s], !.left = left]
    OBVIOUS
  <2>5. /\ c \in Reading /\ c.pc = "copy" /\ c.msg = cursor[s] /\ c.at = cursor[s] /\ c.left = left
        /\ c.out = <<>> /\ c.blocks = <<>>
    <3>1. <<>> \in Seq(Int) /\ <<>> \in Seq(Block) /\ left \in Int
      BY <2>3, EmptySeq
    <3>2. QED
      BY <2>2, <2>4, <3>1 DEF Reading, NoRead
  <2>6. cons' = [cons EXCEPT ![s] = c]
    BY ZenonT(40), <1>5, <2>1, <2>3, <2>4
  <2>7. /\ BusTypeOK' /\ Owned' /\ TopicsOK' /\ ProdOK' /\ QueueOK' /\ SubsOK' /\ RefsExact'
        /\ TopicOf' = TopicOf /\ cons'[s] = c
        /\ Current(s)' = Current(s) /\ Published(s, Current(s))' = Published(s, Current(s))
        /\ ConsOn(s)' => ConsOK'
    BY <1>1, <1>2, <2>5, <2>6, ReaderStep
  <2>8. Current(s) = queue[t][u] /\ Current(s).blocks[1] = cursor[s]
    BY <2>1, <2>2, HeadTailProperties DEF Current
  <2>9. Copying(s)'
    <3>1. Len(<<>>) = 0 /\ 0 + left = left /\ left >= 0 /\ left > 0 /\ 0 + 1 = 1
      BY <2>3, EmptySeq
    <3>2. Len(c.out) = 0 /\ Len(c.out) + 1 = 1 /\ c.left = Len(Current(s).blocks)
      BY <2>3, <2>5, <2>8, <3>1
    <3>3. Len(c.out) + c.left = Len(Current(s).blocks) /\ 1..Len(c.out) = {}
      BY <2>3, <2>5, <2>8, <3>2
    <3>4. cursor' = cursor
      BY <1>1 DEF subVars
    <3> HIDE DEF t, u
    <3>5. QED
      BY <1>5, <2>5, <2>7, <2>8, <3>1, <3>2, <3>3, <3>4 DEF Copying
  <2>10. ConsOn(s)'
    BY <1>1, <1>2, <2>5, <2>7, <2>9 DEF ConsOn, subVars
  <2>11. QED
    BY <2>7, <2>10 DEF BusInv
<1>6. QED
  BY <1>4, <1>5 DEF v_bus_pop

\* What Homes lists for a holder.
HomeOf(L) ==
    IF L[1] = "queue" THEN <<L[1], <<L[2], L[3] - Oldest(L[2]) + 1>>, chains[L]>>
    ELSE <<L[1], L[2], chains[L]>>

\* Homes lists the holders, and none of them twice.
LEMMA HomesAre ==
    ASSUME BusTypeOK, QueueOK
    PROVE  /\ \A h \in Homes : \E L \in Label : h = HomeOf(L) /\ h[3] = chains[L]
           /\ \A L \in Label : chains[L] # <<>> => \E h \in Homes : h[3] = chains[L]
<1>1. ASSUME NEW h \in Homes PROVE \E L \in Label : h = HomeOf(L) /\ h[3] = chains[L]
  <2>1. CASE h = <<"free", NONE, free>>
    <3>1. HomeOf(FreeLabel) = h /\ h[3] = chains[FreeLabel]
      BY <2>1, ChainsAre DEF HomeOf, FreeLabel
    <3>2. QED
      BY <3>1, LabelsAre
  <2>2. CASE h = <<"giving", NONE, giving.blocks>>
    <3>1. HomeOf(GivingLabel) = h /\ h[3] = chains[GivingLabel]
      BY <2>2, ChainsAre DEF HomeOf, GivingLabel
    <3>2. QED
      BY <3>1, LabelsAre
  <2>3. ASSUME NEW t \in Topic, h = <<"stash", t, stash[t]>>
        PROVE  \E L \in Label : h = HomeOf(L) /\ h[3] = chains[L]
    <3>1. HomeOf(StashLabel(t)) = h /\ h[3] = chains[StashLabel(t)]
      BY <2>3, ChainsAre DEF HomeOf, StashLabel
    <3>2. QED
      BY <3>1, LabelsAre
  <2>4. ASSUME NEW p \in Producer, h = <<"prod", p, prod[p].blocks>>
        PROVE  \E L \in Label : h = HomeOf(L) /\ h[3] = chains[L]
    <3>1. HomeOf(ProdLabel(p)) = h /\ h[3] = chains[ProdLabel(p)]
      BY <2>4, ChainsAre DEF HomeOf, ProdLabel
    <3>2. QED
      BY <3>1, LabelsAre
  <2>5. ASSUME NEW s \in Sub, h = <<"cons", s, cons[s].blocks>>
        PROVE  \E L \in Label : h = HomeOf(L) /\ h[3] = chains[L]
    <3>1. HomeOf(ConsLabel(s)) = h /\ h[3] = chains[ConsLabel(s)]
      BY <2>5, ChainsAre DEF HomeOf, ConsLabel
    <3>2. QED
      BY <3>1, LabelsAre
  <2>6. ASSUME NEW t \in Topic, NEW i \in DOMAIN queue[t], h = <<"queue", <<t, i>>, queue[t][i].blocks>>
        PROVE  \E L \in Label : h = HomeOf(L) /\ h[3] = chains[L]
    <3>1. i \in 1..Len(queue[t])
      BY QueueTypes
    <3>2. PICK n \in Nat : n = queue[t][i].seq
      BY <3>1, QueuedAt
    <3>3. chains[QueueLabel(t, n)] = queue[t][i].blocks
      BY <3>1, <3>2, QueuedAt
    <3>4. n - Oldest(t) + 1 = i
      <4>1. PICK o \in Nat : o = Oldest(t)
        BY QueueTypes
      <4>2. n = o + i - 1
        BY <3>1, <3>2, <4>1, QueueTypes
      <4>3. i \in Int
        BY <3>1
      <4>4. QED
        BY <4>1, <4>2, <4>3
    <3>5. HomeOf(QueueLabel(t, n)) = h /\ h[3] = chains[QueueLabel(t, n)]
      BY <2>6, <3>3, <3>4 DEF HomeOf, QueueLabel
    <3>6. QED
      BY <3>5, LabelsAre
  <2>7. QED
    BY <2>1, <2>2, <2>3, <2>4, <2>5, <2>6 DEF Homes
<1>2. ASSUME NEW L \in Label, chains[L] # <<>> PROVE \E h \in Homes : h[3] = chains[L]
  <2>1. CASE L = FreeLabel
    <3>1. <<"free", NONE, free>> \in Homes
      BY DEF Homes
    <3>2. QED
      BY <2>1, <3>1, ChainsAre
  <2>2. CASE L = GivingLabel
    <3>1. <<"giving", NONE, giving.blocks>> \in Homes
      BY DEF Homes
    <3>2. QED
      BY <2>2, <3>1, ChainsAre
  <2>3. ASSUME NEW t \in Topic, L = StashLabel(t) PROVE \E h \in Homes : h[3] = chains[L]
    <3>1. <<"stash", t, stash[t]>> \in Homes
      BY DEF Homes
    <3>2. QED
      BY <2>3, <3>1, ChainsAre
  <2>4. ASSUME NEW p \in Producer, L = ProdLabel(p) PROVE \E h \in Homes : h[3] = chains[L]
    <3>1. <<"prod", p, prod[p].blocks>> \in Homes
      BY DEF Homes
    <3>2. QED
      BY <2>4, <3>1, ChainsAre
  <2>5. ASSUME NEW s \in Sub, L = ConsLabel(s) PROVE \E h \in Homes : h[3] = chains[L]
    <3>1. <<"cons", s, cons[s].blocks>> \in Homes
      BY DEF Homes
    <3>2. QED
      BY <2>5, <3>1, ChainsAre
  <2>6. ASSUME NEW t \in Topic, NEW n \in Nat, L = QueueLabel(t, n) PROVE \E h \in Homes : h[3] = chains[L]
    <3>1. Queued(t, n) # <<>> /\ chains[L] = Queued(t, n)
      BY <1>2, <2>6, ChainsAre
    <3>2. PICK o \in Nat, l \in Nat : o = Oldest(t) /\ l = Len(queue[t]) /\ o + l = Len(log[t])
      BY QueueTypes
    <3>3. o <= n /\ n < o + l /\ Queued(t, n) = queue[t][n - o + 1].blocks
      BY <3>1, <3>2 DEF Queued
    <3>4. n - o + 1 \in 1..l
      BY <3>2, <3>3, <2>6
    <3>5. n - o + 1 \in DOMAIN queue[t]
      BY <3>2, <3>4, QueueTypes
    <3>6. <<"queue", <<t, n - o + 1>>, queue[t][n - o + 1].blocks>> \in Homes
      BY <3>5 DEF Homes
    <3>7. QED
      BY <3>1, <3>3, <3>6
  <2>7. QED
    BY LabelCases, <2>1, <2>2, <2>3, <2>4, <2>5, <2>6
<1>3. QED
  BY <1>1, <1>2

\* next follows the chain a block is on.
LEMMA NextIs ==
    ASSUME BusTypeOK, Owned, QueueOK, NEW L \in Label, NEW k \in 1..Len(chains[L])
    PROVE  next(chains[L][k]) = IF k < Len(chains[L]) THEN chains[L][k + 1] ELSE NIL
<1> DEFINE b == chains[L][k]
           H == {h[3] : h \in Homes}
           c == CHOOSE c \in H : b \in ToSet(c)
           i == CHOOSE i \in DOMAIN c : c[i] = b
<1>1. /\ chains[L] \in Seq(Block) /\ NoDup(chains[L])
      /\ DOMAIN chains[L] = 1..Len(chains[L])
  BY LenProperties DEF Owned, Partition
<1>2. b \in ToSet(chains[L]) /\ chains[L] # <<>>
  BY <1>1, EmptySeq DEF ToSet
<1>3. chains[L] \in H
  BY <1>2, HomesAre
<1>4. c \in H /\ b \in ToSet(c)
  BY <1>2, <1>3
<1>5. PICK M \in Label : c = chains[M]
  BY <1>4, HomesAre
<1>6. c = chains[L]
  BY <1>2, <1>4, <1>5 DEF Owned, Partition
<1>7. i \in DOMAIN c /\ c[i] = b
  BY <1>1, <1>6
<1>8. i = k
  BY <1>1, <1>6, <1>7 DEF NoDup
<1>9. next(b) = IF i < Len(c) THEN c[i + 1] ELSE NIL
  BY DEF next
<1>10. QED
  BY <1>6, <1>8, <1>9

\* What follows a block on its chain is a block, or nothing.
LEMMA NextType ==
    ASSUME BusTypeOK, Owned, QueueOK, NEW b \in Block
    PROVE  next(b) \in Block \cup {NIL}
<1>1. PICK L \in Label : b \in ToSet(chains[L])
  BY DEF Owned, Partition
<1>2. chains[L] \in Seq(Block) /\ DOMAIN chains[L] = 1..Len(chains[L]) /\ Len(chains[L]) \in Nat
  BY LenProperties DEF Owned, Partition
<1>3. PICK k \in 1..Len(chains[L]) : b = chains[L][k]
  BY <1>1, <1>2 DEF ToSet
<1>4. next(b) = IF k < Len(chains[L]) THEN chains[L][k + 1] ELSE NIL
  BY <1>3, NextIs
<1>5. k < Len(chains[L]) => k + 1 \in 1..Len(chains[L])
  BY <1>2
<1>6. QED
  BY <1>2, <1>4, <1>5, ElementOfSeq

\* v_bus_pop copies a block and follows the chain.
LEMMA CopyOutStep ==
    ASSUME BusInv, NEW s \in Sub, CopyOut(s)
    PROVE  BusInv'
<1> DEFINE t == TopicOf[s]
           u == Unread(t, s)
<1>0. BusTypeOK /\ Owned /\ TopicsOK /\ ProdOK /\ QueueOK /\ RefsExact /\ SubsOK /\ ConsOK
  BY DEF BusInv
<1>1. /\ cons[s].pc = "copy" /\ giving = Nothing
      /\ UNCHANGED <<poolVars, queue, data, subVars, alloc, giving, purging, prod, calls, log>>
  BY DEF CopyOut, Unlocked
<1>2. /\ t \in Topic /\ ConsOn(s) /\ cons[s].blocks = <<>> /\ s \in subs[t] /\ cons[s] \in Reading
      /\ cons[s].out \in Seq(Int) /\ cons[s].left \in Int /\ cons[s].at \in Block \cup {NIL}
  BY <1>0, <1>1, ConsIs DEF ConsOK, ConsOn
<1>3. PICK x : x = (IF cons[s].at = NIL THEN -1 ELSE data[cons[s].at])
  OBVIOUS
<1>4. PICK a : a = (IF cons[s].at = NIL THEN NIL ELSE next(cons[s].at))
  OBVIOUS
<1>5. x \in Int /\ a \in Block \cup {NIL}
  <2>1. cons[s].at # NIL => data[cons[s].at] \in Int /\ next(cons[s].at) \in Block \cup {NIL}
    BY <1>0, <1>2, NextType DEF BusTypeOK
  <2>2. QED
    BY <1>3, <1>4, <2>1
<1>6. PICK c : c = [cons[s] EXCEPT !.out = Append(cons[s].out, x), !.at = a, !.left = cons[s].left - 1,
                                   !.pc = IF cons[s].left = 1 THEN "check" ELSE "copy"]
  OBVIOUS
<1>7. Append(cons[s].out, x) \in Seq(Int) /\ cons[s].left - 1 \in Int
  BY <1>2, <1>5, AppendProperties
<1>8. /\ c \in Reading /\ c.pc = (IF cons[s].left = 1 THEN "check" ELSE "copy") /\ c.blocks = <<>>
      /\ c.out = Append(cons[s].out, x) /\ c.at = a /\ c.left = cons[s].left - 1
      /\ c.msg = cons[s].msg /\ c.same = cons[s].same
  BY <1>2, <1>5, <1>6, <1>7 DEF Reading
<1>9. cons' = [cons EXCEPT ![s] = c]
  <2>1. cons' = [cons EXCEPT ![s] = [cons[s] EXCEPT
                   !.out = Append(@, IF cons[s].at = NIL THEN -1 ELSE data[cons[s].at]),
                   !.at = IF @ = NIL THEN NIL ELSE next(@),
                   !.left = @ - 1,
                   !.pc = IF cons[s].left = 1 THEN "check" ELSE "copy"]]
    BY <1>0 DEF CopyOut, BusTypeOK
  <2>2. QED
    BY <1>2, <1>3, <1>4, <1>6, <2>1 DEF Reading
<1>10. /\ BusTypeOK' /\ Owned' /\ TopicsOK' /\ ProdOK' /\ QueueOK' /\ SubsOK' /\ RefsExact'
       /\ TopicOf' = TopicOf /\ cons'[s] = c
       /\ Current(s)' = Current(s) /\ Published(s, Current(s))' = Published(s, Current(s))
       /\ ConsOn(s)' => ConsOK'
  BY <1>1, <1>2, <1>8, <1>9, ReaderStep
<1>11. ASSUME cons[s].same PROVE Copying(s)'
  <2>1. Copying(s)
    BY <1>1, <1>2, <1>11, EmptyRange DEF ConsOn, Nothing
  <2>2. cursor[s] = cons[s].msg /\ cursor[s] # NIL
    BY <2>1 DEF Copying
  <2>3. u \in 1..Len(queue[t])
    BY <1>0, <1>2, <2>2, UnreadIs
  <2>4. Current(s) = queue[t][u]
    BY DEF Current
  <2>5. PICK q \in Seq(Block) : q = Current(s).blocks
    BY <1>0, <1>2, <2>3, <2>4, QueueTypes
  <2>6. PICK n \in Nat, l \in Nat, m \in Nat : n = Len(cons[s].out) /\ l = Len(q) /\ m = cons[s].left
    BY <1>2, <2>1, <2>5, LenProperties DEF Copying
  <2>60. n \in Nat /\ l \in Nat /\ m \in Nat
    BY <2>6
  <2>7. n + m = l /\ m > 0 /\ cons[s].at = q[n + 1] /\ \A k \in 1..n : cons[s].out[k] = Published(s, Current(s))
    BY <1>1, <2>1, <2>5, <2>6 DEF Copying
  <2>8. n + 1 \in 1..l
    BY <2>60, <2>7
  <2>9. DOMAIN q = 1..l /\ cons[s].at \in ToSet(q) /\ cons[s].at \in Block /\ cons[s].at # NIL
    <3>1. DOMAIN q = 1..l /\ q[n + 1] \in Block
      BY <2>5, <2>6, <2>8, LenProperties, ElementOfSeq
    <3>2. NIL \notin Block
      BY BusAssumption DEF NIL, Block
    <3>3. QED
      BY <2>7, <2>8, <3>1, <3>2 DEF ToSet
  <2>10. x = Published(s, Current(s))
    <3>1. Whole(t, queue[t][u])
      BY SMTT(40), <1>0, <1>2, <2>3, QueueTypes
    <3>2. data[cons[s].at] = log[t][queue[t][u].seq + 1].id
      BY <2>4, <2>5, <2>9, <3>1 DEF Whole
    <3>3. QED
      BY <1>3, <2>4, <2>9, <3>2 DEF Published
  <2>11. a = IF n + 1 < l THEN q[n + 1 + 1] ELSE NIL
    <3>1. queue[t][u].seq \in Nat /\ chains[QueueLabel(t, queue[t][u].seq)] = q
      BY <1>0, <1>2, <2>3, <2>4, <2>5, QueuedAt
    <3>2. QueueLabel(t, queue[t][u].seq) \in Label
      BY <1>2, <3>1, LabelsAre
    <3>3. next(q[n + 1]) = IF n + 1 < l THEN q[n + 1 + 1] ELSE NIL
      BY <1>0, <2>6, <2>8, <3>1, <3>2, NextIs
    <3>4. QED
      BY <1>4, <2>7, <2>9, <3>3
  <2>12. PICK r : r = c.out
    OBVIOUS
  <2>13. /\ Len(r) = n + 1 /\ r[n + 1] = x
         /\ \A k \in 1..n : r[k] = cons[s].out[k]
    BY <1>2, <1>5, <1>8, <2>6, <2>12, AppendProperties
  <2>14. \A k \in 1..Len(r) : r[k] = Published(s, Current(s))
    <3>1. \A k \in 1..(n + 1) : k \in 1..n \/ k = n + 1
      BY <2>60
    <3>2. ASSUME NEW k \in 1..(n + 1) PROVE r[k] = Published(s, Current(s))
      <4>1. CASE k \in 1..n
        BY <2>7, <2>13, <4>1
      <4>2. CASE k = n + 1
        BY <2>10, <2>13, <4>2
      <4>3. QED
        BY <3>1, <4>1, <4>2
    <3>3. QED
      BY <2>13, <3>2
  <2>15. Len(r) + (m - 1) = l /\ m - 1 >= 0
    BY <2>60, <2>7, <2>13
  <2>16. c.pc = "copy" => m - 1 > 0 /\ c.at = q[Len(r) + 1]
    <3>1. ASSUME c.pc = "copy" PROVE m - 1 > 0 /\ n + 1 < l
      <4>1. m # 1
        BY <1>8, <2>6, <3>1
      <4>2. QED
        BY <4>1, <2>60, <2>7
    <3>2. QED
      BY <1>8, <2>11, <2>13, <3>1
  <2>17. c.pc = "check" => m - 1 = 0
    BY <1>8, <2>6
  <2>18. cursor' = cursor
    BY <1>1 DEF subVars
  <2> HIDE DEF t, u
  <2>19. QED
    BY <1>8, <1>10, <2>2, <2>5, <2>6, <2>12, <2>14, <2>15, <2>16, <2>17, <2>18 DEF Copying
<1>12. ConsOn(s)'
  <2>1. peeked[s] = NIL
    BY <1>1, <1>2 DEF ConsOn
  <2>2. c.pc \in {"copy", "check"}
    BY <1>8
  <2> HIDE DEF t, u
  <2>3. QED
    BY <1>1, <1>2, <1>8, <1>10, <1>11, <2>1, <2>2 DEF ConsOn, subVars, t
<1>13. QED
  BY <1>10, <1>12 DEF BusInv

\* The last reader frees what it took off the queue.
LEMMA FreeConsumedStep ==
    ASSUME BusInv, NEW s \in Sub, FreeConsumed(s)
    PROVE  BusInv'
<1> DEFINE t == TopicOf[s]
           got == cons[s].blocks
<1>0. BusTypeOK /\ Owned /\ TopicsOK /\ ProdOK /\ QueueOK /\ RefsExact /\ SubsOK /\ ConsOK
  BY DEF BusInv
<1>1. /\ alloc = NONE /\ giving = Nothing /\ cons[s].pc = "free"
      /\ giving' = [topic |-> t, blocks |-> got]
      /\ cons' = [cons EXCEPT ![s].pc = "got", ![s].blocks = <<>>]
      /\ UNCHANGED <<poolVars, queue, data, subVars, alloc, purging, prod, calls, log>>
  BY DEF FreeConsumed, Unlocked
<1>2. /\ ConsOn(s) /\ t \in Topic /\ s \in subs[t] /\ t \in ToSet(topics)
      /\ got \in Seq(Block) /\ NoDup(got) /\ got # <<>> /\ cons[s] \in Reading
      /\ peeked[s] = NIL /\ Delivered(s)
  <2>1. /\ ConsOn(s) /\ t \in Topic /\ s \in subs[t] /\ got \in Seq(Block) /\ NoDup(got)
        /\ got # <<>> /\ cons[s] \in Reading /\ peeked[s] = NIL /\ Delivered(s)
    BY <1>0, <1>1, ConsIs DEF ConsOK, ConsOn
  <2>2. t \in ToSet(topics)
    BY <1>0, <2>1 DEF TopicsOK
  <2>3. QED
    BY <2>1, <2>2
<1>3. <<>> \in Seq(Block)
  BY EmptySeq
<1>4. PICK c : c = [cons[s] EXCEPT !.pc = "got", !.blocks = <<>>]
  OBVIOUS
<1>5. c \in Reading /\ c.pc = "got" /\ c.blocks = <<>> /\ c.out = cons[s].out
  BY <1>2, <1>3, <1>4 DEF Reading
<1>6. cons' = [cons EXCEPT ![s] = c]
  BY <1>0, <1>1, <1>4 DEF BusTypeOK
<1>7. cons' \in [Sub -> Reading] /\ cons'[s] = c /\ \A r \in Sub \ {s} : cons'[r] = cons[r]
  BY <1>0, <1>5, <1>6 DEF BusTypeOK
<1>8. /\ giving' \in [topic : Topic \cup {NONE}, blocks : Seq(Block)]
      /\ giving'.blocks = got /\ giving'.topic = t
  BY <1>1, <1>2
<1>9. BusTypeOK'
  BY <1>0, <1>1, <1>7, <1>8 DEF BusTypeOK, subVars, poolVars
<1>10. giving.blocks = <<>>
  BY <1>1 DEF Nothing
<1>11. /\ QueueOK' /\ SubsOK' /\ RefsExact' /\ TopicOf' = TopicOf
       /\ \A u \in Topic, k \in Nat : Queued(u, k)' = Queued(u, k)
       /\ \A r \in Sub \ {s} : ConsOn(r) => ConsOn(r)'
  BY <1>0, <1>1, <1>7, <1>9, <1>10, StayStep, EmptyRange DEF subVars, poolVars
<1>12. Owned'
  <2>1. /\ GivingLabel \in Label /\ chains[GivingLabel] = <<>> /\ chains'[GivingLabel] = got
        /\ ConsLabel(s) \in Label /\ chains[ConsLabel(s)] = got /\ chains'[ConsLabel(s)] = <<>>
    BY <1>5, <1>7, <1>8, <1>10, LabelsAre, ChainsAre, ChainsAreNext
  <2>2. /\ \A r \in Sub : cons'[r].blocks = cons[r].blocks \/ ConsLabel(r) \in {GivingLabel, ConsLabel(s)}
        /\ free' = free /\ stash' = stash /\ prod' = prod
    BY <1>1, <1>7 DEF poolVars
  <2>3. /\ ToSet(chains'[GivingLabel]) \cap ToSet(chains'[ConsLabel(s)]) = {}
        /\ ToSet(chains'[GivingLabel]) \cup ToSet(chains'[ConsLabel(s)])
             = ToSet(chains[GivingLabel]) \cup ToSet(chains[ConsLabel(s)])
        /\ chains'[GivingLabel] \in Seq(Block) /\ NoDup(chains'[GivingLabel])
        /\ chains'[ConsLabel(s)] \in Seq(Block) /\ NoDup(chains'[ConsLabel(s)])
    BY <1>2, <1>3, <2>1, EmptyRange
  <2> HIDE DEF t, got
  <2>4. QED
    BY <1>0, <1>11, <2>1, <2>2, <2>3, OwnedMove
<1>13. TopicsOK'
  BY <1>0, <1>1, <1>2, <1>8, <1>11 DEF TopicsOK, subVars, poolVars
<1>14. ProdOK'
  BY <1>0, <1>1 DEF ProdOK, poolVars
<1>15. ConsOn(s)'
  <2>1. Delivered(s)'
    BY <1>1, <1>2, <1>5, <1>7, <1>11 DEF Delivered, subVars
  <2>2. QED
    BY <1>1, <1>2, <1>5, <1>7, <1>11, <2>1 DEF ConsOn, subVars
<1>16. ConsOK'
  BY <1>0, <1>11, <1>15 DEF ConsOK
<1>17. QED
  BY <1>9, <1>11, <1>12, <1>13, <1>14, <1>16 DEF BusInv

\* A subscription starts with the next message.
LEMMA SubscribeStep ==
    ASSUME BusInv, NEW s \in Sub, v_bus_subscribe(s)
    PROVE  BusInv'
<1>0. BusTypeOK /\ Owned /\ TopicsOK /\ ProdOK /\ QueueOK /\ RefsExact /\ SubsOK /\ ConsOK
  BY DEF BusInv
<1>99. PICK t \in Topic : t = TopicOf[s]
  BY <1>0, UseIs
<1>1. /\ t \in ToSet(topics) /\ s \notin subs[t]
      /\ subs' = [subs EXCEPT ![t] = @ \cup {s}]
      /\ cursor' = [cursor EXCEPT ![s] = NIL] /\ peeked' = [peeked EXCEPT ![s] = NIL]
      /\ expect' = [expect EXCEPT ![s] = Len(log[t])] /\ cons' = [cons EXCEPT ![s] = NoRead]
      /\ UNCHANGED <<poolVars, queue, data, alloc, giving, purging, prod, calls, log>>
  BY <1>99 DEF v_bus_subscribe, next_seq
<1>2. t \in Topic /\ t = TopicOf[s] /\ ConsOn(s) /\ cons[s].blocks = <<>> /\ TopicOf' = TopicOf
  BY <1>0, <1>1, <1>99, ConsIs DEF ConsOK, ConsOn, poolVars, TopicOf
<1>3. PICK o \in Nat, l \in Nat, g \in Nat : o = Oldest(t) /\ l = Len(queue[t]) /\ g = Len(log[t]) /\ o + l = g
  BY <1>0, <1>2, QueueTypes
<1>30. o \in Nat /\ l \in Nat /\ g \in Nat /\ o + l = g
  BY <1>3
<1>4. /\ subs' \in [Topic -> SUBSET Sub] /\ subs'[t] = subs[t] \cup {s}
      /\ \A u \in Topic \ {t} : subs'[u] = subs[u]
      /\ cursor' \in [Sub -> Block \cup {NIL}] /\ cursor'[s] = NIL
      /\ peeked' \in [Sub -> Block \cup {NIL}] /\ peeked'[s] = NIL
      /\ expect' \in [Sub -> Nat] /\ expect'[s] = g
      /\ cons' \in [Sub -> Reading] /\ cons'[s] = NoRead
  <2>1. NoRead \in Reading
    BY EmptySeq DEF NoRead, Reading
  <2>2. QED
    BY ZenonT(40), <1>0, <1>1, <1>2, <1>3, <2>1 DEF BusTypeOK
<1>5. \A r \in Sub \ {s} : /\ cursor'[r] = cursor[r] /\ peeked'[r] = peeked[r]
                           /\ expect'[r] = expect[r] /\ cons'[r] = cons[r]
  BY <1>0, <1>1 DEF BusTypeOK
<1>6. BusTypeOK'
  BY <1>0, <1>1, <1>4 DEF BusTypeOK, poolVars
<1>7. \A u \in Topic : s \notin subs[u]
  BY <1>0, <1>1, <1>2 DEF TopicsOK
<1>8. /\ QueueOK' /\ \A u \in Topic : Oldest(u)' = Oldest(u)
      /\ \A u \in Topic, n \in Nat : Queued(u, n)' = Queued(u, n)
      /\ \A u \in Topic : \A r \in subs[u] : expect'[r] = expect[r] =>
           /\ Unread(u, r)' = Unread(u, r)
           /\ cursor'[r] = cursor[r] => SubOn(u, r)'
  <2>1. \A u \in Topic : Alike(queue'[u], queue[u])
    BY <1>1 DEF Alike
  <2>2. QED
    BY <1>0, <1>1, <1>6, <2>1, AlikeStep
<1>9. SubsOK'
  <2>1. ASSUME NEW u \in Topic, NEW r \in subs[u] PROVE SubOn(u, r)'
    <3>1. r \in Sub \ {s}
      BY <1>0, <1>7, <2>1 DEF BusTypeOK
    <3>2. QED
      BY <1>5, <1>8, <2>1, <3>1
  <2>2. SubOn(t, s)'
    <3>1. Oldest(t)' = o /\ log' = log /\ queue' = queue
      BY <1>1, <1>2, <1>3, <1>8
    <3>2. Unread(t, s)' = IF g <= o THEN 1 ELSE g - o + 1
      BY <1>4, <3>1 DEF Unread
    <3>3. Unread(t, s)' = l + 1
      BY <1>30, <3>2
    <3>4. l + 1 \notin DOMAIN queue[t]
      BY <1>0, <1>2, <1>3, <1>30, QueueTypes
    <3>5. Link(queue'[t], l + 1) = NIL
      BY <3>1, <3>4 DEF Link
    <3>6. g <= g /\ o <= g
      BY <1>30
    <3>7. QED
      BY <1>3, <1>4, <3>1, <3>3, <3>5, <3>6 DEF SubOn
  <2>3. QED
    BY <1>2, <1>4, <2>1, <2>2 DEF SubsOK
<1>10. RefsExact'
  <2>1. ASSUME NEW u \in Topic, NEW i \in DOMAIN queue[u]
        PROVE  Owing(u, queue[u][i])' = Owing(u, queue[u][i]) /\ Viewers(u, queue[u][i])' = Viewers(u, queue[u][i])
    <3>1. i \in 1..Len(queue[u])
      BY <1>0, QueueTypes
    <3>2. Head(queue[u][i].blocks) \in Block /\ NIL \notin Block
      BY <1>0, <3>1, QueueTypes, NilIs
    <3>3. queue' = queue
      BY <1>1
    <3>4. \A r \in subs[u] : r \in Sub \ {s}
      BY <1>0, <1>7 DEF BusTypeOK
    <3>5. u = t => ~(g <= queue[u][i].seq)
      <4>1. u = t => queue[u][i].seq = o + i - 1 /\ i \in 1..l
        BY <1>0, <1>3, <3>1, QueueTypes
      <4>2. u = t => ~(g <= o + i - 1)
        BY <1>30, <4>1
      <4>3. QED
        BY <4>1, <4>2
    <3>6. Owing(u, queue[u][i])' = Owing(u, queue[u][i])
      BY <1>4, <1>5, <3>3, <3>4, <3>5 DEF Owing
    <3>7. Viewers(u, queue[u][i])' = Viewers(u, queue[u][i])
      BY <1>4, <1>5, <3>2, <3>3, <3>4 DEF Viewers
    <3>8. QED
      BY <3>6, <3>7
  <2>2. queue' = queue /\ purging' = purging
    BY <1>1
  <2>3. ASSUME NEW u \in Topic, NEW i \in DOMAIN queue'[u]
        PROVE  LET m == queue'[u][i] IN
               /\ m.refs = Cardinality(Owing(u, queue[u][i])') /\ (m.refs > 0 \/ purging' = u)
               /\ m.pins = Cardinality(Viewers(u, queue[u][i])')
    BY <1>0, <2>1, <2>2, <2>3 DEF RefsExact
  <2>4. QED
    BY <2>2, <2>3 DEF RefsExact
<1>11. Owned'
  <2>1. \A r \in Sub : cons'[r].blocks = cons[r].blocks
    BY SMTT(40), <1>2, <1>4, <1>5 DEF NoRead
  <2>2. QED
    BY <1>0, <1>1, <1>8, <2>1, OwnedKept DEF poolVars
<1>12. TopicsOK'
  <2>1. \A u \in Topic : u \notin ToSet(topics) => subs'[u] = {}
    BY <1>0, <1>1, <1>4 DEF TopicsOK
  <2>2. \A u \in Topic : \A r \in subs'[u] : TopicOf[r] = u
    BY SMTT(40), <1>0, <1>2, <1>4 DEF TopicsOK
  <2>3. QED
    BY <1>0, <1>1, <1>2, <2>1, <2>2 DEF TopicsOK, poolVars
<1>13. ProdOK'
  BY <1>0, <1>1 DEF ProdOK, poolVars
<1>14. ASSUME NEW r \in Sub PROVE ConsOn(r)'
  <2>1. CASE r = s
    BY <1>4, <2>1 DEF ConsOn, NoRead
  <2>2. CASE r # s
    <3>1. ConsOn(r) /\ TopicOf[r] \in Topic
      BY <1>0, UseIs DEF ConsOK
    <3>2. r \in subs'[TopicOf[r]] <=> r \in subs[TopicOf[r]]
      BY <1>4, <2>2, <3>1
    <3>3. r \in subs[TopicOf[r]] => Current(r)' = Current(r)
      BY <1>1, <1>2, <1>5, <1>8, <2>2, <3>1 DEF Current
    <3>4. use' = use /\ log' = log /\ giving' = giving
      BY <1>1 DEF poolVars
    <3>5. QED
      BY <1>0, <1>5, <1>6, <2>2, <3>1, <3>2, <3>3, <3>4, ReaderKept
  <2>3. QED
    BY <2>1, <2>2
<1>15. QED
  BY <1>6, <1>8, <1>9, <1>10, <1>11, <1>12, <1>13, <1>14 DEF BusInv, ConsOK

\* Who has not passed the i-th message.
LEMMA OwingIs ==
    ASSUME BusTypeOK, QueueOK, Owned, SubsOK, NEW t \in Topic, NEW i \in 1..Len(queue[t])
    PROVE  /\ Owing(t, queue[t][i]) = {s \in subs[t] : Unread(t, s) <= i}
           /\ IsFiniteSet(subs[t]) /\ IsFiniteSet(Owing(t, queue[t][i]))
           /\ Cardinality(Owing(t, queue[t][i])) \in Nat
           /\ IsFiniteSet(Viewers(t, queue[t][i])) /\ Cardinality(Viewers(t, queue[t][i])) \in Nat
<1>1. \A s \in subs[t] : expect[s] <= queue[t][i].seq <=> Unread(t, s) <= i
  BY UnreadIs
<1>2. subs[t] \subseteq Sub /\ IsFiniteSet(Sub)
  BY BusAssumption DEF BusTypeOK
<1>3. IsFiniteSet(subs[t])
  BY <1>2, FS_Subset
<1>4. Owing(t, queue[t][i]) \subseteq subs[t] /\ Viewers(t, queue[t][i]) \subseteq subs[t]
  BY DEF Owing, Viewers
<1>5. IsFiniteSet(Owing(t, queue[t][i])) /\ IsFiniteSet(Viewers(t, queue[t][i]))
  BY <1>3, <1>4, FS_Subset
<1>6. QED
  BY <1>1, <1>3, <1>5, FS_CardinalityType DEF Owing

\* Whoever has not passed a message has not passed those behind it.
LEMMA OwingGrows ==
    ASSUME BusTypeOK, QueueOK, Owned, SubsOK, NEW t \in Topic,
           NEW i \in 1..Len(queue[t]), NEW j \in i..Len(queue[t])
    PROVE  /\ Owing(t, queue[t][i]) \subseteq Owing(t, queue[t][j])
           /\ Cardinality(Owing(t, queue[t][i])) <= Cardinality(Owing(t, queue[t][j]))
<1>1. Len(queue[t]) \in Nat
  BY QueueTypes
<1>2. i \in Int /\ j \in 1..Len(queue[t]) /\ i <= j
  BY <1>1
<1>3. \A s \in subs[t] : Unread(t, s) \in Int
  BY <1>1, UnreadIs
<1>4. \A s \in subs[t] : Unread(t, s) <= i => Unread(t, s) <= j
  BY <1>2, <1>3
<1>5. /\ Owing(t, queue[t][i]) = {s \in subs[t] : Unread(t, s) <= i}
      /\ Owing(t, queue[t][j]) = {s \in subs[t] : Unread(t, s) <= j}
      /\ IsFiniteSet(Owing(t, queue[t][j]))
  BY <1>2, OwingIs
<1>6. Owing(t, queue[t][i]) \subseteq Owing(t, queue[t][j])
  BY <1>4, <1>5
<1>7. QED
  BY <1>5, <1>6, FS_Subset

\* The counts are right for what is left of a queue.
LEMMA RefsTail ==
    ASSUME BusTypeOK, BusTypeOK', QueueOK, Owned, SubsOK, RefsExact,
           UNCHANGED <<subs, expect, peeked>>,
           NEW t \in Topic, queue[t] # <<>>, queue' = [queue EXCEPT ![t] = Tail(@)],
           purging \in {NONE, t}, purging = NONE \/ purging' = t \/ ~Orphaned(queue'[t])
    PROVE  RefsExact'
<1>0. ASSUME NEW u \in Topic, NEW i, NEW m \in Msg, queue'[u][i] = m,
             m.refs = Cardinality(Owing(u, m)), m.refs > 0 \/ purging' = u,
             m.pins = Cardinality(Viewers(u, m))
      PROVE  (LET x == queue[u][i] IN
              /\ x.refs = Cardinality(Owing(u, x)) /\ (x.refs > 0 \/ purging = u)
              /\ x.pins = Cardinality(Viewers(u, x)))'
  <2>1. Owing(u, queue[u][i])' = Owing(u, m) /\ Viewers(u, queue[u][i])' = Viewers(u, m)
    BY <1>0 DEF Owing, Viewers
  <2>2. QED
    BY <1>0, <2>1
<1>1. queue \in [Topic -> Seq(Msg)] /\ queue'[t] = Tail(queue[t]) /\ t # NONE
  BY BusAssumption DEF BusTypeOK
<1>2. PICK l \in Nat \ {0} : l = Len(queue[t])
  BY <1>1, EmptySeq
<1>3. /\ DOMAIN queue'[t] = 1..(l - 1) /\ queue'[t] \in Seq(Msg) /\ Len(queue'[t]) = l - 1
      /\ \A i \in 1..(l - 1) : queue'[t][i] = queue[t][i + 1]
  BY <1>1, <1>2, HeadTailProperties, LenProperties
<1>4. ASSUME NEW u \in Topic \ {t}, NEW i \in DOMAIN queue'[u]
      PROVE  (LET m == queue[u][i] IN
              /\ m.refs = Cardinality(Owing(u, m)) /\ (m.refs > 0 \/ purging = u)
              /\ m.pins = Cardinality(Viewers(u, m)))'
  <2>1. queue'[u] = queue[u] /\ i \in 1..Len(queue[u])
    BY <1>1, <1>4, LenProperties
  <2>2. queue[u][i] \in Msg
    BY <2>1, QueueTypes
  <2>3. purging # u
    BY BusAssumption
  <2>4. i \in DOMAIN queue[u]
    BY <2>1
  <2>5. PICK m \in Msg : m = queue[u][i] /\ m = queue'[u][i]
    BY <2>1, <2>2
  <2>6. m.refs = Cardinality(Owing(u, m)) /\ m.refs > 0 /\ m.pins = Cardinality(Viewers(u, m))
    BY <2>3, <2>4, <2>5 DEF RefsExact
  <2>7. QED
    BY <1>0, <2>5, <2>6
<1>5. ASSUME NEW i \in 1..(l - 1)
      PROVE  (LET m == queue[t][i] IN
              /\ m.refs = Cardinality(Owing(t, m)) /\ (m.refs > 0 \/ purging = t)
              /\ m.pins = Cardinality(Viewers(t, m)))'
  <2>1. i + 1 \in 1..Len(queue[t]) /\ i + 1 \in DOMAIN queue[t] /\ 2 \in 1..Len(queue[t]) /\ 1 \in 1..(l - 1)
        /\ i + 1 \in 2..Len(queue[t]) /\ 2 \in DOMAIN queue[t]
    BY <1>1, <1>2, <1>5, LenProperties
  <2>2. queue'[t][i] = queue[t][i + 1] /\ queue[t][i + 1] \in Msg
    BY <1>3, <1>5, <2>1, QueueTypes
  <2>3. /\ queue[t][i + 1].refs = Cardinality(Owing(t, queue[t][i + 1]))
        /\ queue[t][i + 1].refs > 0 \/ purging = t
        /\ queue[t][i + 1].pins = Cardinality(Viewers(t, queue[t][i + 1]))
    BY <2>1 DEF RefsExact
  <2>4. ASSUME ~Orphaned(queue'[t]) PROVE queue[t][i + 1].refs > 0
    <3>1. 2 = 1 + 1
      OBVIOUS
    <3>2. queue'[t][1] = queue[t][2]
      BY <1>3, <2>1, <3>1
    <3>3. queue'[t] # <<>>
      <4>1. Len(queue'[t]) # 0
        BY <1>3, <2>1
      <4>2. QED
        BY <4>1, EmptySeq
    <3>4. queue[t][2].refs # 0
      BY <2>4, <3>2, <3>3 DEF Orphaned
    <3>5. queue[t][2].refs = Cardinality(Owing(t, queue[t][2]))
      BY <2>1 DEF RefsExact
    <3>6. /\ Cardinality(Owing(t, queue[t][2])) \in Nat /\ Cardinality(Owing(t, queue[t][i + 1])) \in Nat
          /\ Cardinality(Owing(t, queue[t][2])) <= Cardinality(Owing(t, queue[t][i + 1]))
      BY <2>1, OwingIs, OwingGrows
    <3>7. QED
      BY <2>3, <3>4, <3>5, <3>6
  <2>5. queue[t][i + 1].refs > 0 \/ purging' = t
    BY <1>1, <2>3, <2>4
  <2>6. PICK m \in Msg : m = queue[t][i + 1] /\ m = queue'[t][i]
    BY <2>2
  <2>7. QED
    BY <1>0, <2>3, <2>5, <2>6
<1>6. QED
  BY <1>3, <1>4, <1>5 DEF RefsExact

\* The oldest message of t goes to free_chain.
LEMMA TailMoves ==
    ASSUME BusTypeOK, BusTypeOK', QueueOK, Owned, SubsOK, giving = Nothing,
           UNCHANGED <<poolVars, data, prod, cons, log>>,
           NEW t \in Topic, queue[t] # <<>>, queue' = [queue EXCEPT ![t] = Tail(@)],
           giving' = [topic |-> t, blocks |-> queue[t][1].blocks]
    PROVE  /\ Owned' /\ queue[t][1].blocks \in Seq(Block) /\ queue[t][1].blocks # <<>>
           /\ 1 \in 1..Len(queue[t])
<1>1. queue \in [Topic -> Seq(Msg)] /\ queue'[t] = Tail(queue[t])
  BY DEF BusTypeOK
<1>2. /\ Alike(queue'[t], Tail(queue[t])) /\ \A u \in Topic \ {t} : queue'[u] = queue[u]
      /\ log' = log /\ data' = data
  BY <1>1 DEF Alike
<1>3. /\ Oldest(t) \in Nat /\ Len(queue[t]) \in Nat \ {0}
      /\ \A u \in Topic, n \in Nat :
           IF u = t /\ n = Oldest(t) THEN Queued(u, n) = queue[t][1].blocks /\ Queued(u, n)' = <<>>
           ELSE Queued(u, n)' = Queued(u, n)
  BY <1>2, TailStep
<1>4. 1 \in 1..Len(queue[t])
  BY <1>3
<1>5. PICK b \in Seq(Block) : b = queue[t][1].blocks /\ b # <<>>
  BY <1>4, QueueTypes
<1>6. PICK n \in Nat : n = Oldest(t)
  BY <1>3
<1>7. /\ GivingLabel \in Label /\ chains[GivingLabel] = <<>> /\ chains'[GivingLabel] = b
      /\ QueueLabel(t, n) \in Label /\ chains[QueueLabel(t, n)] = b /\ chains'[QueueLabel(t, n)] = <<>>
  BY <1>3, <1>5, <1>6, LabelsAre, ChainsAre, ChainsAreNext DEF Nothing
<1>8. NoDup(b) /\ <<>> \in Seq(Block)
  BY <1>7, EmptySeq DEF Owned, Partition
<1>9. /\ ToSet(chains'[GivingLabel]) \cap ToSet(chains'[QueueLabel(t, n)]) = {}
      /\ ToSet(chains'[GivingLabel]) \cup ToSet(chains'[QueueLabel(t, n)])
           = ToSet(chains[GivingLabel]) \cup ToSet(chains[QueueLabel(t, n)])
      /\ chains'[GivingLabel] \in Seq(Block) /\ NoDup(chains'[GivingLabel])
      /\ chains'[QueueLabel(t, n)] \in Seq(Block) /\ NoDup(chains'[QueueLabel(t, n)])
  BY <1>7, <1>8, EmptyRange
<1>10. /\ free' = free /\ stash' = stash /\ prod' = prod /\ cons' = cons
       /\ \A u \in Topic, k \in Nat : Queued(u, k)' = Queued(u, k)
                                       \/ QueueLabel(u, k) \in {GivingLabel, QueueLabel(t, n)}
  BY <1>3, <1>6 DEF poolVars
<1>11. Owned'
  BY <1>7, <1>9, <1>10, OwnedMove
<1>12. QED
  BY <1>4, <1>5, <1>11

\* v_bus_unsubscribe frees a message nobody waits for.
LEMMA FreeOrphanStep ==
    ASSUME BusInv, FreeOrphan
    PROVE  BusInv'
<1>0. BusTypeOK /\ Owned /\ TopicsOK /\ ProdOK /\ QueueOK /\ RefsExact /\ SubsOK /\ ConsOK
  BY DEF BusInv
<1>1. PICK t \in Topic :
        /\ t = purging /\ giving = Nothing /\ alloc = NONE /\ Orphaned(queue[t])
        /\ queue' = [queue EXCEPT ![t] = Tail(queue[t])]
        /\ giving' = [topic |-> t, blocks |-> queue[t][1].blocks]
        /\ purging' = IF Orphaned(Tail(queue[t])) THEN t ELSE NONE
        /\ UNCHANGED <<poolVars, data, subVars, alloc, prod, cons, calls, log>>
  BY <1>0 DEF FreeOrphan, BusTypeOK, TopicsOK
<1>2. /\ queue[t] # <<>> /\ queue[t][1].refs = 0 /\ queue'[t] = Tail(queue[t])
      /\ \A u \in Topic \ {t} : queue'[u] = queue[u]
      /\ queue[t] \in Seq(Msg) /\ Tail(queue[t]) \in Seq(Msg)
  BY <1>0, <1>1, HeadTailProperties DEF Orphaned, BusTypeOK
<1>3. 1 \in 1..Len(queue[t])
  BY <1>2, EmptySeq
<1>4. queue[t][1].blocks \in Seq(Block) /\ queue[t][1].blocks # <<>>
  BY <1>0, <1>3, QueueTypes
<1>5. BusTypeOK'
  <2>1. queue' \in [Topic -> Seq(Msg)]
    BY <1>0, <1>1, <1>2 DEF BusTypeOK
  <2>2. giving' \in [topic : Topic \cup {NONE}, blocks : Seq(Block)] /\ purging' \in Topic \cup {NONE}
    BY <1>1, <1>4
  <2>3. QED
    BY <1>0, <1>1, <2>1, <2>2 DEF BusTypeOK, subVars, poolVars
<1>6. Owned'
  BY <1>0, <1>1, <1>2, <1>5, TailMoves
\* Nobody stands on the message that goes.
<1>7. \A s \in subs[t] : Unread(t, s) # 1
  <2>1. IsFiniteSet(Owing(t, queue[t][1])) /\ Cardinality(Owing(t, queue[t][1])) = 0
    <3>1. 1 \in DOMAIN queue[t]
      BY <1>0, <1>3, QueueTypes
    <3>2. queue[t][1].refs = Cardinality(Owing(t, queue[t][1]))
      BY <1>0, <3>1 DEF RefsExact
    <3>3. QED
      BY <1>0, <1>2, <1>3, <3>2, OwingIs
  <2>2. Owing(t, queue[t][1]) = {}
    BY <2>1, FS_EmptySet
  <2>3. QED
    BY <1>0, <1>3, <2>2, OwingIs
<1>8. /\ QueueOK'
      /\ \A u \in Topic \ {t} : \A s \in subs[u] : Unread(u, s)' = Unread(u, s) /\ SubOn(u, s)'
      /\ \A s \in subs[t] :
           /\ Unread(t, s)' = Unread(t, s) - 1 /\ SubOn(t, s)'
           /\ cursor[s] # NIL =>
                /\ queue'[t][Unread(t, s) - 1].blocks = queue[t][Unread(t, s)].blocks
                /\ queue'[t][Unread(t, s) - 1].seq = queue[t][Unread(t, s)].seq
  <2>1. Alike(queue'[t], Tail(queue[t])) /\ log' = log /\ data' = data /\ expect' = expect /\ cursor' = cursor
    BY <1>1, <1>2 DEF Alike, subVars
  <2>2. QED
    BY <1>0, <1>2, <1>5, <1>7, <2>1, TailStep
<1>9. SubsOK'
  BY <1>1, <1>8 DEF SubsOK, subVars
<1>10. RefsExact'
  BY <1>0, <1>1, <1>2, <1>5, RefsTail DEF subVars
<1>11. TopicsOK'
  <2>1. queue[t] # <<>> => t \in ToSet(topics)
    BY <1>0 DEF TopicsOK
  <2>2. \A u \in Topic : u \notin ToSet(topics) => queue'[u] = <<>>
    BY <1>0, <1>2, <2>1 DEF TopicsOK
  <2>3. giving'.topic = t /\ giving'.blocks # <<>> /\ t \in ToSet(topics)
    BY <1>1, <1>2, <1>4, <2>1
  <2>4. purging' # NONE => Orphaned(queue'[purging'])
    BY <1>1, <1>2
  <2>5. UNCHANGED <<topics, stash, borrowed, subs, use, alloc>> /\ alloc = NONE
    BY <1>1 DEF subVars, poolVars
  <2>6. QED
    BY <1>0, <2>2, <2>3, <2>4, <2>5 DEF TopicsOK, TopicOf
<1>12. ProdOK'
  BY <1>0, <1>1 DEF ProdOK, poolVars
<1>13. ASSUME NEW s \in Sub PROVE ConsOn(s)'
  <2>1. ConsOn(s) /\ TopicOf[s] \in Topic /\ TopicOf' = TopicOf
    BY <1>0, <1>1, UseIs DEF ConsOK, poolVars, TopicOf
  <2>2. ASSUME s \in subs[TopicOf[s]], cursor[s] # NIL
        PROVE  Current(s)'.blocks = Current(s).blocks /\ Current(s)'.seq = Current(s).seq
    BY <1>2, <1>8, <2>1, <2>2 DEF Current
  <2>3. UNCHANGED <<use, cons, subs, expect, peeked, cursor, log>> /\ giving.blocks = <<>>
    BY <1>1 DEF subVars, poolVars, Nothing
  <2>4. QED
    BY <1>0, <1>5, <2>1, <2>2, <2>3, EmptyRange, ReaderKept
<1>14. QED
  BY <1>5, <1>6, <1>8, <1>9, <1>10, <1>11, <1>12, <1>13 DEF BusInv, ConsOK

\* The oldest message of a topic is evicted; its readers move on.
LEMMA AllocEvictStep ==
    ASSUME BusInv, AllocEvict
    PROVE  BusInv'
<1>0. BusTypeOK /\ Owned /\ TopicsOK /\ ProdOK /\ QueueOK /\ RefsExact /\ SubsOK /\ ConsOK
  BY DEF BusInv
<1>1. /\ alloc # NONE /\ giving = Nothing /\ purging = NONE
      /\ UNCHANGED <<poolVars, data, subs, expect, peeked, alloc, purging, prod, cons, calls, log>>
  BY <1>0 DEF AllocEvict, TopicsOK
<1>2. PICK t \in Topic :
        /\ t \in Overwriting /\ queue[t] # <<>> /\ Head(queue[t]).pins = 0
        /\ cursor' = [s \in Sub |->
             IF s \in subs[t] /\ cursor[s] = Link(queue[t], 1) THEN Link(queue[t], 2) ELSE cursor[s]]
        /\ queue' = [queue EXCEPT ![t] = Tail(@)]
        /\ giving' = [topic |-> t, blocks |-> Head(queue[t]).blocks]
  <2>1. CASE \E x \in Topic : FirstTopic(x, {y \in Topic : Debtor(y)}) /\ evict_oldest(x)
    <3>1. PICK x \in Topic : FirstTopic(x, {y \in Topic : Debtor(y)}) /\ evict_oldest(x)
      BY <2>1
    <3>2. borrowed[x] > 0 /\ queue[x] # <<>> /\ Head(queue[x]).pins = 0
      BY <3>1 DEF FirstTopic, Debtor, Evictable
    <3>3. x \in Overwriting
      BY <1>0, <3>2 DEF TopicsOK
    <3>4. QED
      BY <3>1, <3>2, <3>3 DEF evict_oldest
  <2>2. CASE LET t == prod[alloc].topic IN t \in Overwriting /\ Evictable(t) /\ evict_oldest(t)
    <3>1. prod[alloc].topic \in Topic
      BY <2>2, BusAssumption
    <3>2. QED
      BY <2>2, <3>1 DEF Evictable, evict_oldest
  <2>3. QED
    BY <2>1, <2>2 DEF AllocEvict
<1>3. /\ queue[t] \in Seq(Msg) /\ queue'[t] = Tail(queue[t]) /\ Tail(queue[t]) \in Seq(Msg)
      /\ \A u \in Topic \ {t} : queue'[u] = queue[u]
      /\ Head(queue[t]) = queue[t][1] /\ queue' \in [Topic -> Seq(Msg)]
      /\ Alike(queue'[t], Tail(queue[t]))
  BY <1>0, <1>2, HeadTailProperties DEF BusTypeOK, Alike
<1>4. 1 \in 1..Len(queue[t]) /\ 1 \in DOMAIN queue[t]
  BY <1>2, <1>3, EmptySeq, LenProperties
<1>5. PICK b \in Seq(Block) : b = queue[t][1].blocks /\ b # <<>> /\ Head(b) \in Block /\ Head(b) \in ToSet(b)
  BY <1>0, <1>4, QueueTypes
<1>6. Link(queue[t], 1) = Head(b) /\ Link(queue[t], 2) \in Block \cup {NIL}
  <2>1. 2 \in DOMAIN queue[t] => Head(queue[t][2].blocks) \in Block
    BY <1>0, QueueTypes
  <2>2. QED
    BY <1>4, <1>5, <2>1 DEF Link
<1>7. cursor' \in [Sub -> Block \cup {NIL}]
  BY <1>0, <1>2, <1>6 DEF BusTypeOK
<1>8. BusTypeOK'
  BY <1>0, <1>1, <1>2, <1>3, <1>5, <1>7 DEF BusTypeOK, poolVars
<1>9. Owned'
  BY <1>0, <1>1, <1>2, <1>3, <1>8, TailMoves
\* Who stands on the message that goes.
<1>10. ASSUME NEW s \in subs[t]
       PROVE  /\ Unread(t, s) = 1 => cursor[s] = Head(b) /\ cursor'[s] = Link(queue[t], 2)
              /\ Unread(t, s) # 1 => cursor'[s] = cursor[s]
  <2>1. s \in Sub
    BY <1>0 DEF BusTypeOK
  <2>2. cursor[s] = Head(b) => Unread(t, s) = 1
    <3>1. ASSUME cursor[s] = Head(b) PROVE Unread(t, s) = 1
      <4>1. cursor[s] # NIL
        BY <1>5, <3>1, NilIs
      <4>2. At(t, cursor[s]) = Unread(t, s)
        BY <1>0, <4>1, UnreadIs
      <4>3. At(t, cursor[s]) = 1
        BY <1>0, <1>4, <1>5, <3>1, AtIs
      <4>4. QED
        BY <4>2, <4>3
    <3>2. QED
      BY <3>1
  <2>3. Unread(t, s) = 1 => cursor[s] = Head(b)
    <3>1. cursor[s] = Link(queue[t], Unread(t, s))
      BY <1>0 DEF SubsOK, SubOn
    <3>2. QED
      BY <1>6, <3>1
  <2>4. QED
    BY <1>2, <1>6, <2>1, <2>2, <2>3
<1>11. /\ QueueOK'
       /\ \A u \in Topic \ {t} : \A s \in subs[u] : expect'[s] = expect[s] =>
            Unread(u, s)' = Unread(u, s) /\ (cursor'[s] = cursor[s] => SubOn(u, s)')
       /\ \A s \in subs[t] : expect'[s] = expect[s] =>
            /\ Unread(t, s) # 1 =>
                 /\ Unread(t, s)' = Unread(t, s) - 1
                 /\ cursor'[s] = cursor[s] => SubOn(t, s)'
                 /\ cursor[s] # NIL =>
                      /\ queue'[t][Unread(t, s) - 1].blocks = queue[t][Unread(t, s)].blocks
                      /\ queue'[t][Unread(t, s) - 1].seq = queue[t][Unread(t, s)].seq
            /\ Unread(t, s) = 1 /\ t \in Overwriting /\ cursor'[s] = Link(queue[t], 2) => SubOn(t, s)'
  <2>1. log' = log /\ data' = data
    BY <1>1
  <2>2. QED
    BY <1>0, <1>2, <1>3, <1>8, <2>1, TailStep
<1>12. \A u \in Topic \ {t} : \A s \in subs[u] : s \notin subs[t] /\ s \in Sub /\ cursor'[s] = cursor[s]
  <2>1. ASSUME NEW u \in Topic \ {t}, NEW s \in subs[u] PROVE s \notin subs[t] /\ s \in Sub
    <3>1. s \in Sub
      BY <1>0 DEF BusTypeOK
    <3>2. TopicOf[s] = u /\ (s \in subs[t] => TopicOf[s] = t)
      BY <1>0 DEF TopicsOK
    <3>3. QED
      BY <3>1, <3>2
  <2>2. QED
    BY <1>2, <2>1
<1>13. SubsOK'
  <2>1. subs' = subs /\ expect' = expect
    BY <1>1
  <2>2. \A u \in Topic \ {t} : \A s \in subs[u] : SubOn(u, s)'
    BY <1>11, <1>12, <2>1
  <2>3. \A s \in subs[t] : SubOn(t, s)'
    BY <1>2, <1>10, <1>11, <2>1
  <2>4. QED
    BY <2>1, <2>2, <2>3 DEF SubsOK
<1>14. RefsExact'
  <2>1. subs' = subs /\ expect' = expect /\ peeked' = peeked
    BY <1>1
  <2>2. QED
    BY <1>0, <1>1, <1>2, <1>8, <2>1, RefsTail
<1>15. TopicsOK'
  <2>1. queue[t] # <<>> => t \in ToSet(topics)
    BY <1>0 DEF TopicsOK
  <2>2. \A u \in Topic : u \notin ToSet(topics) => queue'[u] = <<>>
    BY <1>0, <1>2, <1>3, <2>1 DEF TopicsOK
  <2>3. giving'.topic = t /\ giving'.blocks # <<>> /\ t \in ToSet(topics)
    BY <1>2, <1>3, <1>5, <2>1
  <2>4. UNCHANGED <<topics, stash, borrowed, subs, use, alloc, purging>>
    BY <1>1 DEF poolVars
  <2>5. QED
    BY <1>0, <1>1, <2>2, <2>3, <2>4 DEF TopicsOK, TopicOf
<1>16. ProdOK'
  BY <1>0, <1>1 DEF ProdOK, poolVars
<1>17. ASSUME NEW s \in Sub PROVE ConsOn(s)'
  <2>1. ConsOn(s) /\ TopicOf[s] \in Topic /\ TopicOf' = TopicOf
    BY <1>0, <1>1, UseIs DEF ConsOK, poolVars, TopicOf
  <2>2. UNCHANGED <<use, cons, subs, expect, peeked, log>> /\ giving.blocks = <<>>
    BY <1>1 DEF poolVars, Nothing
  <2>3. CASE s \in subs[t] /\ Unread(t, s) = 1
    <3>1. TopicOf[s] = t
      BY <1>0, <2>3 DEF TopicsOK
    <3>2. cons[s].pc \notin {"view", "viewed"}
      <4>1. SUFFICES ASSUME Viewing(s) PROVE FALSE
        BY <2>1 DEF ConsOn
      <4>2. peeked[s] = Head(b)
        BY <1>10, <2>3, <4>1 DEF Viewing
      <4>3. s \in Viewers(t, queue[t][1])
        BY <1>5, <2>3, <4>2 DEF Viewers
      <4>4. Cardinality(Viewers(t, queue[t][1])) = 0
        BY <1>0, <1>2, <1>3, <1>4 DEF RefsExact
      <4>5. QED
        BY <1>0, <1>4, <4>3, <4>4, OwingIs, FS_EmptySet
    <3>3. ASSUME cons[s].pc \in {"copy", "check"}, cons[s].same PROVE cons[s].msg \in ToSet(giving'.blocks)
      <4>1. Copying(s)
        BY <2>1, <2>2, <3>3, EmptyRange DEF ConsOn
      <4>2. cons[s].msg = Head(b)
        BY <1>10, <2>3, <4>1 DEF Copying
      <4>3. QED
        BY <1>2, <1>3, <1>5, <4>2
    <3>4. QED
      BY <1>0, <1>8, <2>1, <2>2, <3>1, <3>2, <3>3, ReaderKept
  <2>4. CASE ~(s \in subs[t] /\ Unread(t, s) = 1)
    <3>1. cursor'[s] = cursor[s]
      BY <1>2, <1>10, <2>4
    <3>2. ASSUME s \in subs[TopicOf[s]], cursor[s] # NIL
          PROVE  Current(s)'.blocks = Current(s).blocks /\ Current(s)'.seq = Current(s).seq
      <4>1. CASE TopicOf[s] = t
        <5>1. Current(s) = queue[t][Unread(t, s)] /\ Current(s)' = queue'[t][Unread(t, s)']
          BY <2>1, <4>1 DEF Current
        <5>2. QED
          BY <1>11, <2>2, <2>4, <3>2, <4>1, <5>1
      <4>2. CASE TopicOf[s] # t
        BY SMTT(40), <1>3, <1>11, <2>1, <2>2, <3>2, <4>2 DEF Current
      <4>3. QED
        BY <4>1, <4>2
    <3>3. QED
      BY <1>0, <1>8, <2>1, <2>2, <3>1, <3>2, EmptyRange, ReaderKept
  <2>5. QED
    BY <2>3, <2>4
<1>18. QED
  BY <1>8, <1>9, <1>11, <1>13, <1>14, <1>15, <1>16, <1>17 DEF BusInv, ConsOK

\* A message joins its queue, or is given up if nobody listens any more.
LEMMA LinkStep ==
    ASSUME BusInv, NEW p \in Producer, link_msg(p)
    PROVE  BusInv'
<1>0. BusTypeOK /\ Owned /\ TopicsOK /\ ProdOK /\ QueueOK /\ RefsExact /\ SubsOK /\ ConsOK
  BY DEF BusInv
<1>1. /\ alloc = NONE /\ giving = Nothing /\ purging = NONE /\ prod[p].pc = "link"
      /\ UNCHANGED <<poolVars, data, subs, expect, peeked, alloc, giving, purging, cons, calls>>
  BY DEF link_msg, Unlocked
<1>2. PICK t \in Topic : t = prod[p].topic /\ t \in ToSet(topics)
  BY <1>0, <1>1, ProdIs
<1>3. PICK b \in Seq(Block) : b = prod[p].blocks /\ NoDup(b)
  BY <1>0, ProdIs
<1>4. PICK id \in Nat, n \in Nat \ {0} : id = prod[p].id /\ n = prod[p].need /\ prod[p] \in Call
  BY <1>0, <1>1, ProdIs DEF Call, ProdOK
<1>5. Len(b) = n /\ b # <<>> /\ \A x \in ToSet(b) : data[x] = id
  <2>1. Len(b) = n /\ \A x \in ToSet(b) : data[x] = id
    BY <1>0, <1>1, <1>3, <1>4 DEF ProdOK
  <2>2. QED
    BY <2>1, EmptySeq
<1>6. CASE prod' = [prod EXCEPT ![p].pc = "free"] /\ UNCHANGED <<queue, cursor, log>>
  <2>1. PICK c : c = [prod[p] EXCEPT !.pc = "free"]
    OBVIOUS
  <2>2. c \in Call /\ c.pc = "free" /\ c.blocks = b /\ c.topic = t /\ c.need = n
    BY <1>2, <1>3, <1>4, <2>1 DEF Call
  <2>3. prod' \in [Producer -> Call] /\ prod'[p] = c /\ \A q \in Producer \ {p} : prod'[q] = prod[q]
    BY <1>0, <1>6, <2>1, <2>2 DEF BusTypeOK
  <2>4. BusTypeOK'
    BY <1>0, <1>1, <1>6, <2>3 DEF BusTypeOK, poolVars
  <2>5. /\ QueueOK' /\ SubsOK' /\ RefsExact'
        /\ \A u \in Topic, k \in Nat : Queued(u, k)' = Queued(u, k)
        /\ \A s \in Sub : ConsOn(s) => ConsOn(s)'
    BY <1>0, <1>1, <1>6, <2>4, StayStep DEF poolVars
  <2>6. Owned'
    <3>1. \A q \in Producer : prod'[q].blocks = prod[q].blocks
      BY <1>3, <2>2, <2>3
    <3>2. QED
      BY <1>0, <1>1, <2>5, <3>1, OwnedKept DEF poolVars
  <2>7. TopicsOK'
    BY <1>0, <1>1, <1>6 DEF TopicsOK, poolVars, TopicOf
  <2>8. ProdOK'
    BY <1>0, <1>1, <1>2, <1>4, <1>5, <2>2, <2>3 DEF ProdOK, poolVars
  <2>9. QED
    BY <1>0, <2>4, <2>5, <2>6, <2>7, <2>8 DEF BusInv, ConsOK
<1>7. CASE /\ subs[t] # {}
           /\ queue' = [queue EXCEPT ![t] = Append(@, Message(p))]
           /\ cursor' = [s \in Sub |->
                IF s \in subs[t] /\ cursor[s] = NIL THEN Head(prod[p].blocks) ELSE cursor[s]]
           /\ log' = [log EXCEPT ![t] = Append(@, [id |-> prod[p].id, n |-> prod[p].need])]
           /\ prod' = [prod EXCEPT ![p] = NoMessage]
  <2>1. PICK o \in Nat, l \in Nat, g \in Nat :
          o = Oldest(t) /\ l = Len(queue[t]) /\ g = Len(log[t]) /\ o + l = g
    BY <1>0, QueueTypes
  <2>10. o \in Nat /\ l \in Nat /\ g \in Nat /\ o + l = g
    BY <2>1
  <2>2. PICK r \in Nat \ {0} : r = Cardinality(subs[t]) /\ IsFiniteSet(subs[t])
    <3>1. subs[t] \subseteq Sub /\ IsFiniteSet(Sub)
      BY <1>0, BusAssumption DEF BusTypeOK
    <3>2. IsFiniteSet(subs[t])
      BY <3>1, FS_Subset
    <3>3. QED
      BY <1>7, <3>2, FS_CardinalityType, FS_EmptySet
  <2>3. PICK m : m = [blocks |-> b, seq |-> g, pins |-> 0, refs |-> r]
    OBVIOUS
  <2>4. m \in Msg /\ m.blocks = b /\ m.seq = g /\ m.pins = 0 /\ m.refs = r /\ m = Message(p)
    BY <1>2, <1>3, <2>1, <2>2, <2>3 DEF Msg, Message, next_seq
  <2>5. PICK e : e = [id |-> id, n |-> n]
    OBVIOUS
  <2>6. e \in [id : Nat, n : Nat] /\ e.id = id /\ e.n = n
    BY <2>5
  <2>7. /\ queue'[t] = Append(queue[t], m) /\ \A u \in Topic \ {t} : queue'[u] = queue[u]
        /\ log'[t] = Append(log[t], e) /\ \A u \in Topic \ {t} : log'[u] = log[u]
        /\ queue' \in [Topic -> Seq(Msg)] /\ log' \in [Topic -> Seq([id : Nat, n : Nat])]
    BY ZenonT(40), <1>0, <1>4, <1>7, <2>4, <2>5, <2>6, AppendProperties DEF BusTypeOK
  <2>8. /\ prod' \in [Producer -> Call] /\ prod'[p].pc = "idle" /\ prod'[p].blocks = <<>>
        /\ \A q \in Producer \ {p} : prod'[q] = prod[q]
    <3>1. NoMessage \in Call
      BY EmptySeq DEF NoMessage, Call
    <3>2. QED
      BY <1>0, <1>7, <3>1 DEF BusTypeOK, NoMessage
  <2>9. Head(b) \in Block /\ Head(b) \in ToSet(b)
    BY <1>5, TailRange
  <2>11. /\ cursor' \in [Sub -> Block \cup {NIL}]
         /\ \A s \in Sub : cursor'[s] = IF s \in subs[t] /\ cursor[s] = NIL THEN Head(b) ELSE cursor[s]
    BY <1>0, <1>3, <1>7, <2>9 DEF BusTypeOK
  <2>12. BusTypeOK'
    BY <1>0, <1>1, <2>7, <2>8, <2>11 DEF BusTypeOK, poolVars
  <2>13. data' = data
    BY <1>1
  <2>14. /\ QueueOn(t)' /\ Oldest(t)' = o
         /\ Len(queue'[t]) = l + 1 /\ Len(log'[t]) = g + 1
         /\ \A i \in 1..l : queue'[t][i] = queue[t][i]
         /\ \A i \in 1..g : log'[t][i] = log[t][i]
         /\ queue'[t][l + 1] = m
         /\ \A k \in Nat : IF k = g THEN Queued(t, k) = <<>> /\ Queued(t, k)' = b
                           ELSE Queued(t, k)' = Queued(t, k)
         /\ \A i \in 1..l : Link(queue'[t], i) = Link(queue[t], i)
         /\ Link(queue'[t], l + 1) = Head(b)
    <3>1. /\ m.seq = Len(log[t]) /\ m.blocks # <<>> /\ Len(m.blocks) = e.n
          /\ \A x \in ToSet(m.blocks) : data[x] = e.id
      BY <1>5, <2>1, <2>4, <2>6
    <3>2. /\ QueueOn(t)' /\ Oldest(t)' = Oldest(t)
          /\ Len(queue'[t]) = Len(queue[t]) + 1 /\ Len(log'[t]) = Len(log[t]) + 1
          /\ \A i \in 1..Len(queue[t]) : queue'[t][i] = queue[t][i]
          /\ \A i \in 1..Len(log[t]) : log'[t][i] = log[t][i]
          /\ queue'[t][Len(queue[t]) + 1] = m
          /\ \A k \in Nat : IF k = Len(log[t]) THEN Queued(t, k) = <<>> /\ Queued(t, k)' = m.blocks
                            ELSE Queued(t, k)' = Queued(t, k)
          /\ \A i \in 1..Len(queue[t]) : Link(queue'[t], i) = Link(queue[t], i)
          /\ Link(queue'[t], Len(queue[t]) + 1) = Head(m.blocks)
      <4>1. m \in Msg /\ e \in [id : Nat, n : Nat] /\ t \in Topic
        BY <1>2, <2>4, <2>6
      <4>2. queue'[t] = Append(queue[t], m) /\ log'[t] = Append(log[t], e)
        BY <2>7
      <4>3. BusTypeOK /\ QueueOK
        BY <1>0
      <4>4. QED
        BY ZenonT(40), <2>12, <2>13, <3>1, <4>1, <4>2, <4>3, QueueAppend
    <3>3. QED
      BY <2>1, <2>4, <3>2
  <2>15. ASSUME NEW u \in Topic \ {t}
         PROVE  /\ QueueOn(u)' /\ Oldest(u)' = Oldest(u)
                /\ \A k \in Nat : Queued(u, k)' = Queued(u, k)
                /\ \A i \in Nat : Link(queue'[u], i) = Link(queue[u], i)
    <3>1. Alike(queue'[u], queue[u]) /\ log'[u] = log[u]
      BY <2>7 DEF Alike
    <3>2. QED
      BY <1>0, <2>12, <2>13, <3>1, QueueAlike
  <2>16. QueueOK'
    BY <2>14, <2>15 DEF QueueOK
  <2>17. Owned'
    <3>1. /\ ProdLabel(p) \in Label /\ chains[ProdLabel(p)] = b /\ chains'[ProdLabel(p)] = <<>>
          /\ QueueLabel(t, g) \in Label /\ chains[QueueLabel(t, g)] = <<>> /\ chains'[QueueLabel(t, g)] = b
      BY SMTT(40), <1>3, <2>1, <2>8, <2>14, LabelsAre, ChainsAre, ChainsAreNext
    <3>2. <<>> \in Seq(Block)
      BY EmptySeq
    <3>3. /\ ToSet(chains'[ProdLabel(p)]) \cap ToSet(chains'[QueueLabel(t, g)]) = {}
          /\ ToSet(chains'[ProdLabel(p)]) \cup ToSet(chains'[QueueLabel(t, g)])
               = ToSet(chains[ProdLabel(p)]) \cup ToSet(chains[QueueLabel(t, g)])
          /\ chains'[ProdLabel(p)] \in Seq(Block) /\ NoDup(chains'[ProdLabel(p)])
          /\ chains'[QueueLabel(t, g)] \in Seq(Block) /\ NoDup(chains'[QueueLabel(t, g)])
      BY <1>3, <3>1, <3>2, EmptyRange
    <3>4. /\ \A u \in Topic, k \in Nat : Queued(u, k)' = Queued(u, k)
                                         \/ QueueLabel(u, k) \in {ProdLabel(p), QueueLabel(t, g)}
          /\ \A q \in Producer : prod'[q].blocks = prod[q].blocks
                                  \/ ProdLabel(q) \in {ProdLabel(p), QueueLabel(t, g)}
          /\ free' = free /\ stash' = stash /\ giving' = giving /\ cons' = cons
      BY <1>1, <2>8, <2>14, <2>15 DEF poolVars
    <3>5. QED
      BY <1>0, <3>1, <3>3, <3>4, OwnedMove
  <2>18. SubsOK'
    <3>1. ASSUME NEW u \in Topic \ {t}, NEW s \in subs[u] PROVE SubOn(u, s)'
      <4>1. SubOn(u, s) /\ s \in Sub /\ TopicOf[s] = u
        BY <1>0 DEF SubsOK, TopicsOK, BusTypeOK
      <4>2. cursor'[s] = cursor[s]
        <5>1. s \notin subs[t]
          BY <1>0, <4>1 DEF TopicsOK
        <5>2. QED
          BY <2>11, <4>1, <5>1
      <4>3. Unread(u, s)' = Unread(u, s) /\ Unread(u, s) \in Nat /\ expect' = expect
        <5>1. Unread(u, s) \in 1..(Len(queue[u]) + 1)
          BY <1>0, <3>1, UnreadIs
        <5>2. QED
          BY <1>1, <2>15, <5>1 DEF Unread
      <4>4. QED
        BY <2>7, <2>15, <4>1, <4>2, <4>3 DEF SubOn
    <3>2. ASSUME NEW s \in subs[t] PROVE SubOn(t, s)'
      <4>1. SubOn(t, s) /\ s \in Sub /\ expect[s] \in Nat /\ expect[s] <= g
        BY <1>0, <2>1, UnreadIs DEF SubsOK, SubOn
      <4>2. Unread(t, s)' = Unread(t, s) /\ Oldest(t)' = Oldest(t) /\ expect'[s] = expect[s]
        BY <1>1, <2>1, <2>14 DEF Unread
      <4>3. expect[s] <= g + 1
        BY <4>1, <2>10
      <4>4. CASE cursor[s] = NIL
        <5>1. Unread(t, s) = l + 1
          BY <1>0, <2>1, <4>4, UnreadIs
        <5>2. cursor'[s] = Head(b)
          BY <2>11, <4>1, <4>4
        <5>3. QED
          BY <2>14, <4>1, <4>2, <4>3, <5>1, <5>2 DEF SubOn
      <4>5. CASE cursor[s] # NIL
        <5>1. Unread(t, s) \in 1..l
          BY <1>0, <2>1, <4>5, UnreadIs
        <5>2. cursor'[s] = cursor[s]
          BY <2>11, <4>1, <4>5
        <5>3. QED
          BY <2>14, <4>1, <4>2, <4>3, <5>1, <5>2 DEF SubOn
      <4>6. QED
        BY <4>4, <4>5
    <3>3. QED
      BY <1>1, <3>1, <3>2 DEF SubsOK
  <2>19. RefsExact'
    <3>1. UNCHANGED <<subs, expect, peeked, purging>>
      BY <1>1
    <3>2. ASSUME NEW u \in Topic, NEW i, NEW x \in Msg, queue'[u][i] = x,
                 x.refs = Cardinality(Owing(u, x)), x.refs > 0, x.pins = Cardinality(Viewers(u, x))
          PROVE  (LET x_ == queue[u][i] IN
                  /\ x_.refs = Cardinality(Owing(u, x_)) /\ (x_.refs > 0 \/ purging = u)
                  /\ x_.pins = Cardinality(Viewers(u, x_)))'
      <4>1. Owing(u, queue[u][i])' = Owing(u, x) /\ Viewers(u, queue[u][i])' = Viewers(u, x)
        BY <3>1, <3>2 DEF Owing, Viewers
      <4>2. QED
        BY <3>2, <4>1
    <3>3. ASSUME NEW u \in Topic, NEW i \in DOMAIN queue[u], queue'[u][i] = queue[u][i]
          PROVE  (LET x_ == queue[u][i] IN
                  /\ x_.refs = Cardinality(Owing(u, x_)) /\ (x_.refs > 0 \/ purging = u)
                  /\ x_.pins = Cardinality(Viewers(u, x_)))'
      <4>1. PICK x \in Msg : x = queue[u][i]
        BY <1>0, QueueTypes
      <4>2. purging # u
        BY <1>1, BusAssumption
      <4>3. x.refs = Cardinality(Owing(u, x)) /\ x.refs > 0 /\ x.pins = Cardinality(Viewers(u, x))
        BY <1>0, <4>1, <4>2 DEF RefsExact
      <4>4. QED
        BY <3>2, <3>3, <4>1, <4>3
    <3>4. (LET x_ == queue[t][l + 1] IN
           /\ x_.refs = Cardinality(Owing(t, x_)) /\ (x_.refs > 0 \/ purging = t)
           /\ x_.pins = Cardinality(Viewers(t, x_)))'
      <4>1. Owing(t, m) = subs[t]
        <5>1. \A s \in subs[t] : expect[s] <= g
          BY <1>0, <2>1 DEF SubsOK, SubOn
        <5>2. QED
          BY <2>4, <5>1 DEF Owing
      <4>2. Viewers(t, m) = {}
        <5>1. SUFFICES ASSUME NEW s \in subs[t], peeked[s] = Head(b) PROVE FALSE
          BY <2>4 DEF Viewers
        <5>2. s \in Sub /\ TopicOf[s] = t /\ ConsOn(s)
          BY <1>0 DEF BusTypeOK, TopicsOK, ConsOK
        <5>3. Viewing(s)
          BY <2>9, <5>1, <5>2, NilIs DEF ConsOn
        <5>4. PICK i \in 1..Len(queue[t]) : Head(b) = Head(queue[t][i].blocks)
          <6>1. cursor[s] = Head(b) /\ cursor[s] # NIL
            BY <5>1, <5>3 DEF Viewing
          <6>2. QED
            BY <1>0, <6>1, UnreadIs
        <5>5. Head(b) \in ToSet(queue[t][i].blocks)
          BY <1>0, <5>4, QueueTypes
        <5>6. PICK k \in Nat : k = queue[t][i].seq /\ chains[QueueLabel(t, k)] = queue[t][i].blocks
          BY <1>0, QueuedAt
        <5>7. /\ QueueLabel(t, k) \in Label /\ ProdLabel(p) \in Label
              /\ QueueLabel(t, k) # ProdLabel(p) /\ chains[ProdLabel(p)] = b
          BY <1>3, LabelsAre, LabelsDiffer, ChainsAre
        <5>8. QED
          BY <1>0, <2>9, <5>5, <5>6, <5>7 DEF Owned, Partition
      <4>3. m.refs = Cardinality(Owing(t, m)) /\ m.refs > 0 /\ m.pins = Cardinality(Viewers(t, m))
        BY <2>2, <2>4, <4>1, <4>2, FS_EmptySet
      <4>4. QED
        BY <2>4, <2>14, <3>2, <4>3
    <3>5. DOMAIN queue'[t] = 1..(l + 1) /\ \A i \in 1..(l + 1) : i \in 1..l \/ i = l + 1
      <4>1. \A i \in 1..(l + 1) : i \in 1..l \/ i = l + 1
        BY <2>10
      <4>2. QED
        BY <2>7, <2>14, <4>1, LenProperties
    <3>6. DOMAIN queue[t] = 1..l
      BY <1>0, <2>1, QueueTypes
    <3>7. \A i \in DOMAIN queue'[t] :
            (LET x_ == queue[t][i] IN
             /\ x_.refs = Cardinality(Owing(t, x_)) /\ (x_.refs > 0 \/ purging = t)
             /\ x_.pins = Cardinality(Viewers(t, x_)))'
      BY <2>14, <3>3, <3>4, <3>5, <3>6
    <3>8. \A u \in Topic \ {t} : \A i \in DOMAIN queue'[u] :
            (LET x_ == queue[u][i] IN
             /\ x_.refs = Cardinality(Owing(u, x_)) /\ (x_.refs > 0 \/ purging = u)
             /\ x_.pins = Cardinality(Viewers(u, x_)))'
      BY <2>7, <3>3
    <3>9. QED
      BY <3>7, <3>8 DEF RefsExact
  <2>20. TopicsOK'
    <3>1. UNCHANGED <<topics, stash, borrowed, subs, use, alloc, giving, purging>>
      BY <1>1 DEF poolVars
    <3>2. \A u \in Topic : u \notin ToSet(topics) => queue'[u] = <<>>
      BY <1>0, <1>2, <2>7 DEF TopicsOK
    <3>3. QED
      BY <1>0, <1>1, <3>1, <3>2 DEF TopicsOK, TopicOf
  <2>21. ProdOK'
    BY <1>0, <1>1, <2>8 DEF ProdOK, poolVars
  <2>22. ASSUME NEW s \in Sub PROVE ConsOn(s)'
    <3>1. ConsOn(s) /\ TopicOf[s] \in Topic /\ TopicOf' = TopicOf
      BY <1>0, <1>1, UseIs DEF ConsOK, poolVars, TopicOf
    <3>2. UNCHANGED <<use, cons, subs, expect, peeked, giving>> /\ giving.blocks = <<>>
      BY <1>1 DEF poolVars, Nothing
    <3>3. \A k \in 1..Len(log[TopicOf[s]]) : log'[TopicOf[s]][k] = log[TopicOf[s]][k]
      BY <2>1, <2>7, <2>14, <3>1
    <3>4. CASE s \in subs[t] /\ cursor[s] = NIL
      <4>1. TopicOf[s] = t
        BY <1>0, <3>4 DEF TopicsOK
      <4>2. ~Viewing(s) /\ ~Copying(s)
        BY <3>4 DEF Viewing, Copying
      <4>3. /\ cons[s].pc \notin {"view", "viewed"}
            /\ ~(cons[s].pc \in {"copy", "check"} /\ cons[s].same)
        BY <3>1, <3>2, <4>2, EmptyRange DEF ConsOn
      <4>4. QED
        BY <1>0, <2>12, <3>1, <3>2, <3>3, <4>3, ReaderKept
    <3>5. CASE ~(s \in subs[t] /\ cursor[s] = NIL)
      <4>1. cursor'[s] = cursor[s]
        BY <2>11, <3>5
      <4>2. ASSUME s \in subs[TopicOf[s]], cursor[s] # NIL PROVE Current(s)' = Current(s)
        <5>1. CASE TopicOf[s] = t
          <6>1. Unread(t, s) \in 1..l
            BY <1>0, <2>1, <4>2, <5>1, UnreadIs
          <6>2. Unread(t, s)' = Unread(t, s)
            BY <2>1, <2>14, <3>2 DEF Unread
          <6>3. QED
            BY <2>14, <3>1, <5>1, <6>1, <6>2 DEF Current
        <5>2. CASE TopicOf[s] # t
          BY SMTT(40), <2>7, <2>15, <3>1, <3>2, <5>2 DEF Current, Unread
        <5>3. QED
          BY <5>1, <5>2
      <4>3. QED
        BY <1>0, <2>12, <3>1, <3>2, <3>3, <4>1, <4>2, ReaderKept
    <3>6. QED
      BY <3>4, <3>5
  <2>23. QED
    BY <2>12, <2>16, <2>17, <2>18, <2>19, <2>20, <2>21, <2>22 DEF BusInv, ConsOK
<1>8. QED
  BY <1>2, <1>6, <1>7 DEF link_msg

\* Reader s is done with the i-th message of t, the one it stood on; q is the queue
\* without its view, if it had one.
Consuming(s, t, i, q) ==
    /\ t = TopicOf[s] /\ s \in subs[t] /\ i \in 1..Len(queue[t]) /\ i = Unread(t, s)
    /\ q \in Seq(Msg) /\ Alike(q, queue[t])
    /\ \A j \in 1..Len(queue[t]) :
         /\ q[j].refs = queue[t][j].refs
         /\ q[j].pins = Cardinality({r \in subs[t] : peeked'[r] = Head(queue[t][j].blocks)})
    /\ giving = Nothing /\ purging = NONE /\ cons[s].blocks = <<>>
    /\ Len(cons[s].out) = log[t][queue[t][i].seq + 1].n
    /\ \A k \in 1..Len(cons[s].out) : cons[s].out[k] = log[t][queue[t][i].seq + 1].id
    /\ consume(s, q, i)
    /\ peeked' \in [Sub -> Block \cup {NIL}] /\ peeked'[s] = NIL
    /\ \A r \in Sub \ {s} : peeked'[r] = peeked[r]
    /\ UNCHANGED <<poolVars, data, subs, alloc, giving, purging, prod, calls, log>>

\* A reader passes the message under its cursor, in a queue that holds the same messages.
LEMMA ConsumeStep ==
    ASSUME BusInv, NEW s \in Sub, NEW t \in Topic, NEW i \in Nat, NEW q, Consuming(s, t, i, q)
    PROVE  BusInv'
<1>a. /\ t = TopicOf[s] /\ s \in subs[t] /\ i \in 1..Len(queue[t]) /\ i = Unread(t, s)
      /\ q \in Seq(Msg) /\ Alike(q, queue[t])
  BY ZenonT(40) DEF Consuming
<1>b. \A j \in 1..Len(queue[t]) :
        /\ q[j].refs = queue[t][j].refs
        /\ q[j].pins = Cardinality({r \in subs[t] : peeked'[r] = Head(queue[t][j].blocks)})
  BY ZenonT(40) DEF Consuming
<1>c. consume(s, q, i)
  BY ZenonT(40) DEF Consuming
<1>d. giving = Nothing /\ purging = NONE /\ cons[s].blocks = <<>>
  BY ZenonT(40) DEF Consuming
<1>e. /\ peeked' \in [Sub -> Block \cup {NIL}] /\ peeked'[s] = NIL
      /\ \A r \in Sub \ {s} : peeked'[r] = peeked[r]
  BY ZenonT(40) DEF Consuming
<1>f. /\ Len(cons[s].out) = log[t][queue[t][i].seq + 1].n
      /\ \A k \in 1..Len(cons[s].out) : cons[s].out[k] = log[t][queue[t][i].seq + 1].id
  BY ZenonT(40) DEF Consuming
<1>g. UNCHANGED <<poolVars, data, subs, alloc, giving, purging, prod, calls, log>>
  BY ZenonT(40) DEF Consuming
<1>0. BusTypeOK /\ Owned /\ TopicsOK /\ ProdOK /\ QueueOK /\ RefsExact /\ SubsOK /\ ConsOK
  BY DEF BusInv
<1>1. PICK o \in Nat, l \in Nat, g \in Nat :
        o = Oldest(t) /\ l = Len(queue[t]) /\ g = Len(log[t]) /\ o + l = g
  BY <1>0, QueueTypes
<1>2. o \in Nat /\ l \in Nat /\ g \in Nat /\ o + l = g /\ i \in 1..l
  BY <1>1, <1>a
<1>3. /\ Len(q) = l /\ DOMAIN q = 1..l /\ queue[t] \in Seq(Msg)
      /\ \A j \in 1..l : /\ q[j].blocks = queue[t][j].blocks /\ q[j].seq = queue[t][j].seq
                         /\ q[j].seq = o + j - 1 /\ q[j] \in Msg /\ q[j].blocks \in Seq(Block)
                         /\ q[j].blocks # <<>> /\ Head(q[j].blocks) \in Block
  <2>1. Len(q) = l /\ DOMAIN q = 1..l
    BY <1>1, <1>a, LenProperties DEF Alike
  <2>2. \A j \in 1..l : q[j].blocks = queue[t][j].blocks /\ q[j].seq = queue[t][j].seq
    BY <1>1, <1>a DEF Alike
  <2>3. \A j \in 1..l : q[j] \in Msg
    BY <2>1, <1>a, ElementOfSeq
  <2>4. \A j \in 1..l : /\ queue[t][j].seq = o + j - 1 /\ queue[t][j].blocks \in Seq(Block)
                        /\ queue[t][j].blocks # <<>> /\ Head(queue[t][j].blocks) \in Block
    BY <1>0, <1>1, QueueTypes
  <2>5. queue[t] \in Seq(Msg)
    BY <1>0 DEF BusTypeOK
  <2>6. QED
    BY <2>1, <2>2, <2>3, <2>4, <2>5
<1>4. /\ expect' = [expect EXCEPT ![s] = q[i].seq + 1]
      /\ cursor' = [cursor EXCEPT ![s] = Link(q, i + 1)]
      /\ queue' = [queue EXCEPT ![t] = IF q[i].refs = 1 THEN Tail(q) ELSE [q EXCEPT ![i].refs = @ - 1]]
      /\ cons' = [cons EXCEPT ![s] = [NoRead EXCEPT
            !.pc = IF q[i].refs = 1 THEN "free" ELSE "got", !.out = cons[s].out,
            !.blocks = IF q[i].refs = 1 THEN q[i].blocks ELSE <<>>]]
  BY <1>a, <1>c DEF consume
<1>5. /\ expect' \in [Sub -> Nat] /\ expect'[s] = o + i
      /\ \A r \in Sub \ {s} : expect'[r] = expect[r]
  <2>1. q[i].seq + 1 = o + i /\ o + i \in Nat
    BY <1>2, <1>3
  <2>2. QED
    BY <1>0, <1>4, <2>1 DEF BusTypeOK
<1>6. /\ cursor' \in [Sub -> Block \cup {NIL}] /\ cursor'[s] = Link(q, i + 1)
      /\ \A r \in Sub \ {s} : cursor'[r] = cursor[r]
  <2>1. Link(q, i + 1) \in Block \cup {NIL}
    BY <1>3 DEF Link
  <2>2. QED
    BY <1>0, <1>4, <2>1 DEF BusTypeOK
<1>7. PICK c : c = [NoRead EXCEPT
            !.pc = IF q[i].refs = 1 THEN "free" ELSE "got", !.out = cons[s].out,
            !.blocks = IF q[i].refs = 1 THEN q[i].blocks ELSE <<>>]
  OBVIOUS
<1>8. /\ c \in Reading /\ c.pc = (IF q[i].refs = 1 THEN "free" ELSE "got") /\ c.out = cons[s].out
      /\ c.blocks = IF q[i].refs = 1 THEN q[i].blocks ELSE <<>>
  <2>1. cons[s].out \in Seq(Int) /\ <<>> \in Seq(Block) /\ q[i].blocks \in Seq(Block)
    BY <1>0, <1>2, <1>3, ConsIs, EmptySeq
  <2>2. PICK v \in {"free", "got"}, b \in Seq(Block), x \in Seq(Int) :
          /\ v = (IF q[i].refs = 1 THEN "free" ELSE "got")
          /\ b = (IF q[i].refs = 1 THEN q[i].blocks ELSE <<>>)
          /\ x = cons[s].out
    BY <2>1
  <2>3. c = [NoRead EXCEPT !.pc = v, !.out = x, !.blocks = b]
    BY <1>7, <2>2
  <2>4. c.pc = v /\ c.out = x /\ c.blocks = b
    BY <2>3 DEF NoRead
  <2>5. c \in Reading
    <3>1. c = [pc |-> v, msg |-> NIL, at |-> NIL, left |-> 0, same |-> TRUE, out |-> x, blocks |-> b]
      BY <2>3 DEF NoRead
    <3>2. v \in {"free", "got"} /\ b \in Seq(Block) /\ x \in Seq(Int)
      BY <2>2
    <3>3. QED
      BY <3>1, <3>2 DEF Reading
  <2>6. QED
    BY <2>2, <2>4, <2>5
<1>9. cons' \in [Sub -> Reading] /\ cons'[s] = c /\ \A r \in Sub \ {s} : cons'[r] = cons[r]
  BY <1>0, <1>4, <1>7, <1>8 DEF BusTypeOK
<1>10. /\ \A u \in Topic \ {t} : queue'[u] = queue[u] /\ s \notin subs[u]
       /\ subs[t] \subseteq Sub /\ t \in ToSet(topics)
  <2>1. \A u \in Topic \ {t} : queue'[u] = queue[u]
    BY <1>0, <1>4 DEF BusTypeOK
  <2>2. \A u \in Topic \ {t} : s \notin subs[u]
    BY <1>0, <1>a DEF TopicsOK
  <2>3. subs[t] \subseteq Sub /\ t \in ToSet(topics)
    BY <1>0, <1>a DEF TopicsOK, BusTypeOK
  <2>4. QED
    BY <2>1, <2>2, <2>3
\* Who has yet to read the j-th message.
<1>11. ASSUME NEW j \in 1..l
       PROVE  /\ {r \in subs[t] : expect'[r] <= o + j - 1}
                   = IF j = i THEN Owing(t, queue[t][j]) \ {s} ELSE Owing(t, queue[t][j])
              /\ s \in Owing(t, queue[t][j]) <=> i <= j
              /\ q[j].refs = Cardinality(Owing(t, queue[t][j])) /\ q[j].refs > 0
              /\ IsFiniteSet(Owing(t, queue[t][j])) /\ Cardinality(Owing(t, queue[t][j])) \in Nat
  <2>1. /\ Owing(t, queue[t][j]) = {r \in subs[t] : expect[r] <= o + j - 1}
        /\ Owing(t, queue[t][j]) = {r \in subs[t] : Unread(t, r) <= j}
        /\ IsFiniteSet(Owing(t, queue[t][j])) /\ Cardinality(Owing(t, queue[t][j])) \in Nat
    <3>1. queue[t][j].seq = o + j - 1
      BY <1>3
    <3>2. Owing(t, queue[t][j]) = {r \in subs[t] : expect[r] <= o + j - 1}
      BY <3>1 DEF Owing
    <3>3. QED
      BY <1>0, <1>1, <3>2, OwingIs
  <2>2. s \in Owing(t, queue[t][j]) <=> i <= j
    BY <1>a, <2>1
  <2>3. expect'[s] <= o + j - 1 <=> i <= j - 1
    BY <1>2, <1>5
  <2>4. expect'[s] <= o + j - 1 <=> i <= j /\ i # j
    BY <1>2, <1>11, <2>3
  <2>5. \A r \in subs[t] \ {s} : expect'[r] = expect[r]
    BY <1>5, <1>10
  <2>6. {r \in subs[t] : expect'[r] <= o + j - 1}
          = IF j = i THEN Owing(t, queue[t][j]) \ {s} ELSE Owing(t, queue[t][j])
    <3>1. \A r \in subs[t] : r # s =>
             (expect'[r] <= o + j - 1 <=> r \in Owing(t, queue[t][j]))
      BY <2>1, <2>5
    <3>2. Owing(t, queue[t][j]) \subseteq subs[t]
      BY DEF Owing
    <3>3. QED
      BY <2>2, <2>4, <3>1, <3>2
  <2>7. j \in DOMAIN queue[t] /\ purging # t
    BY <1>0, <1>1, <1>d, <1>11, QueueTypes, BusAssumption
  <2>8. q[j].refs = Cardinality(Owing(t, queue[t][j])) /\ q[j].refs > 0
    <3>1. q[j].refs = queue[t][j].refs
      BY <1>1, <1>b
    <3>2. queue[t][j].refs = Cardinality(Owing(t, queue[t][j])) /\ queue[t][j].refs > 0
      BY <1>0, <2>7 DEF RefsExact
    <3>3. QED
      BY <3>1, <3>2
  <2>9. QED
    BY <2>1, <2>2, <2>6, <2>8
\* A message left on the queue has the right counts.
<1>12. ASSUME NEW k, NEW j \in 1..l, NEW x \in Msg, queue'[t][k] = x, x.seq = q[j].seq,
              x.blocks = q[j].blocks, x.pins = q[j].pins, x.refs > 0,
              x.refs = Cardinality({r \in subs[t] : expect'[r] <= o + j - 1})
       PROVE  (LET x_ == queue[t][k] IN
               /\ x_.refs = Cardinality(Owing(t, x_)) /\ (x_.refs > 0 \/ purging = t)
               /\ x_.pins = Cardinality(Viewers(t, x_)))'
  <2>1. subs' = subs /\ x.seq = o + j - 1 /\ x.blocks = queue[t][j].blocks
    BY <1>3, <1>g, <1>12
  <2>2. Owing(t, queue[t][k])' = {r \in subs[t] : expect'[r] <= o + j - 1}
    BY <1>12, <2>1 DEF Owing
  <2>3. Viewers(t, queue[t][k])' = {r \in subs[t] : peeked'[r] = Head(queue[t][j].blocks)}
    BY <1>12, <2>1 DEF Viewers
  <2>4. q[j].pins = Cardinality({r \in subs[t] : peeked'[r] = Head(queue[t][j].blocks)})
    BY <1>1, <1>b
  <2>5. QED
    BY <1>12, <2>2, <2>3, <2>4
\* The messages of the other topics.
<1>13. ASSUME NEW u \in Topic \ {t}, NEW k \in DOMAIN queue'[u]
       PROVE  (LET x_ == queue[u][k] IN
               /\ x_.refs = Cardinality(Owing(u, x_)) /\ (x_.refs > 0 \/ purging = u)
               /\ x_.pins = Cardinality(Viewers(u, x_)))'
  <2>1. queue'[u] = queue[u] /\ subs' = subs /\ purging' = purging /\ subs[u] \subseteq Sub \ {s}
    BY <1>0, <1>g, <1>10 DEF BusTypeOK
  <2>2. Owing(u, queue[u][k])' = Owing(u, queue[u][k]) /\ Viewers(u, queue[u][k])' = Viewers(u, queue[u][k])
    BY <1>5, <1>e, <2>1 DEF Owing, Viewers
  <2>3. k \in DOMAIN queue[u]
    BY <2>1
  <2>4. LET x == queue[u][k] IN
        /\ x.refs = Cardinality(Owing(u, x)) /\ (x.refs > 0 \/ purging = u)
        /\ x.pins = Cardinality(Viewers(u, x))
    BY <1>0, <2>3 DEF RefsExact
  <2>5. QED
    BY <2>1, <2>2, <2>4
\* What the reader takes along.
<1>14. ASSUME TopicOf' = TopicOf PROVE ConsOn(s)'
  <2>1. queue[t][i].seq + 1 = o + i /\ o + i > 0
    BY SMTT(40), <1>2, <1>3
  <2>2. Delivered(s)'
    BY ZenonT(40), <1>5, <1>8, <1>9, <1>14, <1>a, <1>f, <1>g, <2>1 DEF Delivered
  <2>3. c.pc = "free" => c.blocks # <<>>
    BY <1>2, <1>3, <1>8
  <2>4. QED
    BY <1>8, <1>9, <1>14, <1>a, <1>e, <1>g, <2>2, <2>3 DEF ConsOn
<1>15. TopicOf' = TopicOf
  BY <1>g DEF poolVars, TopicOf
<1>16. ASSUME BusTypeOK', NEW r \in Sub \ {s},
              r \in subs[TopicOf[r]] /\ cursor[r] # NIL =>
                Current(r)'.blocks = Current(r).blocks /\ Current(r)'.seq = Current(r).seq
       PROVE  ConsOn(r)'
  <2>1. ConsOn(r) /\ giving.blocks = <<>> /\ use' = use
    BY <1>0, <1>d, <1>g DEF ConsOK, Nothing, poolVars
  <2>2. QED
    BY <1>0, <1>5, <1>6, <1>9, <1>e, <1>g, <1>16, <2>1, EmptyRange, ReaderKept
<1>17. ProdOK'
  BY <1>0, <1>g DEF ProdOK, poolVars
<1>18. ASSUME BusTypeOK' PROVE TopicsOK'
  <2>1. \A u \in Topic : u \notin ToSet(topics) => queue'[u] = <<>>
    BY <1>0, <1>10 DEF TopicsOK
  <2>2. UNCHANGED <<topics, stash, borrowed, subs, use, alloc, giving, purging>>
    BY <1>g DEF poolVars
  <2>3. QED
    BY <1>0, <1>d, <2>1, <2>2 DEF TopicsOK, TopicOf
<1>19. CASE q[i].refs # 1
  <2>1. PICK m \in Msg : /\ m.refs = q[i].refs - 1 /\ m.seq = q[i].seq /\ m.blocks = q[i].blocks
                         /\ m.pins = q[i].pins /\ queue'[t] = [q EXCEPT ![i] = m]
    <3>1. q[i] \in Msg
      BY <1>2, <1>3
    <3>2. PICK m : m = [q[i] EXCEPT !.refs = @ - 1]
      OBVIOUS
    <3>3. /\ m \in Msg /\ m.refs = q[i].refs - 1 /\ m.seq = q[i].seq /\ m.blocks = q[i].blocks
          /\ m.pins = q[i].pins
      BY <3>1, <3>2 DEF Msg
    <3>4. queue'[t] = [q EXCEPT ![i] = m]
      BY <1>0, <1>4, <1>19, <3>2 DEF BusTypeOK
    <3>5. QED
      BY <3>3, <3>4
  <2>2. /\ queue'[t] \in Seq(Msg) /\ Len(queue'[t]) = l /\ DOMAIN queue'[t] = 1..l
        /\ queue'[t][i] = m /\ \A j \in 1..l : j # i => queue'[t][j] = q[j]
    BY <1>2, <1>3, <1>a, <2>1, ExceptSeq, LenProperties
  <2>3. BusTypeOK'
    <3>1. queue' \in [Topic -> Seq(Msg)]
      BY <1>0, <1>4, <1>19, <2>2 DEF BusTypeOK
    <3>2. QED
      BY <1>0, <1>5, <1>6, <1>9, <1>e, <1>g, <3>1 DEF BusTypeOK, poolVars
  <2>4. \A u \in Topic : Alike(queue'[u], queue[u])
    <3>1. Alike(queue'[t], queue[t])
      BY <1>1, <1>3, <2>1, <2>2 DEF Alike
    <3>2. QED
      BY <1>10, <3>1 DEF Alike
  <2>5. /\ QueueOK' /\ \A u \in Topic : Oldest(u)' = Oldest(u)
        /\ \A u \in Topic, n \in Nat : Queued(u, n)' = Queued(u, n)
        /\ \A u \in Topic : \A r \in subs[u] : expect'[r] = expect[r] =>
             /\ Unread(u, r)' = Unread(u, r)
             /\ cursor'[r] = cursor[r] => SubOn(u, r)'
             /\ cursor[r] # NIL =>
                  /\ queue'[u][Unread(u, r)].blocks = queue[u][Unread(u, r)].blocks
                  /\ queue'[u][Unread(u, r)].seq = queue[u][Unread(u, r)].seq
    BY <1>0, <1>g, <2>3, <2>4, AlikeStep
  <2>6. SubOn(t, s)'
    <3>1. Oldest(t)' = o /\ log' = log
      BY <1>1, <1>g, <2>5
    <3>2. Unread(t, s)' = IF o + i <= o THEN 1 ELSE o + i - o + 1
      BY <1>5, <3>1 DEF Unread
    <3>3. Unread(t, s)' = i + 1 /\ o <= o + i /\ o + i <= g
      BY <1>2, <3>2
    <3>4. Link(queue'[t], i + 1) = Link(q, i + 1)
      <4>1. i + 1 \in 1..l => i + 1 # i /\ queue'[t][i + 1] = q[i + 1]
        BY <1>2, <2>2
      <4>2. QED
        BY <1>3, <2>2, <4>1 DEF Link
    <3>5. QED
      BY <1>1, <1>5, <1>6, <3>1, <3>3, <3>4 DEF SubOn
  <2>7. SubsOK'
    <3>1. \A u \in Topic : \A r \in subs[u] : r # s => SubOn(u, r)'
      <4>1. \A u \in Topic : \A r \in subs[u] : r \in Sub
        BY <1>0 DEF BusTypeOK
      <4>2. QED
        BY <1>5, <1>6, <2>5, <4>1
    <3>2. \A u \in Topic : s \in subs[u] => u = t
      BY <1>10
    <3>3. QED
      BY <1>g, <2>6, <3>1, <3>2 DEF SubsOK
  <2>8. RefsExact'
    <3>1. ASSUME NEW k \in 1..l
          PROVE  (LET x_ == queue[t][k] IN
                  /\ x_.refs = Cardinality(Owing(t, x_)) /\ (x_.refs > 0 \/ purging = t)
                  /\ x_.pins = Cardinality(Viewers(t, x_)))'
      <4>1. CASE k = i
        <5>1. /\ IsFiniteSet(Owing(t, queue[t][i])) /\ s \in Owing(t, queue[t][i])
              /\ q[i].refs = Cardinality(Owing(t, queue[t][i])) /\ q[i].refs > 0
              /\ Cardinality(Owing(t, queue[t][i])) \in Nat
              /\ {r \in subs[t] : expect'[r] <= o + i - 1} = Owing(t, queue[t][i]) \ {s}
          BY <1>2, <1>11
        <5>2. Cardinality(Owing(t, queue[t][i]) \ {s}) = Cardinality(Owing(t, queue[t][i])) - 1
          BY <5>1, FS_RemoveElement
        <5>3. m.refs = Cardinality({r \in subs[t] : expect'[r] <= o + i - 1}) /\ m.refs > 0
          <6>1. PICK n \in Nat : n = Cardinality(Owing(t, queue[t][i]))
            BY <5>1
          <6>2. n > 0 /\ n # 1 /\ m.refs = n - 1
            BY <1>19, <2>1, <5>1, <6>1
          <6>3. Cardinality({r \in subs[t] : expect'[r] <= o + i - 1}) = n - 1
            BY <5>1, <5>2, <6>1
          <6>4. QED
            BY <6>2, <6>3
        <5>4. i \in 1..l
          BY <1>2
        <5>5. QED
          BY <1>12, <2>1, <2>2, <4>1, <5>3, <5>4
      <4>2. CASE k # i
        <5>1. queue'[t][k] = q[k] /\ q[k] \in Msg
          BY <1>3, <2>2, <4>2
        <5>2. q[k].refs = Cardinality({r \in subs[t] : expect'[r] <= o + k - 1}) /\ q[k].refs > 0
          BY <1>11, <4>2
        <5>3. QED
          BY <1>12, <5>1, <5>2
      <4>3. QED
        BY <4>1, <4>2
    <3>2. QED
      BY <1>10, <1>13, <2>2, <3>1 DEF RefsExact
  <2>9. Owned'
    <3>1. \A r \in Sub : cons'[r].blocks = cons[r].blocks
      BY <1>8, <1>9, <1>19, <1>d
    <3>2. QED
      BY <1>0, <1>g, <2>5, <3>1, OwnedKept DEF poolVars
  <2>10. ASSUME NEW r \in Sub \ {s} PROVE ConsOn(r)'
    <3>1. TopicOf[r] \in Topic
      BY <1>0, UseIs
    <3>2. ASSUME r \in subs[TopicOf[r]], cursor[r] # NIL
          PROVE  Current(r)'.blocks = Current(r).blocks /\ Current(r)'.seq = Current(r).seq
      BY <1>5, <1>15, <2>5, <3>1, <3>2 DEF Current
    <3>3. QED
      BY <1>16, <2>3, <3>2
  <2>11. ConsOK'
    BY <1>14, <1>15, <2>10 DEF ConsOK
  <2>12. QED
    BY <1>17, <1>18, <2>3, <2>5, <2>7, <2>8, <2>9, <2>11 DEF BusInv
<1>20. CASE q[i].refs = 1
  \* Those behind s are gone, so nobody is before it.
  <2>1. i = 1 /\ \A r \in subs[t] \ {s} : Unread(t, r) # 1
    <3>1. 1 \in 1..l /\ i \in 1..l /\ i \in 1..Len(queue[t]) /\ i \in 1..Len(queue[t]) /\ 1 <= i
      BY <1>1, <1>2
    <3>2. Cardinality(Owing(t, queue[t][i])) = 1 /\ IsFiniteSet(Owing(t, queue[t][i])) /\ s \in Owing(t, queue[t][i])
      BY <1>11, <1>20, <3>1
    <3>3. Owing(t, queue[t][i]) = {s}
      <4>1. Cardinality(Owing(t, queue[t][i]) \ {s}) = 0 /\ IsFiniteSet(Owing(t, queue[t][i]) \ {s})
        BY <3>2, FS_RemoveElement
      <4>2. QED
        BY <3>2, <4>1, FS_EmptySet
    <3>4. Owing(t, queue[t][1]) \subseteq {s}
      <4>1. 1 \in 1..Len(queue[t]) /\ i \in 1..Len(queue[t])
        BY <1>1, <3>1
      <4>2. QED
        BY <1>0, <3>3, <4>1, OwingGrows
    <3>5. Owing(t, queue[t][1]) # {}
      <4>1. q[1].refs = Cardinality(Owing(t, queue[t][1])) /\ q[1].refs > 0
        BY <1>11, <3>1
      <4>2. QED
        BY <4>1, FS_EmptySet
    <3>6. s \in Owing(t, queue[t][1])
      BY <3>4, <3>5
    <3>7. i <= 1
      BY <1>11, <3>1, <3>6
    <3>8. i = 1
      BY <1>2, <3>7
    <3>9. Owing(t, queue[t][1]) = {r \in subs[t] : Unread(t, r) <= 1}
      BY <1>0, <1>1, <3>1, OwingIs
    <3>10. QED
      BY <3>4, <3>8, <3>9
  <2>2. /\ queue'[t] = Tail(q) /\ q # <<>> /\ queue[t] # <<>>
    <3>1. l # 0
      BY <1>2
    <3>2. QED
      BY <1>0, <1>1, <1>3, <1>4, <1>20, <3>1, EmptySeq DEF BusTypeOK
  <2>3. /\ queue'[t] \in Seq(Msg) /\ Len(queue'[t]) = l - 1 /\ DOMAIN queue'[t] = 1..(l - 1)
        /\ \A j \in 1..(l - 1) : queue'[t][j] = q[j + 1]
    <3>1. Tail(q) \in Seq(Msg) /\ Len(Tail(q)) = Len(q) - 1 /\ \A j \in 1..Len(Tail(q)) : Tail(q)[j] = q[j + 1]
      BY <1>a, <2>2, HeadTailProperties
    <3>2. DOMAIN Tail(q) = 1..Len(Tail(q))
      BY <3>1, LenProperties
    <3>3. QED
      BY <1>3, <2>2, <3>1, <3>2
  <2>4. BusTypeOK'
    <3>1. queue' \in [Topic -> Seq(Msg)]
      BY <1>0, <1>4, <1>20, <2>2, <2>3 DEF BusTypeOK
    <3>2. QED
      BY <1>0, <1>5, <1>6, <1>9, <1>e, <1>g, <3>1 DEF BusTypeOK, poolVars
  <2>5. Alike(queue'[t], Tail(queue[t]))
    <3>1. /\ Len(Tail(queue[t])) = l - 1
          /\ \A j \in 1..(l - 1) : Tail(queue[t])[j] = queue[t][j + 1]
      BY <1>1, <1>3, <2>2, HeadTailProperties
    <3>2. \A j \in 1..(l - 1) : j + 1 \in 1..l
      BY <1>2
    <3>3. ASSUME NEW j \in 1..(l - 1)
          PROVE  queue'[t][j].blocks = Tail(queue[t])[j].blocks /\ queue'[t][j].seq = Tail(queue[t])[j].seq
      <4>1. queue'[t][j] = q[j + 1] /\ Tail(queue[t])[j] = queue[t][j + 1] /\ j + 1 \in 1..l
        BY <2>3, <3>1, <3>2, <3>3
      <4>2. QED
        BY <1>3, <4>1
    <3>4. QED
      BY <2>3, <3>1, <3>3 DEF Alike
  <2>6. /\ QueueOK' /\ Oldest(t)' = o + 1
        /\ \A u \in Topic, n \in Nat :
             IF u = t /\ n = o THEN Queued(u, n) = queue[t][1].blocks /\ Queued(u, n)' = <<>>
             ELSE Queued(u, n)' = Queued(u, n)
        /\ \A u \in Topic \ {t} : \A r \in subs[u] : expect'[r] = expect[r] =>
             /\ Unread(u, r)' = Unread(u, r)
             /\ cursor'[r] = cursor[r] => SubOn(u, r)'
        /\ \A r \in subs[t] : expect'[r] = expect[r] =>
             /\ Unread(t, r) # 1 =>
                  /\ Unread(t, r)' = Unread(t, r) - 1
                  /\ cursor'[r] = cursor[r] => SubOn(t, r)'
                  /\ cursor[r] # NIL =>
                       /\ queue'[t][Unread(t, r) - 1].blocks = queue[t][Unread(t, r)].blocks
                       /\ queue'[t][Unread(t, r) - 1].seq = queue[t][Unread(t, r)].seq
    <3>1. log' = log /\ data' = data
      BY <1>g
    <3>2. queue[t] # <<>> /\ \A u \in Topic \ {t} : queue'[u] = queue[u]
      BY <1>10, <2>2
    <3>3. /\ QueueOK' /\ Oldest(t)' = Oldest(t) + 1
          /\ \A u \in Topic, n \in Nat :
               IF u = t /\ n = Oldest(t) THEN Queued(u, n) = queue[t][1].blocks /\ Queued(u, n)' = <<>>
               ELSE Queued(u, n)' = Queued(u, n)
          /\ \A u \in Topic \ {t} : \A r \in subs[u] : expect'[r] = expect[r] =>
               /\ Unread(u, r)' = Unread(u, r)
               /\ cursor'[r] = cursor[r] => SubOn(u, r)'
          /\ \A r \in subs[t] : expect'[r] = expect[r] =>
               /\ Unread(t, r) # 1 =>
                    /\ Unread(t, r)' = Unread(t, r) - 1
                    /\ cursor'[r] = cursor[r] => SubOn(t, r)'
                    /\ cursor[r] # NIL =>
                         /\ queue'[t][Unread(t, r) - 1].blocks = queue[t][Unread(t, r)].blocks
                         /\ queue'[t][Unread(t, r) - 1].seq = queue[t][Unread(t, r)].seq
      BY <1>0, <2>4, <2>5, <3>1, <3>2, TailStep
    <3>4. QED
      BY <1>1, <3>3
  <2>7. SubOn(t, s)'
    <3>1. Unread(t, s)' = IF o + 1 <= o + 1 THEN 1 ELSE o + 1 - (o + 1) + 1
      BY <1>5, <2>1, <2>6 DEF Unread
    <3>2. Unread(t, s)' = 1 /\ o + 1 <= g /\ o + 1 <= o + 1
      BY <1>2, <2>1, <3>1
    <3>3. Link(queue'[t], 1) = Link(q, 1 + 1)
      <4>1. 1 \in 1..(l - 1) <=> 1 + 1 \in 1..l
        BY <1>2
      <4>2. 1 \in 1..(l - 1) => queue'[t][1] = q[1 + 1]
        BY <2>3
      <4>3. QED
        BY <1>3, <2>3, <4>1, <4>2 DEF Link
    <3>4. QED
      BY <1>1, <1>5, <1>6, <1>g, <2>1, <2>6, <3>2, <3>3 DEF SubOn
  <2>8. SubsOK'
    <3>1. \A r \in subs[t] \ {s} : SubOn(t, r)'
      BY <1>5, <1>6, <1>10, <2>1, <2>6
    <3>2. \A u \in Topic \ {t} : \A r \in subs[u] : SubOn(u, r)'
      <4>1. \A u \in Topic \ {t} : \A r \in subs[u] : r \in Sub /\ r # s
        BY <1>0, <1>10 DEF BusTypeOK
      <4>2. QED
        BY <1>5, <1>6, <2>6, <4>1
    <3>3. QED
      BY <1>g, <2>7, <3>1, <3>2 DEF SubsOK
  <2>9. RefsExact'
    <3>1. ASSUME NEW k \in 1..(l - 1)
          PROVE  (LET x_ == queue[t][k] IN
                  /\ x_.refs = Cardinality(Owing(t, x_)) /\ (x_.refs > 0 \/ purging = t)
                  /\ x_.pins = Cardinality(Viewers(t, x_)))'
      <4>1. k + 1 \in 1..l /\ k + 1 # i
        BY <1>2, <2>1, <3>1
      <4>2. queue'[t][k] = q[k + 1] /\ q[k + 1] \in Msg
        BY <1>3, <2>3, <4>1
      <4>3. q[k + 1].refs = Cardinality({r \in subs[t] : expect'[r] <= o + (k + 1) - 1}) /\ q[k + 1].refs > 0
        BY <1>11, <4>1
      <4>4. QED
        BY <1>12, <4>1, <4>2, <4>3
    <3>2. QED
      BY <1>10, <1>13, <2>3, <3>1 DEF RefsExact
  <2>10. Owned'
    <3>1. q[i].blocks = queue[t][1].blocks /\ queue[t][1].blocks \in Seq(Block)
      BY <1>2, <1>3, <2>1
    <3>2. PICK b \in Seq(Block) : b = queue[t][1].blocks
      BY <3>1
    <3>3. cons'[s].blocks = b /\ \A r \in Sub \ {s} : cons'[r].blocks = cons[r].blocks
      BY <1>8, <1>9, <1>20, <3>1, <3>2
    <3>4. /\ ConsLabel(s) \in Label /\ chains[ConsLabel(s)] = <<>> /\ chains'[ConsLabel(s)] = b
          /\ QueueLabel(t, o) \in Label /\ chains[QueueLabel(t, o)] = b /\ chains'[QueueLabel(t, o)] = <<>>
      BY <1>1, <1>d, <2>6, <3>2, <3>3, LabelsAre, ChainsAre, ChainsAreNext
    <3>5. NoDup(b) /\ <<>> \in Seq(Block)
      BY <1>0, <3>4, EmptySeq DEF Owned, Partition
    <3>6. /\ ToSet(chains'[ConsLabel(s)]) \cap ToSet(chains'[QueueLabel(t, o)]) = {}
          /\ ToSet(chains'[ConsLabel(s)]) \cup ToSet(chains'[QueueLabel(t, o)])
               = ToSet(chains[ConsLabel(s)]) \cup ToSet(chains[QueueLabel(t, o)])
          /\ chains'[ConsLabel(s)] \in Seq(Block) /\ NoDup(chains'[ConsLabel(s)])
          /\ chains'[QueueLabel(t, o)] \in Seq(Block) /\ NoDup(chains'[QueueLabel(t, o)])
      BY <3>4, <3>5, EmptyRange
    <3>7. /\ \A u \in Topic, n \in Nat : Queued(u, n)' = Queued(u, n)
                                         \/ QueueLabel(u, n) \in {ConsLabel(s), QueueLabel(t, o)}
          /\ \A r \in Sub : cons'[r].blocks = cons[r].blocks
                            \/ ConsLabel(r) \in {ConsLabel(s), QueueLabel(t, o)}
          /\ free' = free /\ stash' = stash /\ giving' = giving /\ prod' = prod
      BY <1>g, <2>6, <3>3 DEF poolVars
    <3>8. QED
      BY <1>0, <3>4, <3>6, <3>7, OwnedMove
  <2>11. ASSUME NEW r \in Sub \ {s} PROVE ConsOn(r)'
    <3>1. TopicOf[r] \in Topic
      BY <1>0, UseIs
    <3>2. ASSUME r \in subs[TopicOf[r]], cursor[r] # NIL
          PROVE  Current(r)'.blocks = Current(r).blocks /\ Current(r)'.seq = Current(r).seq
      <4>1. CASE TopicOf[r] = t
        <5>1. Unread(t, r)' = Unread(t, r) - 1
              /\ queue'[t][Unread(t, r) - 1].blocks = queue[t][Unread(t, r)].blocks
              /\ queue'[t][Unread(t, r) - 1].seq = queue[t][Unread(t, r)].seq
          BY <1>5, <2>1, <2>6, <3>2, <4>1
        <5>2. Current(r) = queue[t][Unread(t, r)] /\ Current(r)' = queue'[t][Unread(t, r)']
          BY <1>15, <4>1 DEF Current
        <5>3. QED
          BY <5>1, <5>2
      <4>2. CASE TopicOf[r] # t
        BY SMTT(40), <1>5, <1>10, <1>15, <2>6, <3>1, <3>2, <4>2 DEF Current
      <4>3. QED
        BY <4>1, <4>2
    <3>3. QED
      BY <1>16, <2>4, <3>2
  <2>12. ConsOK'
    BY <1>14, <1>15, <2>11 DEF ConsOK
  <2>13. QED
    BY <1>17, <1>18, <2>4, <2>6, <2>8, <2>9, <2>10, <2>12 DEF BusInv
<1>21. QED
  BY <1>19, <1>20

\* Where the reader s stands while it looks at a message.
LEMMA ReadingAt ==
    ASSUME BusInv, NEW s \in Sub, NEW t \in Topic, t = TopicOf[s], s \in subs[t], cursor[s] # NIL
    PROVE  \E i \in Nat :
             /\ i \in 1..Len(queue[t]) /\ i = Unread(t, s) /\ At(t, cursor[s]) = i
             /\ cursor[s] = Head(queue[t][i].blocks) /\ Current(s) = queue[t][i]
             /\ Published(s, Current(s)) = log[t][queue[t][i].seq + 1].id
             /\ Len(queue[t][i].blocks) = log[t][queue[t][i].seq + 1].n
<1>0. BusTypeOK /\ Owned /\ QueueOK /\ SubsOK
  BY DEF BusInv
<1>1. /\ Unread(t, s) \in 1..Len(queue[t]) /\ At(t, cursor[s]) = Unread(t, s)
      /\ cursor[s] = Head(queue[t][Unread(t, s)].blocks)
  BY <1>0, UnreadIs
<1>2. Len(queue[t]) \in Nat
  BY <1>0, QueueTypes
<1>3. PICK i \in Nat : i = Unread(t, s) /\ i \in 1..Len(queue[t])
  BY <1>1, <1>2
<1>4. Current(s) = queue[t][i] /\ Published(s, Current(s)) = log[t][queue[t][i].seq + 1].id
  BY <1>3 DEF Current, Published
<1>5. Whole(t, queue[t][i])
  BY SMTT(40), <1>0, <1>3, QueueTypes
<1>6. Len(queue[t][i].blocks) = log[t][queue[t][i].seq + 1].n
  BY <1>5 DEF Whole
<1>7. QED
  BY ZenonT(40), <1>1, <1>3, <1>4, <1>6

\* v_bus_pop takes its copy for the message, or tries again.
LEMMA PopCheckStep ==
    ASSUME BusInv, NEW s \in Sub, PopCheck(s)
    PROVE  BusInv'
<1>0. BusTypeOK /\ Owned /\ TopicsOK /\ ProdOK /\ QueueOK /\ RefsExact /\ SubsOK /\ ConsOK
  BY DEF BusInv
<1>1. PICK t \in Topic : t = TopicOf[s]
  BY <1>0, UseIs
<1>2. /\ giving = Nothing /\ purging = NONE /\ cons[s].pc = "check"
      /\ UNCHANGED <<poolVars, data, subs, peeked, alloc, giving, purging, prod, calls, log>>
  BY DEF PopCheck, Unlocked
<1>3. ConsOn(s) /\ cons[s].blocks = <<>> /\ s \in subs[t] /\ peeked[s] = NIL
  BY <1>0, <1>1, <1>2 DEF ConsOK, ConsOn
<1>4. CASE /\ cons' = [cons EXCEPT ![s] = [NoRead EXCEPT !.pc = "retry"]]
           /\ UNCHANGED <<queue, cursor, expect>>
  <2>1. PICK c : c = [NoRead EXCEPT !.pc = "retry"]
    OBVIOUS
  <2>2. c \in Reading /\ c.pc = "retry" /\ c.blocks = <<>>
    <3>1. c = [pc |-> "retry", msg |-> NIL, at |-> NIL, left |-> 0, same |-> TRUE, out |-> <<>>, blocks |-> <<>>]
      BY <2>1 DEF NoRead
    <3>2. <<>> \in Seq(Int) /\ <<>> \in Seq(Block)
      BY EmptySeq
    <3>3. QED
      BY <3>1, <3>2 DEF Reading
  <2>3. UNCHANGED <<poolVars, queue, data, subVars, alloc, giving, purging, prod, calls, log>>
    BY <1>2, <1>4 DEF subVars
  <2>4. /\ BusTypeOK' /\ Owned' /\ TopicsOK' /\ ProdOK' /\ QueueOK' /\ SubsOK' /\ RefsExact'
        /\ TopicOf' = TopicOf /\ cons'[s] = c
        /\ ConsOn(s)' => ConsOK'
    BY <1>3, <1>4, <2>1, <2>2, <2>3, ReaderStep
  <2>5. ConsOn(s)'
    BY <1>1, <1>2, <1>3, <2>2, <2>4 DEF ConsOn
  <2>6. QED
    BY <2>4, <2>5 DEF BusInv
<1>5. CASE cons[s].same /\ consume(s, queue[t], At(t, cons[s].msg))
  <2>1. Copying(s) /\ cons[s].msg = cursor[s] /\ cursor[s] # NIL /\ cons[s].left = 0
    <3>1. cons[s].msg \notin ToSet(giving.blocks)
      BY <1>2, EmptyRange DEF Nothing
    <3>2. Copying(s)
      BY <1>2, <1>3, <1>5, <3>1 DEF ConsOn
    <3>3. QED
      BY <1>2, <3>2 DEF Copying
  <2>2. PICK i \in Nat :
             /\ i \in 1..Len(queue[t]) /\ i = Unread(t, s) /\ At(t, cursor[s]) = i
             /\ Current(s) = queue[t][i]
             /\ Published(s, Current(s)) = log[t][queue[t][i].seq + 1].id
             /\ Len(queue[t][i].blocks) = log[t][queue[t][i].seq + 1].n
    BY <1>1, <1>3, <2>1, ReadingAt
  <2>3. queue[t] \in Seq(Msg) /\ Alike(queue[t], queue[t]) /\ DOMAIN queue[t] = 1..Len(queue[t])
    BY <1>0, QueueTypes DEF Alike
  <2>4. \A j \in 1..Len(queue[t]) :
           queue[t][j].pins = Cardinality({r \in subs[t] : peeked'[r] = Head(queue[t][j].blocks)})
    <3>1. ASSUME NEW j \in 1..Len(queue[t])
          PROVE  queue[t][j].pins = Cardinality({r \in subs[t] : peeked'[r] = Head(queue[t][j].blocks)})
      <4>1. j \in DOMAIN queue[t]
        BY <2>3
      <4>2. queue[t][j].pins = Cardinality(Viewers(t, queue[t][j]))
        BY SMTT(40), <1>0, <4>1 DEF RefsExact
      <4>3. QED
        BY <1>2, <4>2 DEF Viewers
    <3>2. QED
      BY <3>1
  <2>5. /\ Len(cons[s].out) = log[t][queue[t][i].seq + 1].n
        /\ \A k \in 1..Len(cons[s].out) : cons[s].out[k] = log[t][queue[t][i].seq + 1].id
    <3>1. Len(cons[s].out) + 0 = Len(queue[t][i].blocks) /\ Len(cons[s].out) \in Nat
      BY <1>0, <2>1, <2>2, ConsIs DEF Copying
    <3>2. \A k \in 1..Len(cons[s].out) : cons[s].out[k] = Published(s, Current(s))
      BY <2>1 DEF Copying
    <3>3. Len(cons[s].out) = Len(queue[t][i].blocks)
      BY <3>1
    <3>4. QED
      BY ZenonT(40), <2>2, <3>2, <3>3
  <2>6. consume(s, queue[t], i)
    BY <1>5, <2>1, <2>2
  <2>7. peeked' \in [Sub -> Block \cup {NIL}] /\ peeked' = peeked
    BY SMTT(40), <1>0, <1>2 DEF BusTypeOK
  <2>8. Consuming(s, t, i, queue[t])
    BY ZenonT(40), <1>1, <1>2, <1>3, <2>2, <2>3, <2>4, <2>5, <2>6, <2>7 DEF Consuming
  <2>9. QED
    BY <2>8, ConsumeStep
<1>6. QED
  BY <1>1, <1>4, <1>5 DEF PopCheck

\* v_bus_release: the view is given up and the message consumed.
LEMMA ReleaseStep ==
    ASSUME BusInv, NEW s \in Sub, v_bus_release(s)
    PROVE  BusInv'
<1>0. BusTypeOK /\ Owned /\ TopicsOK /\ ProdOK /\ QueueOK /\ RefsExact /\ SubsOK /\ ConsOK
  BY DEF BusInv
<1>1. PICK t \in Topic : t = TopicOf[s]
  BY <1>0, UseIs
<1>2. /\ giving = Nothing /\ purging = NONE /\ cons[s].pc = "viewed"
      /\ consume(s, [queue[t] EXCEPT ![At(t, peeked[s])].pins = @ - 1], At(t, peeked[s]))
      /\ peeked' = [peeked EXCEPT ![s] = NIL]
      /\ UNCHANGED <<poolVars, data, subs, alloc, giving, purging, prod, calls, log>>
  BY <1>1 DEF v_bus_release, Unlocked
<1>3. /\ ConsOn(s) /\ cons[s].blocks = <<>> /\ s \in subs[t] /\ Viewing(s)
      /\ peeked[s] = cursor[s] /\ cursor[s] # NIL
  BY <1>0, <1>1, <1>2 DEF ConsOK, ConsOn, Viewing
<1>4. PICK i \in Nat :
           /\ i \in 1..Len(queue[t]) /\ i = Unread(t, s) /\ At(t, cursor[s]) = i
           /\ cursor[s] = Head(queue[t][i].blocks) /\ Current(s) = queue[t][i]
           /\ Published(s, Current(s)) = log[t][queue[t][i].seq + 1].id
           /\ Len(queue[t][i].blocks) = log[t][queue[t][i].seq + 1].n
  BY SMTT(40), <1>1, <1>3, ReadingAt
<1>5. queue[t] \in Seq(Msg) /\ DOMAIN queue[t] = 1..Len(queue[t]) /\ queue[t][i] \in Msg
  BY <1>0, <1>4, QueueTypes
<1>6. PICK m \in Msg : /\ m.pins = queue[t][i].pins - 1 /\ m.seq = queue[t][i].seq
                       /\ m.blocks = queue[t][i].blocks /\ m.refs = queue[t][i].refs
                       /\ m = [queue[t][i] EXCEPT !.pins = @ - 1]
  <2>1. PICK m : m = [queue[t][i] EXCEPT !.pins = @ - 1]
    OBVIOUS
  <2>2. /\ m \in Msg /\ m.pins = queue[t][i].pins - 1 /\ m.seq = queue[t][i].seq
        /\ m.blocks = queue[t][i].blocks /\ m.refs = queue[t][i].refs
    <3>1. queue[t][i] \in Msg
      BY <1>5
    <3>2. QED
      BY <2>1, <3>1 DEF Msg
  <2>3. QED
    BY <2>1, <2>2
<1>7. PICK q : q = [queue[t] EXCEPT ![i] = m]
  OBVIOUS
<1>8. /\ q \in Seq(Msg) /\ Len(q) = Len(queue[t]) /\ q[i] = m
      /\ \A j \in 1..Len(queue[t]) : j # i => q[j] = queue[t][j]
  BY <1>4, <1>5, <1>7, ExceptSeq
<1>9. consume(s, q, i)
  <2>1. [queue[t] EXCEPT ![At(t, peeked[s])].pins = @ - 1] = q /\ At(t, peeked[s]) = i
    BY <1>3, <1>4, <1>6, <1>7
  <2>2. QED
    BY <1>2, <2>1
<1>10. Alike(q, queue[t])
  BY <1>6, <1>8 DEF Alike
<1>11. /\ peeked' \in [Sub -> Block \cup {NIL}] /\ peeked'[s] = NIL
       /\ \A r \in Sub \ {s} : peeked'[r] = peeked[r]
  BY <1>0, <1>2 DEF BusTypeOK
<1>12. \A j \in 1..Len(queue[t]) :
         /\ q[j].refs = queue[t][j].refs
         /\ q[j].pins = Cardinality({r \in subs[t] : peeked'[r] = Head(queue[t][j].blocks)})
  <2>1. ASSUME NEW j \in 1..Len(queue[t])
        PROVE  q[j].pins = Cardinality({r \in subs[t] : peeked'[r] = Head(queue[t][j].blocks)})
    <3>1. j \in DOMAIN queue[t] /\ Head(queue[t][j].blocks) \in Block
      BY <1>0, <1>5, QueueTypes
    <3>2. queue[t][j].pins = Cardinality(Viewers(t, queue[t][j]))
      BY <1>0, <3>1 DEF RefsExact
    <3>3. IsFiniteSet(Viewers(t, queue[t][j])) /\ Cardinality(Viewers(t, queue[t][j])) \in Nat
      BY <1>0, OwingIs
    <3>4. {r \in subs[t] : peeked'[r] = Head(queue[t][j].blocks)} = Viewers(t, queue[t][j]) \ {s}
      <4>1. subs[t] \subseteq Sub
        BY <1>0 DEF BusTypeOK
      <4>2. QED
        BY <1>11, <3>1, <4>1, NilIs DEF Viewers
    <3>5. CASE j = i
      <4>1. s \in Viewers(t, queue[t][j])
        BY <1>3, <1>4, <3>5 DEF Viewers
      <4>2. Cardinality(Viewers(t, queue[t][j]) \ {s}) = Cardinality(Viewers(t, queue[t][j])) - 1
        BY <3>3, <4>1, FS_RemoveElement
      <4>3. QED
        BY <1>6, <1>8, <3>2, <3>4, <3>5, <4>2
    <3>6. CASE j # i
      <4>1. Head(queue[t][i].blocks) # Head(queue[t][j].blocks)
        BY <1>0, <1>4, <3>6, HeadsApart
      <4>2. s \notin Viewers(t, queue[t][j])
        BY <1>3, <1>4, <4>1 DEF Viewers
      <4>3. Viewers(t, queue[t][j]) \ {s} = Viewers(t, queue[t][j])
        BY <4>2
      <4>4. QED
        BY <1>8, <3>2, <3>4, <3>6, <4>3
    <3>7. QED
      BY <3>5, <3>6
  <2>2. \A j \in 1..Len(queue[t]) : q[j].refs = queue[t][j].refs
    BY <1>6, <1>8
  <2>3. QED
    BY <2>1, <2>2
\* The view is the whole of the message.
<1>13. /\ Len(cons[s].out) = log[t][queue[t][i].seq + 1].n
       /\ \A k \in 1..Len(cons[s].out) : cons[s].out[k] = log[t][queue[t][i].seq + 1].id
  <2>1. PICK v : v = log[t][queue[t][i].seq + 1].id
    OBVIOUS
  <2>2. cons[s].out = <<v>> /\ Len(queue[t][i].blocks) = 1
    <3>1. cons[s].pc = "viewed" /\ Viewing(s)
      BY <1>2, <1>3
    <3>2. Len(Current(s).blocks) = 1 /\ cons[s].out = <<Published(s, Current(s))>>
      BY <3>1 DEF Viewing
    <3>3. QED
      BY <1>4, <2>1, <3>2
  <2>3. Len(<<v>>) = 1 /\ <<v>>[1] = v /\ 1..1 = {1}
    OBVIOUS
  <2>4. QED
    BY <1>4, <2>1, <2>2, <2>3
<1>14. Consuming(s, t, i, q)
  BY ZenonT(40), <1>1, <1>2, <1>3, <1>4, <1>8, <1>9, <1>10, <1>11, <1>12, <1>13 DEF Consuming
<1>15. QED
  BY <1>14, ConsumeStep

\* v_bus_peek pins the message under the cursor.
LEMMA PeekStep ==
    ASSUME BusInv, NEW s \in Sub, v_bus_peek(s)
    PROVE  BusInv'
<1>0. BusTypeOK /\ Owned /\ TopicsOK /\ ProdOK /\ QueueOK /\ RefsExact /\ SubsOK /\ ConsOK
  BY DEF BusInv
<1>1. PICK t \in Topic : t = TopicOf[s]
  BY <1>0, UseIs
<1>2. /\ s \in subs[t] /\ cons[s].pc = "idle" /\ cursor[s] # NIL
      /\ Len(queue[t][At(t, cursor[s])].blocks) = 1
      /\ queue' = [queue EXCEPT ![t][At(t, cursor[s])].pins = @ + 1]
      /\ peeked' = [peeked EXCEPT ![s] = cursor[s]]
      /\ cons' = [cons EXCEPT ![s].pc = "view"]
      /\ UNCHANGED <<poolVars, data, subs, cursor, expect, alloc, giving, purging, prod, calls, log>>
  BY <1>1 DEF v_bus_peek
<1>3. ConsOn(s) /\ cons[s].blocks = <<>> /\ peeked[s] = NIL /\ cons[s] \in Reading
  BY <1>0, <1>1, <1>2, ConsIs DEF ConsOK, ConsOn
<1>4. PICK i \in Nat :
           /\ i \in 1..Len(queue[t]) /\ i = Unread(t, s) /\ At(t, cursor[s]) = i
           /\ cursor[s] = Head(queue[t][i].blocks) /\ Current(s) = queue[t][i]
  BY <1>1, <1>2, ReadingAt
<1>5. /\ queue[t] \in Seq(Msg) /\ DOMAIN queue[t] = 1..Len(queue[t]) /\ Len(queue[t]) \in Nat
      /\ \A j \in 1..Len(queue[t]) : queue[t][j] \in Msg /\ Head(queue[t][j].blocks) \in Block
  BY <1>0, QueueTypes
<1>6. PICK m \in Msg : /\ m.pins = queue[t][i].pins + 1 /\ m.seq = queue[t][i].seq
                       /\ m.blocks = queue[t][i].blocks /\ m.refs = queue[t][i].refs
                       /\ m = [queue[t][i] EXCEPT !.pins = @ + 1]
  <2>1. PICK m : m = [queue[t][i] EXCEPT !.pins = @ + 1]
    OBVIOUS
  <2>2. queue[t][i] \in Msg
    BY <1>4, <1>5
  <2>3. /\ m \in Msg /\ m.pins = queue[t][i].pins + 1 /\ m.seq = queue[t][i].seq
        /\ m.blocks = queue[t][i].blocks /\ m.refs = queue[t][i].refs
    BY <2>1, <2>2 DEF Msg
  <2>4. QED
    BY <2>1, <2>3
<1>7. PICK q : q = [queue[t] EXCEPT ![i] = m]
  OBVIOUS
<1>8. /\ q \in Seq(Msg) /\ Len(q) = Len(queue[t]) /\ q[i] = m
      /\ \A j \in 1..Len(queue[t]) : j # i => q[j] = queue[t][j]
  BY <1>4, <1>5, <1>7, ExceptSeq
<1>9. /\ queue' \in [Topic -> Seq(Msg)] /\ queue'[t] = q
      /\ \A u \in Topic \ {t} : queue'[u] = queue[u]
  <2>1. queue' = [queue EXCEPT ![t] = q]
    BY <1>2, <1>4, <1>6, <1>7
  <2>2. QED
    BY <1>0, <1>8, <2>1 DEF BusTypeOK
<1>10. /\ peeked' \in [Sub -> Block \cup {NIL}] /\ peeked'[s] = cursor[s]
       /\ \A r \in Sub \ {s} : peeked'[r] = peeked[r]
  BY <1>0, <1>2 DEF BusTypeOK
<1>11. PICK c \in Reading : /\ c = [cons[s] EXCEPT !.pc = "view"] /\ c.pc = "view"
                            /\ c.blocks = cons[s].blocks
  <2>1. PICK c : c = [cons[s] EXCEPT !.pc = "view"]
    OBVIOUS
  <2>2. c \in Reading /\ c.pc = "view" /\ c.blocks = cons[s].blocks
    BY <1>3, <2>1 DEF Reading
  <2>3. QED
    BY <2>1, <2>2
<1>12. cons' \in [Sub -> Reading] /\ cons'[s] = c /\ \A r \in Sub \ {s} : cons'[r] = cons[r]
  BY <1>0, <1>2, <1>11 DEF BusTypeOK
<1>13. BusTypeOK'
  BY <1>0, <1>2, <1>9, <1>10, <1>12 DEF BusTypeOK, poolVars
<1>14. \A u \in Topic : Alike(queue'[u], queue[u])
  <2>1. Alike(q, queue[t])
    BY <1>6, <1>8 DEF Alike
  <2>2. QED
    BY <1>9, <2>1 DEF Alike
<1>15. /\ QueueOK' /\ \A u \in Topic : Oldest(u)' = Oldest(u)
       /\ \A u \in Topic, n \in Nat : Queued(u, n)' = Queued(u, n)
       /\ \A u \in Topic : \A r \in subs[u] :
            /\ Unread(u, r)' = Unread(u, r)
            /\ SubOn(u, r)'
            /\ cursor[r] # NIL =>
                 /\ queue'[u][Unread(u, r)].blocks = queue[u][Unread(u, r)].blocks
                 /\ queue'[u][Unread(u, r)].seq = queue[u][Unread(u, r)].seq
  BY <1>0, <1>2, <1>13, <1>14, AlikeStep
<1>16. SubsOK'
  BY <1>2, <1>15 DEF SubsOK
<1>17. TopicOf' = TopicOf /\ subs' = subs /\ subs[t] \subseteq Sub
  BY <1>0, <1>2 DEF BusTypeOK, poolVars, TopicOf
<1>18. RefsExact'
  <2>1. ASSUME NEW u \in Topic, NEW j \in 1..Len(queue[u])
        PROVE  /\ Owing(u, queue[u][j])' = Owing(u, queue[u][j])
               /\ Viewers(u, queue[u][j])' = {r \in subs[u] : peeked'[r] = Head(queue[u][j].blocks)}
    <3>1. /\ queue'[u][j].blocks = queue[u][j].blocks /\ queue'[u][j].seq = queue[u][j].seq
      BY <1>14 DEF Alike
    <3>2. QED
      BY <1>2, <3>1 DEF Owing, Viewers
  <2>2. ASSUME NEW u \in Topic, NEW j \in 1..Len(queue[u])
        PROVE  /\ queue[u][j].refs = Cardinality(Owing(u, queue[u][j]))
               /\ queue[u][j].refs > 0 \/ purging = u
               /\ queue[u][j].pins = Cardinality(Viewers(u, queue[u][j]))
    <3>1. j \in DOMAIN queue[u]
      BY <1>0, <2>2, QueueTypes
    <3>2. QED
      BY <1>0, <3>1 DEF RefsExact
  <2>3. ASSUME NEW u \in Topic \ {t}, NEW j \in 1..Len(queue[u])
        PROVE  (LET x_ == queue[u][j] IN
                /\ x_.refs = Cardinality(Owing(u, x_)) /\ (x_.refs > 0 \/ purging = u)
                /\ x_.pins = Cardinality(Viewers(u, x_)))'
    <3>1. \A r \in subs[u] : r # s /\ r \in Sub
      BY <1>0, <1>1 DEF TopicsOK, BusTypeOK
    <3>2. Viewers(u, queue[u][j])' = Viewers(u, queue[u][j])
      BY <1>10, <2>1, <3>1 DEF Viewers
    <3>3. queue'[u] = queue[u] /\ purging' = purging
      BY <1>2, <1>9
    <3>4. QED
      BY <2>1, <2>2, <3>2, <3>3
  <2>4. ASSUME NEW j \in 1..Len(queue[t])
        PROVE  (LET x_ == queue[t][j] IN
                /\ x_.refs = Cardinality(Owing(t, x_)) /\ (x_.refs > 0 \/ purging = t)
                /\ x_.pins = Cardinality(Viewers(t, x_)))'
    <3>1. s \notin Viewers(t, queue[t][j]) /\ IsFiniteSet(Viewers(t, queue[t][j]))
      BY <1>0, <1>3, <1>5, NilIs, OwingIs DEF Viewers
    <3>2. CASE j = i
      <4>1. Viewers(t, queue[t][j])' = Viewers(t, queue[t][j]) \cup {s}
        BY <1>2, <1>4, <1>10, <1>17, <2>1, <3>2 DEF Viewers
      <4>2. Cardinality(Viewers(t, queue[t][j]) \cup {s}) = Cardinality(Viewers(t, queue[t][j])) + 1
        BY <3>1, FS_AddElement
      <4>3. queue'[t][j] = m
        BY <1>8, <1>9, <3>2
      <4>4. m.pins = Cardinality(Viewers(t, queue[t][j])')
        BY <1>6, <2>2, <3>2, <4>1, <4>2
      <4>5. m.refs = Cardinality(Owing(t, queue[t][j])') /\ (m.refs > 0 \/ purging' = t)
        BY <1>2, <1>6, <2>1, <2>2, <3>2
      <4>6. QED
        BY <4>3, <4>4, <4>5
    <3>3. CASE j # i
      <4>1. Head(queue[t][i].blocks) # Head(queue[t][j].blocks)
        BY <1>0, <1>4, <3>3, HeadsApart
      <4>2. Viewers(t, queue[t][j])' = Viewers(t, queue[t][j])
        BY <1>4, <1>10, <1>17, <2>1, <3>1, <4>1 DEF Viewers
      <4>3. queue'[t][j] = queue[t][j] /\ purging' = purging
        BY <1>2, <1>8, <1>9, <3>3
      <4>4. QED
        BY <2>1, <2>2, <4>2, <4>3
    <3>4. QED
      BY <3>2, <3>3
  <2>5. \A u \in Topic : DOMAIN queue'[u] = 1..Len(queue[u])
    BY <1>9, <1>14, LenProperties DEF Alike
  <2>6. QED
    BY <2>3, <2>4, <2>5 DEF RefsExact
<1>19. Owned'
  <2>1. \A r \in Sub : cons'[r].blocks = cons[r].blocks
    BY <1>11, <1>12
  <2>2. QED
    BY <1>0, <1>2, <1>15, <2>1, OwnedKept DEF poolVars
<1>20. TopicsOK'
  <2>1. t \in ToSet(topics)
    BY <1>0, <1>2 DEF TopicsOK
  <2>2. \A u \in Topic : u \notin ToSet(topics) => queue'[u] = <<>>
    BY <1>0, <1>9, <2>1 DEF TopicsOK
  <2>3. UNCHANGED <<topics, stash, borrowed, subs, use, alloc, giving, purging>>
    BY <1>2 DEF poolVars
  <2>4. purging = NONE
    BY DEF v_bus_peek, Unlocked
  <2>5. QED
    BY <1>0, <2>2, <2>3, <2>4 DEF TopicsOK, TopicOf
<1>21. ProdOK'
  BY <1>0, <1>2 DEF ProdOK, poolVars
<1>22. \A r \in Sub : r \in subs[TopicOf[r]] /\ cursor[r] # NIL =>
          Current(r)'.blocks = Current(r).blocks /\ Current(r)'.seq = Current(r).seq
  <2>1. ASSUME NEW r \in Sub, r \in subs[TopicOf[r]], cursor[r] # NIL
        PROVE  Current(r)'.blocks = Current(r).blocks /\ Current(r)'.seq = Current(r).seq
    <3>1. TopicOf[r] \in Topic
      BY <1>0, UseIs
    <3>2. QED
      BY <1>15, <1>17, <2>1, <3>1 DEF Current
  <2>2. QED
    BY <2>1
<1>23. ConsOn(s)'
  <2>1. Len(Current(s)'.blocks) = 1
    BY <1>1, <1>2, <1>4, <1>22
  <2>2. Viewing(s)'
    BY <1>2, <1>10, <1>11, <1>12, <2>1 DEF Viewing
  <2>3. QED
    BY <1>1, <1>2, <1>3, <1>11, <1>12, <1>17, <2>2 DEF ConsOn
<1>24. ASSUME NEW r \in Sub \ {s} PROVE ConsOn(r)'
  <2>1. ConsOn(r) /\ use' = use /\ log' = log
    BY <1>0, <1>2 DEF ConsOK, poolVars
  <2>2. QED
    BY <1>0, <1>2, <1>10, <1>12, <1>13, <1>17, <1>22, <2>1, ReaderKept
<1>25. QED
  BY <1>13, <1>15, <1>16, <1>18, <1>19, <1>20, <1>21, <1>23, <1>24 DEF BusInv, ConsOK

\* What a reader that leaves gives up: its view, and its claim on each unread message.
LEMMA DisclaimedIs ==
    ASSUME BusTypeOK, Owned, QueueOK, SubsOK, RefsExact, NEW s \in Sub, NEW t \in Topic,
           t = TopicOf[s], s \in subs[t]
    PROVE  /\ Disclaimed(s) \in Seq(Msg) /\ Alike(Disclaimed(s), queue[t])
           /\ Len(Disclaimed(s)) = Len(queue[t])
           /\ \A j \in 1..Len(queue[t]) :
                /\ Disclaimed(s)[j].refs = Cardinality(Owing(t, queue[t][j]) \ {s})
                /\ Disclaimed(s)[j].pins = Cardinality(Viewers(t, queue[t][j]) \ {s})
<1>1. PICK l \in Nat : l = Len(queue[t]) /\ DOMAIN queue[t] = 1..l
  BY QueueTypes
<1>2. PICK q : q = Disclaimed(s)
  OBVIOUS
<1>3. ASSUME NEW j \in 1..l
      PROVE  /\ q[j] \in Msg /\ q[j].blocks = queue[t][j].blocks /\ q[j].seq = queue[t][j].seq
             /\ q[j].refs = Cardinality(Owing(t, queue[t][j]) \ {s})
             /\ q[j].pins = Cardinality(Viewers(t, queue[t][j]) \ {s})
  <2>0. j \in 1..Len(queue[t]) /\ j \in DOMAIN queue[t]
    BY <1>1, <1>3
  <2>1. PICK m \in Msg : m = queue[t][j]
    BY <2>0, QueueTypes
  <2>2. PICK pins : pins = IF peeked[s] = Head(m.blocks) THEN m.pins - 1 ELSE m.pins
    OBVIOUS
  <2>3. PICK refs : refs = IF cursor[s] # NIL /\ j >= At(t, cursor[s]) THEN m.refs - 1 ELSE m.refs
    BY SMTT(40)
  <2>4. q[j] = [m EXCEPT !.pins = pins, !.refs = refs]
    BY <1>2, <2>0, <2>1, <2>2, <2>3 DEF Disclaimed
  <2>5. m.pins \in Int /\ m.refs \in Int
    BY <2>1 DEF Msg
  <2>6. pins \in Int /\ refs \in Int
    BY <2>2, <2>3, <2>5
  <2>7. /\ q[j] \in Msg /\ q[j].blocks = m.blocks /\ q[j].seq = m.seq
        /\ q[j].refs = refs /\ q[j].pins = pins
    BY <2>1, <2>4, <2>6 DEF Msg
  <2>8. /\ m.refs = Cardinality(Owing(t, m)) /\ m.pins = Cardinality(Viewers(t, m))
        /\ IsFiniteSet(Owing(t, m)) /\ IsFiniteSet(Viewers(t, m))
    BY <2>0, <2>1, OwingIs DEF RefsExact
  <2>9. pins = Cardinality(Viewers(t, m) \ {s})
    <3>1. s \in Viewers(t, m) <=> peeked[s] = Head(m.blocks)
      BY DEF Viewers
    <3>3. Cardinality(Viewers(t, m) \ {s}) = IF s \in Viewers(t, m) THEN Cardinality(Viewers(t, m)) - 1 ELSE Cardinality(Viewers(t, m))
      BY <2>8, FS_RemoveElement
    <3>2. QED
      BY <2>2, <2>8, <3>1, <3>3
  <2>10. refs = Cardinality(Owing(t, m) \ {s})
    <3>1. PICK u \in Nat : u = Unread(t, s) /\ u \in 1..(l + 1)
      BY <1>1, UnreadIs
    <3>2. s \in Owing(t, m) <=> u <= j
      BY <2>0, <2>1, <3>1, OwingIs
    <3>3. cursor[s] = NIL <=> u = l + 1
      BY <1>1, <3>1, UnreadIs
    <3>4. cursor[s] # NIL => At(t, cursor[s]) = u
      BY <3>1, UnreadIs
    <3>5. (cursor[s] # NIL /\ j >= At(t, cursor[s])) <=> u <= j
      BY <1>3, <3>1, <3>3, <3>4
    <3>6. refs = IF s \in Owing(t, m) THEN m.refs - 1 ELSE m.refs
      BY <2>3, <3>2, <3>5
    <3>8. Cardinality(Owing(t, m) \ {s}) = IF s \in Owing(t, m) THEN Cardinality(Owing(t, m)) - 1 ELSE Cardinality(Owing(t, m))
      BY <2>8, FS_RemoveElement
    <3>7. QED
      BY <2>8, <3>6, <3>8
  <2>11. QED
    BY <2>1, <2>7, <2>9, <2>10
<1>4. q \in Seq(Msg) /\ Len(q) = l
  <2>1. q \in [1..l -> Msg]
    BY ZenonT(40), <1>1, <1>2, <1>3 DEF Disclaimed
  <2>2. QED
    BY <2>1, FcnIsSeq
<1>5. QED
  BY <1>1, <1>2, <1>3, <1>4 DEF Alike

\* v_bus_unsubscribe, up to its last loop.
LEMMA UnsubscribeStep ==
    ASSUME BusInv, NEW s \in Sub, v_bus_unsubscribe(s)
    PROVE  BusInv'
<1>0. BusTypeOK /\ Owned /\ TopicsOK /\ ProdOK /\ QueueOK /\ RefsExact /\ SubsOK /\ ConsOK
  BY DEF BusInv
<1>1. PICK t \in Topic : t = TopicOf[s]
  BY <1>0, UseIs
<1>2. PICK q : q = Disclaimed(s)
  OBVIOUS
<1>3. /\ alloc = NONE /\ giving = Nothing /\ purging = NONE
      /\ s \in subs[t] /\ cons[s].pc \in {"idle", "view", "viewed"}
      /\ subs' = [subs EXCEPT ![t] = @ \ {s}] /\ queue' = [queue EXCEPT ![t] = q]
      /\ purging' = IF Orphaned(q) THEN t ELSE NONE
      /\ cons' = [cons EXCEPT ![s] = NoRead]
      /\ UNCHANGED <<poolVars, data, cursor, expect, peeked, alloc, giving, prod, calls, log>>
  BY <1>1, <1>2 DEF v_bus_unsubscribe, Unlocked
<1>4. cons[s].blocks = <<>>
  BY <1>0, <1>3 DEF ConsOK, ConsOn
<1>5. /\ q \in Seq(Msg) /\ Alike(q, queue[t]) /\ Len(q) = Len(queue[t])
      /\ \A j \in 1..Len(queue[t]) :
           /\ q[j].refs = Cardinality(Owing(t, queue[t][j]) \ {s})
           /\ q[j].pins = Cardinality(Viewers(t, queue[t][j]) \ {s})
  BY <1>0, <1>1, <1>2, <1>3, DisclaimedIs
<1>6. /\ queue' \in [Topic -> Seq(Msg)] /\ queue'[t] = q
      /\ \A u \in Topic \ {t} : queue'[u] = queue[u]
  BY <1>0, <1>3, <1>5 DEF BusTypeOK
<1>7. /\ subs' \in [Topic -> SUBSET Sub] /\ subs'[t] = subs[t] \ {s}
      /\ \A u \in Topic \ {t} : subs'[u] = subs[u] /\ s \notin subs[u]
  BY <1>0, <1>1, <1>3 DEF BusTypeOK, TopicsOK
<1>8. cons' \in [Sub -> Reading] /\ cons'[s] = NoRead /\ \A r \in Sub \ {s} : cons'[r] = cons[r]
  <2>1. NoRead \in Reading
    BY EmptySeq DEF NoRead, Reading
  <2>2. QED
    BY <1>0, <1>3, <2>1 DEF BusTypeOK
<1>9. BusTypeOK'
  BY <1>0, <1>3, <1>6, <1>7, <1>8 DEF BusTypeOK, poolVars
<1>10. \A u \in Topic : Alike(queue'[u], queue[u])
  BY <1>5, <1>6 DEF Alike
<1>11. /\ QueueOK' /\ \A u \in Topic : Oldest(u)' = Oldest(u)
       /\ \A u \in Topic, n \in Nat : Queued(u, n)' = Queued(u, n)
       /\ \A u \in Topic : \A r \in subs[u] :
            /\ Unread(u, r)' = Unread(u, r)
            /\ SubOn(u, r)'
            /\ cursor[r] # NIL =>
                 /\ queue'[u][Unread(u, r)].blocks = queue[u][Unread(u, r)].blocks
                 /\ queue'[u][Unread(u, r)].seq = queue[u][Unread(u, r)].seq
  BY <1>0, <1>3, <1>9, <1>10, AlikeStep
<1>12. SubsOK'
  <2>1. \A u \in Topic : subs'[u] \subseteq subs[u]
    BY <1>7
  <2>2. QED
    BY <1>11, <2>1 DEF SubsOK
<1>13. TopicOf' = TopicOf /\ t # NONE
  BY <1>3, BusAssumption DEF poolVars, TopicOf
<1>14. ASSUME NEW j \in 1..Len(queue[t])
       PROVE  (LET x_ == queue[t][j] IN
               /\ x_.refs = Cardinality(Owing(t, x_)) /\ (x_.refs > 0 \/ purging = t)
               /\ x_.pins = Cardinality(Viewers(t, x_)))'
  <2>1. queue'[t][j].blocks = queue[t][j].blocks /\ queue'[t][j].seq = queue[t][j].seq
    BY <1>10 DEF Alike
  <2>2. /\ Owing(t, queue[t][j])' = Owing(t, queue[t][j]) \ {s}
        /\ Viewers(t, queue[t][j])' = Viewers(t, queue[t][j]) \ {s}
    BY <1>3, <1>7, <2>1 DEF Owing, Viewers
  <2>3. ASSUME ~Orphaned(q) PROVE q[j].refs > 0
    <3>1. Len(queue[t]) \in Nat
      BY <1>0, QueueTypes
    <3>2. 1 \in 1..Len(queue[t]) /\ j \in 1..Len(queue[t])
      BY <1>14, <3>1
    <3>3. q # <<>>
      <4>1. Len(q) # 0
        BY <1>5, <3>1, <3>2
      <4>2. QED
        BY <4>1, EmptySeq
    <3>4. q[1].refs # 0 /\ q[1].refs = Cardinality(Owing(t, queue[t][1]) \ {s})
      BY <1>5, <2>3, <3>2, <3>3 DEF Orphaned
    <3>5. /\ Owing(t, queue[t][1]) \subseteq Owing(t, queue[t][j])
          /\ IsFiniteSet(Owing(t, queue[t][1])) /\ IsFiniteSet(Owing(t, queue[t][j]))
      BY <1>0, <3>2, OwingIs, OwingGrows
    <3>6. /\ Owing(t, queue[t][1]) \ {s} \subseteq Owing(t, queue[t][j]) \ {s}
          /\ IsFiniteSet(Owing(t, queue[t][1]) \ {s}) /\ IsFiniteSet(Owing(t, queue[t][j]) \ {s})
      BY <3>5, FS_RemoveElement
    <3>7. /\ Cardinality(Owing(t, queue[t][1]) \ {s}) <= Cardinality(Owing(t, queue[t][j]) \ {s})
          /\ Cardinality(Owing(t, queue[t][1]) \ {s}) \in Nat
          /\ Cardinality(Owing(t, queue[t][j]) \ {s}) \in Nat
      BY <3>6, FS_Subset, FS_CardinalityType
    <3>8. PICK n \in Nat, k \in Nat : /\ n = Cardinality(Owing(t, queue[t][1]) \ {s})
                                      /\ k = Cardinality(Owing(t, queue[t][j]) \ {s})
      BY <3>7
    <3>9. n # 0 /\ n <= k
      BY <3>4, <3>7, <3>8
    <3>10. q[j].refs = k
      BY <1>5, <3>2, <3>8
    <3>11. QED
      BY <3>8, <3>9, <3>10
  <2>4. q[j].refs > 0 \/ purging' = t
    BY <1>3, <2>3
  <2>5. QED
    BY <1>5, <1>6, <2>2, <2>4
<1>15. ASSUME NEW u \in Topic \ {t}, NEW j \in DOMAIN queue'[u]
       PROVE  (LET x_ == queue[u][j] IN
               /\ x_.refs = Cardinality(Owing(u, x_)) /\ (x_.refs > 0 \/ purging = u)
               /\ x_.pins = Cardinality(Viewers(u, x_)))'
  <2>1. queue'[u] = queue[u] /\ subs'[u] = subs[u] /\ purging # u /\ j \in DOMAIN queue[u]
    BY <1>3, <1>6, <1>7, <1>15, BusAssumption
  <2>2. /\ Owing(u, queue[u][j])' = Owing(u, queue[u][j])
        /\ Viewers(u, queue[u][j])' = Viewers(u, queue[u][j])
    BY <1>3, <2>1 DEF Owing, Viewers
  <2>3. LET x == queue[u][j] IN
        /\ x.refs = Cardinality(Owing(u, x)) /\ x.refs > 0
        /\ x.pins = Cardinality(Viewers(u, x))
    BY <1>0, <2>1 DEF RefsExact
  <2>4. QED
    BY <2>1, <2>2, <2>3
<1>16. RefsExact'
  <2>1. DOMAIN queue'[t] = 1..Len(queue[t])
    BY <1>5, <1>6, LenProperties
  <2>2. QED
    BY <1>14, <1>15, <2>1 DEF RefsExact
<1>17. Owned'
  <2>1. \A r \in Sub : cons'[r].blocks = cons[r].blocks
    BY <1>4, <1>8 DEF NoRead
  <2>2. QED
    BY <1>0, <1>3, <1>11, <2>1, OwnedKept DEF poolVars
<1>18. TopicsOK'
  <2>1. t \in ToSet(topics)
    BY <1>0, <1>3 DEF TopicsOK
  <2>2. \A u \in Topic : u \notin ToSet(topics) => queue'[u] = <<>> /\ subs'[u] = {}
    BY <1>0, <1>6, <1>7, <2>1 DEF TopicsOK
  <2>3. UNCHANGED <<topics, stash, borrowed, use, alloc, giving>>
    BY <1>3 DEF poolVars
  <2>4. purging' # NONE => Orphaned(queue'[purging'])
    BY <1>3, <1>6
  <2>5. \A u \in Topic : \A r \in subs'[u] : TopicOf[r] = u
    BY <1>0, <1>7 DEF TopicsOK
  <2>6. QED
    BY <1>0, <1>3, <1>13, <2>2, <2>3, <2>4, <2>5 DEF TopicsOK
<1>19. ProdOK'
  BY <1>0, <1>3 DEF ProdOK, poolVars
<1>20. ConsOn(s)'
  BY <1>1, <1>7, <1>8, <1>13 DEF ConsOn, NoRead
<1>21. ASSUME NEW r \in Sub \ {s} PROVE ConsOn(r)'
  <2>1. ConsOn(r) /\ TopicOf[r] \in Topic
    BY <1>0, UseIs DEF ConsOK
  <2>2. r \in subs'[TopicOf[r]] <=> r \in subs[TopicOf[r]]
    BY <1>7, <2>1
  <2>3. ASSUME r \in subs[TopicOf[r]], cursor[r] # NIL
        PROVE  Current(r)'.blocks = Current(r).blocks /\ Current(r)'.seq = Current(r).seq
    BY <1>11, <1>13, <2>1, <2>3 DEF Current
  <2>4. use' = use /\ log' = log /\ giving' = giving
    BY <1>3 DEF poolVars
  <2>5. QED
    BY <1>0, <1>3, <1>8, <1>9, <2>1, <2>2, <2>3, <2>4, ReaderKept
<1>22. QED
  BY <1>9, <1>11, <1>12, <1>16, <1>17, <1>18, <1>19, <1>20, <1>21 DEF BusInv, ConsOK
------------------------------------------------------------------------------
(* Every step keeps the invariant *)

\* Every step keeps the invariant.
LEMMA BusInvStep ==
    ASSUME BusInv, [BusNext]_bus_vars PROVE BusInv'
<1>1. ASSUME NEW t \in Topic, v_bus_topic_declare(t) PROVE BusInv'
  BY <1>1, DeclareStep
<1>2. ASSUME NEW p \in Producer, Publish(p) PROVE BusInv'
  BY <1>2, CallStep, AllocMsgStep, CopyInStep, LinkStep, CancelStep DEF Publish
<1>3. ASSUME NEW s \in Sub, Read(s) PROVE BusInv'
  BY <1>3, SubscribeStep, UnsubscribeStep, PopStep, CopyOutStep, PopCheckStep, FreeConsumedStep,
     PopReturnsStep, PeekStep, ViewReadStep, ReleaseStep DEF Read
<1>4. CASE Locked
  BY <1>4, FreeOrphanStep, FreeChainStep, AllocTakeStep, AllocEvictStep, AllocGiveBackStep DEF Locked
<1>5. CASE UNCHANGED bus_vars
  <2>1. BusTypeOK' /\ TopicsOK' /\ ProdOK'
    BY <1>5 DEF BusInv, BusTypeOK, TopicsOK, ProdOK, TopicOf, bus_vars, poolVars, subVars
  <2>2. QueueOK' /\ RefsExact' /\ SubsOK'
    BY <1>5, <2>1, StayStep DEF BusInv, bus_vars, poolVars, subVars
  <2>3. /\ \A t \in Topic, n \in Nat : Queued(t, n)' = Queued(t, n)
        /\ \A s \in Sub : ConsOn(s) => ConsOn(s)'
    BY <1>5, <2>1, StayStep DEF BusInv, bus_vars, poolVars, subVars
  <2>4. Owned'
    BY <1>5, <2>3, OwnedKept DEF BusInv, bus_vars, poolVars
  <2>5. QED
    BY <2>1, <2>2, <2>3, <2>4 DEF BusInv, ConsOK
<1>6. QED
  BY <1>1, <1>2, <1>3, <1>4, <1>5 DEF BusNext

(* What the invariant means *)

\* Every block is in one place.
LEMMA InvBlocks ==
    ASSUME BusInv PROVE BlocksAccounted
<1>0. BusTypeOK /\ QueueOK /\ Partition(chains)
  BY DEF BusInv, Owned
<1>1. ASSUME NEW b \in Block PROVE \E h \in Homes : b \in ToSet(h[3])
  <2>1. PICK L \in Label : b \in ToSet(chains[L])
    BY <1>0 DEF Partition
  <2>2. chains[L] # <<>>
    BY <2>1, EmptyRange
  <2>3. PICK h \in Homes : h[3] = chains[L]
    BY <1>0, <2>2, HomesAre
  <2>4. QED
    BY <2>1, <2>3
<1>2. ASSUME NEW h \in Homes
      PROVE  /\ IsInjective(h[3])
             /\ \A g \in Homes : g # h => ToSet(g[3]) \cap ToSet(h[3]) = {}
  <2>1. PICK L \in Label : h = HomeOf(L) /\ h[3] = chains[L]
    BY <1>0, HomesAre
  <2>2. IsInjective(h[3])
    BY <1>0, <2>1 DEF Partition, NoDup, IsInjective
  <2>3. ASSUME NEW g \in Homes, g # h PROVE ToSet(g[3]) \cap ToSet(h[3]) = {}
    <3>1. PICK M \in Label : g = HomeOf(M) /\ g[3] = chains[M]
      BY <1>0, HomesAre
    <3>2. M # L
      BY <2>1, <2>3, <3>1
    <3>3. QED
      BY <1>0, <2>1, <3>1, <3>2 DEF Partition
  <2>4. QED
    BY <2>2, <2>3
<1>3. QED
  BY <1>1, <1>2 DEF BlocksAccounted

\* A cursor is on the oldest unread message.
LEMMA InvCursors ==
    ASSUME BusInv PROVE CursorExact
<1>0. BusTypeOK /\ Owned /\ QueueOK /\ SubsOK
  BY DEF BusInv
<1>1. ASSUME NEW t \in Topic, NEW s \in subs[t], NEW unread,
             unread = {i \in DOMAIN queue[t] : queue[t][i].seq >= expect[s]}
      PROVE  /\ IF unread = {} THEN cursor[s] = NIL
                ELSE cursor[s] = Link(queue[t], CHOOSE i \in unread : \A j \in unread : i <= j)
             /\ t \notin Overwriting => Cardinality(unread) = Len(log[t]) - expect[s]
  <2>1. PICK o \in Nat, l \in Nat, g \in Nat : o = Oldest(t) /\ l = Len(queue[t]) /\ g = Len(log[t]) /\ o + l = g
    BY <1>0, QueueTypes
  <2>2. PICK u \in Nat, e \in Nat : u = Unread(t, s) /\ e = expect[s] /\ u \in 1..(l + 1)
    <3>1. Unread(t, s) \in 1..(l + 1) /\ expect[s] \in Nat
      BY <1>0, <2>1, UnreadIs
    <3>2. l \in Nat
      BY <2>1
    <3>3. QED
      BY <3>1, <3>2
  <2>3. SubOn(t, s) /\ e <= g /\ u = IF e <= o THEN 1 ELSE e - o + 1
    BY <1>0, <2>1, <2>2 DEF SubsOK, SubOn, Unread
  <2>4. unread = u..l
    <3>1. DOMAIN queue[t] = 1..l /\ \A i \in 1..l : queue[t][i].seq \in Nat /\ (e <= queue[t][i].seq <=> u <= i)
      BY <1>0, <2>1, <2>2, QueueTypes, UnreadIs
    <3>2. \A i \in 1..l : queue[t][i].seq >= expect[s] <=> u <= i
      BY <2>2, <3>1
    <3>3. \A i \in 1..l : u <= i <=> i \in u..l
      BY <2>2
    <3>4. u..l \subseteq 1..l
      BY <2>2
    <3>5. QED
      BY <1>1, <3>1, <3>2, <3>3, <3>4
  <2>5. unread = {} => cursor[s] = NIL
    <3>1. unread = {} => u = l + 1
      BY <2>2, <2>4
    <3>2. QED
      BY <1>0, <2>1, <2>2, <3>1, UnreadIs
  <2>6. unread # {} => cursor[s] = Link(queue[t], CHOOSE i \in unread : \A j \in unread : i <= j)
    <3>1. unread # {} => u \in unread /\ \A j \in unread : u <= j
      BY <2>2, <2>4
    <3>2. \A i \in unread : (\A j \in unread : i <= j) => (u \in unread => i <= u)
      OBVIOUS
    <3>3. unread # {} => \A i \in unread : (\A j \in unread : i <= j) => i = u
      BY <2>2, <2>4, <3>1, <3>2
    <3>4. unread # {} => (CHOOSE i \in unread : \A j \in unread : i <= j) = u
      BY <3>1, <3>3
    <3>5. cursor[s] = Link(queue[t], u)
      BY <2>2, <2>3 DEF SubOn
    <3>6. QED
      BY <3>4, <3>5
  <2>7. t \notin Overwriting => Cardinality(unread) = Len(log[t]) - expect[s]
    <3>1. Cardinality(u..l) = IF u > l THEN 0 ELSE l - u + 1
      <4>1. u \in Int /\ l \in Int
        BY <2>1, <2>2
      <4>2. QED
        BY <4>1, FS_Interval
    <3>2. t \notin Overwriting => o <= e
      BY <2>1, <2>2, <2>3 DEF SubOn
    <3>3. t \notin Overwriting => l - u + 1 = g - e /\ (u > l => g - e = 0)
      <4>1. o \in Nat /\ l \in Nat /\ g \in Nat /\ u \in Nat /\ e \in Nat /\ o + l = g
        BY <2>1, <2>2
      <4>2. e <= g /\ u = IF e <= o THEN 1 ELSE e - o + 1
        BY <2>3
      <4>3. o <= e => u = e - o + 1
        BY <4>1, <4>2
      <4>4. QED
        BY <3>2, <4>1, <4>2, <4>3
    <3>4. QED
      BY <2>1, <2>2, <2>4, <3>1, <3>3
  <2>8. QED
    BY <2>5, <2>6, <2>7
<1>2. QED
  BY <1>1 DEF CursorExact, next_seq

\* A read delivers the message, and a view is in place.
LEMMA InvReads ==
    ASSUME BusInv PROVE ReadExact /\ ViewStable
<1>0. BusTypeOK /\ Owned /\ QueueOK /\ SubsOK /\ ConsOK
  BY DEF BusInv
<1>1. ASSUME NEW s \in Sub, cons[s].pc \in {"free", "got"}, NEW e, e = log[TopicOf[s]][expect[s]]
      PROVE  cons[s].out = [i \in 1..e.n |-> e.id]
  <2>1. Delivered(s)
    BY <1>0, <1>1 DEF ConsOK, ConsOn
  <2>2. Len(cons[s].out) = e.n /\ \A k \in 1..Len(cons[s].out) : cons[s].out[k] = e.id
    BY <1>1, <2>1 DEF Delivered
  <2>3. cons[s].out \in Seq(Int)
    BY <1>0, ConsIs
  <2>4. cons[s].out = [i \in 1..Len(cons[s].out) |-> cons[s].out[i]]
    BY ZenonT(40), <2>3, LenProperties
  <2>5. QED
    BY <2>2, <2>4
<1>2. ASSUME NEW s \in Sub, cons[s].pc \in {"view", "viewed"}
      PROVE  /\ peeked[s] = cursor[s]
             /\ \E i \in DOMAIN queue[TopicOf[s]] :
                  LET m == queue[TopicOf[s]][i]
                  IN Head(m.blocks) = peeked[s] /\ data[peeked[s]] = log[TopicOf[s]][m.seq + 1].id
  <2>1. PICK t \in Topic : t = TopicOf[s]
    BY <1>0, UseIs
  <2>2. /\ s \in subs[t] /\ peeked[s] = cursor[s] /\ cursor[s] # NIL
    BY <1>0, <1>2, <2>1 DEF ConsOK, ConsOn, Viewing
  <2>3. PICK i \in Nat : i \in 1..Len(queue[t]) /\ cursor[s] = Head(queue[t][i].blocks)
    BY <2>1, <2>2, ReadingAt
  <2>4. /\ i \in DOMAIN queue[t] /\ Whole(t, queue[t][i])
        /\ Head(queue[t][i].blocks) \in ToSet(queue[t][i].blocks)
    BY <1>0, <2>3, QueueTypes
  <2>5. data[peeked[s]] = log[t][queue[t][i].seq + 1].id
    BY <2>2, <2>3, <2>4 DEF Whole
  <2>6. QED
    BY ZenonT(40), <2>1, <2>2, <2>3, <2>4, <2>5
<1>3. QED
  BY <1>1, <1>2 DEF ReadExact, ViewStable

\* A block is in one place, a message lives exactly as long as it has readers, and each
\* reader gets the message its sequence number says, whole and in order (bus.c: alloc_msg,
\* free_chain, link_msg, evict_oldest, v_bus_pop, v_bus_peek, v_bus_unsubscribe).
THEOREM BusSafe == BusSpec => []BusSound
<1>1. BusInit => BusInv
  BY BusInitInv
<1>2. BusInv /\ [BusNext]_bus_vars => BusInv'
  BY BusInvStep
<1>3. BusInv => BusSound
  <2>1. BusInv => RefsExact
    BY DEF BusInv
  <2>2. QED
    BY <2>1, InvBlocks, InvCursors, InvReads DEF BusSound
<1>4. QED
  BY <1>1, <1>2, <1>3, PTL DEF BusSpec
=============================================================================

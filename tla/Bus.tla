--------------------------------- MODULE Bus ---------------------------------
(***************************************************************************)
(* The queued topics of the bus and its block pool (kernel/bus.c without   *)
(* cfg.pipe): messages made of pool blocks, reservations lent between      *)
(* topics, eviction, reading by copy (checked by the block's epoch) and in *)
(* place (pinned).                                                         *)
(*                                                                         *)
(* A chain threaded through desc[].next is a sequence of blocks.  Critical *)
(* sections are atomic; where the source loops inside one, each iteration  *)
(* is an action, and alloc or giving keeps everybody else out.  Payloads   *)
(* are copied outside, a block at a time; a block holds the number of the  *)
(* call that last wrote it.                                                *)
(*                                                                         *)
(* The 16-bit epoch of a block is abstracted to what it is compared for:   *)
(* cons[s].same says that the epoch of the block being read is unchanged.  *)
(***************************************************************************)
EXTENDS Integers, SequencesExt

CONSTANTS
    block_count,     \* blocks of the pool
    Topic,           \* v_bus_topic_t objects
    Sub,             \* v_bus_sub_t objects
    Producer,        \* the contexts that publish
    Overwriting,     \* the topics with V_BUS_OVERWRITE
    NONE,            \* a null pointer
    MaxBlocks,       \* bound: blocks of a message
    Uses             \* the uses of the bus an instance covers, see Use

Block == 0..(block_count - 1)
NIL == block_count

\* How an application uses the bus.
Use == [topics : SUBSET Topic,           \* the topics it declares
        producers : Nat,                 \* how many publish at a time
        topicOf : [Sub -> Topic],        \* the topic each Sub subscribes to
        reserve : [Topic -> Nat],        \* cfg.reserve of each topic
        peek : BOOLEAN,                  \* readers peek as well as pop
        leave : SUBSET Sub,              \* subscriptions that may end
        calls : Nat]                     \* bound: publish and reserve calls

ASSUME BusAssumption ==
    /\ block_count \in Nat \ {0} /\ IsFiniteSet(Topic) /\ IsFiniteSet(Sub)
    /\ NONE \notin Topic \cup Sub \cup Producer
    /\ Overwriting \subseteq Topic /\ MaxBlocks \in Nat \ {0}
    /\ \A u \in Uses : u \in Use

VARIABLES
    use,                             \* which of the Uses it is
    topics,                          \* bus->topics, the last declared first
    free, stash, lent, borrowed,     \* the pool, and each topic's share of it
    queue,                           \* messages of each topic, oldest first
    data,                            \* the call that last wrote each block
    subs,                            \* the subscriptions of each topic
    cursor, expect, peeked,          \* v_bus_sub_t
    alloc,                           \* the producer inside alloc_msg's loop
    giving,                          \* the chain inside free_chain, and for whom
    purging,                         \* the topic inside v_bus_unsubscribe's last loop
    prod, cons,                      \* where producers and readers are
    calls,                           \* publish and reserve calls so far
    log                              \* ghost: what was linked on each topic

poolVars == <<use, topics, free, stash, lent, borrowed>>
subVars  == <<subs, cursor, expect, peeked>>
bus_vars == <<poolVars, queue, data, subVars, alloc, giving, purging, prod, cons, calls, log>>

NoMessage == [pc |-> "idle", topic |-> NONE, need |-> 0, id |-> 0, ticket |-> FALSE,
              blocks |-> <<>>]
NoRead == [pc |-> "idle", msg |-> NIL, at |-> NIL, left |-> 0, same |-> TRUE,
           out |-> <<>>, blocks |-> <<>>]
Nothing == [topic |-> NONE, blocks |-> <<>>]

\* v_bus_init: the blocks are one free stack.
BusInit ==
    /\ use \in Uses
    /\ topics = <<>>
    /\ free = [i \in 1..block_count |-> i - 1]
    /\ stash = [t \in Topic |-> <<>>]
    /\ lent = [t \in Topic |-> 0] /\ borrowed = [t \in Topic |-> 0]
    /\ queue = [t \in Topic |-> <<>>]
    /\ data = [b \in Block |-> 0]
    /\ subs = [t \in Topic |-> {}]
    /\ cursor = [s \in Sub |-> NIL] /\ expect = [s \in Sub |-> 0] /\ peeked = [s \in Sub |-> NIL]
    /\ alloc = NONE /\ giving = Nothing /\ purging = NONE
    /\ prod = [p \in Producer |-> NoMessage] /\ cons = [s \in Sub |-> NoRead]
    /\ calls = 0 /\ log = [t \in Topic |-> <<>>]

TopicOf == use.topicOf
reserve == use.reserve

\* Nobody is inside a critical section.
Unlocked == alloc = NONE /\ giving = Nothing /\ purging = NONE

\* The message of topic t whose first block is b, by its place in the queue.
At(t, b) == CHOOSE i \in DOMAIN queue[t] : Head(queue[t][i].blocks) = b
\* The first block of the i-th message: hdr.link of the one before it.
Link(q, i) == IF i \in DOMAIN q THEN Head(q[i].blocks) ELSE NIL

\* next_seq: sequence numbers count the messages linked.
next_seq(t) == Len(log[t])
------------------------------------------------------------------------------
(* Topics and subscriptions *)

\* The reservation moves from the pool into the stash of the topic.
v_bus_topic_declare(t) ==
    /\ Unlocked /\ t \in use.topics \ ToSet(topics) /\ reserve[t] <= Len(free)
    /\ topics' = <<t>> \o topics
    /\ stash' = [stash EXCEPT ![t] = Reverse(SubSeq(free, 1, reserve[t]))]
    /\ free' = SubSeq(free, reserve[t] + 1, Len(free))
    /\ UNCHANGED <<use, lent, borrowed, queue, data, subVars, alloc, giving, purging, prod, cons, calls, log>>

v_bus_subscribe(s) ==
    LET t == TopicOf[s] IN
    /\ Unlocked /\ t \in ToSet(topics) /\ s \notin subs[t]
    /\ subs' = [subs EXCEPT ![t] = @ \cup {s}]
    /\ cursor' = [cursor EXCEPT ![s] = NIL] /\ peeked' = [peeked EXCEPT ![s] = NIL]
    /\ expect' = [expect EXCEPT ![s] = next_seq(t)]
    /\ cons' = [cons EXCEPT ![s] = NoRead]
    /\ UNCHANGED <<poolVars, queue, data, alloc, giving, purging, prod, calls, log>>

\* MUTANT: a reader that leaves keeps its claim on what it had not read.
Disclaimed_PinOnly(s) ==
    LET t == TopicOf[s] IN
    [i \in DOMAIN queue[t] |->
       LET m == queue[t][i] IN
       [m EXCEPT !.pins = IF peeked[s] = Head(m.blocks) THEN @ - 1 ELSE @]]

\* The queue without the claims of s: its pin, and a reference on each unread message.
Disclaimed(s) ==
    LET t == TopicOf[s] IN
    [i \in DOMAIN queue[t] |->
       LET m == queue[t][i] IN
       [m EXCEPT !.pins = IF peeked[s] = Head(m.blocks) THEN @ - 1 ELSE @,
                 !.refs = IF cursor[s] # NIL /\ i >= At(t, cursor[s]) THEN @ - 1 ELSE @]]

\* Nobody is waiting for the oldest message of q.
Orphaned(q) == q # <<>> /\ q[1].refs = 0

v_bus_unsubscribe(s) ==
    LET t == TopicOf[s] IN
    /\ Unlocked /\ s \in subs[t] \cap use.leave /\ cons[s].pc \in {"idle", "view", "viewed"}
    /\ subs' = [subs EXCEPT ![t] = @ \ {s}]
    /\ queue' = [queue EXCEPT ![t] = Disclaimed(s)]
    /\ purging' = IF Orphaned(Disclaimed(s)) THEN t ELSE NONE
    /\ cons' = [cons EXCEPT ![s] = NoRead]
    /\ UNCHANGED <<poolVars, data, cursor, expect, peeked, alloc, giving, prod, calls, log>>

\* One turn of its last loop: the oldest message, which nobody waits for, is freed.
FreeOrphan ==
    LET q == queue[purging] IN
    /\ purging # NONE /\ giving = Nothing
    /\ queue' = [queue EXCEPT ![purging] = Tail(q)]
    /\ giving' = [topic |-> purging, blocks |-> q[1].blocks]
    /\ purging' = IF Orphaned(Tail(q)) THEN purging ELSE NONE
    /\ UNCHANGED <<poolVars, data, subVars, alloc, prod, cons, calls, log>>
------------------------------------------------------------------------------
(* Blocks *)

\* t is the first topic of the bus, in list order, that is in S.
FirstTopic(t, S) ==
    \E i \in DOMAIN topics :
      /\ t = topics[i] /\ t \in S
      /\ \A j \in 1..(i - 1) : topics[j] \notin S

\* The epoch of b moves: whoever is copying the message that starts at b notices.
Bump(b) == cons' = [s \in Sub |-> [cons[s] EXCEPT !.same = @ /\ cons[s].msg # b]]

\* MUTANT: a loan is not repaid, the block goes back to the pool.
give_one_Unpaid(t, b) ==
    /\ free' = <<b>> \o free
    /\ UNCHANGED <<stash, lent, borrowed>>

\* A block t no longer needs repays a loan, or refills its stash, or is free.
give_one(t, b) ==
    \/ /\ borrowed[t] > 0
       /\ \E l \in Topic :
            /\ FirstTopic(l, {x \in Topic : lent[x] > 0})
            /\ stash' = [stash EXCEPT ![l] = <<b>> \o @]
            /\ lent' = [lent EXCEPT ![l] = @ - 1]
       /\ borrowed' = [borrowed EXCEPT ![t] = @ - 1]
       /\ UNCHANGED free
    \/ /\ borrowed[t] = 0 /\ Len(stash[t]) + lent[t] < reserve[t]
       /\ stash' = [stash EXCEPT ![t] = <<b>> \o @]
       /\ UNCHANGED <<free, lent, borrowed>>
    \/ /\ borrowed[t] = 0 /\ Len(stash[t]) + lent[t] >= reserve[t]
       /\ free' = <<b>> \o free
       /\ UNCHANGED <<stash, lent, borrowed>>

\* One iteration of free_chain.
free_chain ==
    /\ giving # Nothing
    /\ give_one(giving.topic, Head(giving.blocks))
    /\ Bump(Head(giving.blocks))
    /\ giving' = IF Len(giving.blocks) = 1 THEN Nothing
                 ELSE [giving EXCEPT !.blocks = Tail(@)]
    /\ UNCHANGED <<use, topics, queue, data, subVars, alloc, purging, prod, calls, log>>

\* A topic with an idle reserved block that t may borrow.
Lender(t, l) == l # t /\ stash[l] # <<>>

\* A block for t: from its stash, the pool, or another topic's stash on loan.
take_one(t, b) ==
    \/ /\ stash[t] # <<>> /\ b = Head(stash[t])
       /\ stash' = [stash EXCEPT ![t] = Tail(@)]
       /\ UNCHANGED <<free, lent, borrowed>>
    \/ /\ stash[t] = <<>> /\ free # <<>> /\ b = Head(free)
       /\ free' = Tail(free)
       /\ UNCHANGED <<stash, lent, borrowed>>
    \/ /\ stash[t] = <<>> /\ free = <<>> /\ t \in Overwriting
       /\ \E l \in Topic :
            /\ FirstTopic(l, {x \in Topic : Lender(t, x)}) /\ b = Head(stash[l])
            /\ stash' = [stash EXCEPT ![l] = Tail(@)]
            /\ lent' = [lent EXCEPT ![l] = @ + 1]
       /\ borrowed' = [borrowed EXCEPT ![t] = @ + 1]
       /\ UNCHANGED free

NoneLeft(t) ==
    /\ stash[t] = <<>> /\ free = <<>>
    /\ t \in Overwriting => \A l \in ToSet(topics) : ~Lender(t, l)
------------------------------------------------------------------------------
(* Producers *)

\* v_bus_publish of a message of n blocks, with somebody subscribed.
v_bus_publish(p, t, n) ==
    /\ Unlocked /\ prod[p].pc = "idle" /\ calls < use.calls
    /\ Cardinality({q \in Producer : prod[q].pc # "idle"}) < use.producers
    /\ t \in ToSet(topics) /\ n <= block_count
    /\ subs[t] # {}
    /\ calls' = calls + 1
    /\ prod' = [prod EXCEPT ![p] =
         [NoMessage EXCEPT !.pc = "alloc", !.topic = t, !.need = n, !.id = calls']]
    /\ UNCHANGED <<poolVars, queue, data, subVars, alloc, giving, purging, cons, log>>

\* v_bus_reserve: one block, whoever listens.
v_bus_reserve(p, t) ==
    /\ Unlocked /\ prod[p].pc = "idle" /\ calls < use.calls
    /\ Cardinality({q \in Producer : prod[q].pc # "idle"}) < use.producers
    /\ t \in ToSet(topics)
    /\ calls' = calls + 1
    /\ prod' = [prod EXCEPT ![p] =
         [NoMessage EXCEPT !.pc = "alloc", !.topic = t, !.need = 1, !.id = calls', !.ticket = TRUE]]
    /\ UNCHANGED <<poolVars, queue, data, subVars, alloc, giving, purging, cons, log>>

\* topic->blocks: the blocks of its queued messages.
blocks(t) == Len(FlattenSeq([i \in DOMAIN queue[t] |-> queue[t][i].blocks]))

\* What alloc_msg counts on before it starts.
can(t) ==
    Len(stash[t]) + Len(free) + lent[t]
      + IF t \in Overwriting
          THEN blocks(t) + MapThenSumSet(LAMBDA x : Len(stash[x]), Topic \ {t})
          ELSE 0

\* alloc_msg: all from the stash, or refused, or block by block.
alloc_msg(p) ==
    LET t == prod[p].topic
        n == prod[p].need
    IN
    /\ Unlocked /\ prod[p].pc = "alloc"
    /\ \/ /\ Len(stash[t]) >= n
          /\ stash' = [stash EXCEPT ![t] = SubSeq(@, n + 1, Len(@))]
          /\ prod' = [prod EXCEPT ![p].pc = "copy",
                                  ![p].blocks = Reverse(SubSeq(stash[t], 1, n))]
          /\ UNCHANGED alloc
       \/ /\ Len(stash[t]) < n /\ can(t) < n
          /\ prod' = [prod EXCEPT ![p] = NoMessage]
          /\ UNCHANGED <<stash, alloc>>
       \/ /\ Len(stash[t]) < n /\ can(t) >= n
          /\ alloc' = p
          /\ UNCHANGED <<stash, prod>>
    /\ UNCHANGED <<use, topics, free, lent, borrowed, queue, data, subVars, giving, purging, cons, calls, log>>

\* One turn of its loop: another block.
AllocTake ==
    /\ alloc # NONE /\ giving = Nothing
    /\ LET p == alloc
           t == prod[p].topic
           last == Len(prod[p].blocks) + 1 = prod[p].need
       IN \E b \in Block :
            /\ take_one(t, b)
            /\ prod' = [prod EXCEPT ![p].blocks = <<b>> \o @,
                                    ![p].pc = IF last THEN "copy" ELSE @]
            /\ alloc' = IF last THEN NONE ELSE alloc
    /\ UNCHANGED <<use, topics, queue, data, subVars, giving, purging, cons, calls, log>>

\* MUTANT: a pinned message is evicted too.
Evictable_Pinned(t) == queue[t] # <<>>

Evictable(t) == queue[t] # <<>> /\ Head(queue[t]).pins = 0

\* MUTANT: the cursors stay on the evicted message.
evict_oldest_Behind(t) ==
    /\ queue' = [queue EXCEPT ![t] = Tail(@)]
    /\ giving' = [topic |-> t, blocks |-> Head(queue[t]).blocks]
    /\ UNCHANGED cursor

\* The oldest message of t goes; the readers that stood on it move on.
evict_oldest(t) ==
    /\ cursor' = [s \in Sub |->
         IF s \in subs[t] /\ cursor[s] = Link(queue[t], 1) THEN Link(queue[t], 2) ELSE cursor[s]]
    /\ queue' = [queue EXCEPT ![t] = Tail(@)]
    /\ giving' = [topic |-> t, blocks |-> Head(queue[t]).blocks]

\* A borrower that can give something back.
Debtor(t) == borrowed[t] > 0 /\ Evictable(t)
CanReclaim(t) == lent[t] > 0 /\ \E x \in ToSet(topics) : Debtor(x)

\* No block left: reclaim_one, else evict its own oldest message.
AllocEvict ==
    /\ alloc # NONE /\ giving = Nothing
    /\ LET t == prod[alloc].topic IN
         /\ NoneLeft(t)
         /\ \/ \E x \in Topic : CanReclaim(t) /\ FirstTopic(x, {y \in Topic : Debtor(y)}) /\ evict_oldest(x)
            \/ ~CanReclaim(t) /\ t \in Overwriting /\ Evictable(t) /\ evict_oldest(t)
    /\ UNCHANGED <<poolVars, data, subs, expect, peeked, alloc, purging, prod, cons, calls, log>>

\* Nothing to evict: what was taken is given back and the message dropped.
AllocGiveBack ==
    /\ alloc # NONE /\ giving = Nothing
    /\ LET t == prod[alloc].topic
           got == prod[alloc].blocks
       IN /\ NoneLeft(t) /\ ~CanReclaim(t) /\ ~(t \in Overwriting /\ Evictable(t))
          /\ giving' = IF got = <<>> THEN Nothing ELSE [topic |-> t, blocks |-> got]
    /\ prod' = [prod EXCEPT ![alloc] = NoMessage]
    /\ alloc' = NONE
    /\ UNCHANGED <<poolVars, queue, data, subVars, purging, cons, calls, log>>

\* copy_payload into blocks nobody else sees yet, or the caller filling them.
CopyIn(p) ==
    /\ Unlocked /\ prod[p].pc = "copy"
    /\ data' = [b \in Block |-> IF b \in ToSet(prod[p].blocks) THEN prod[p].id ELSE data[b]]
    /\ prod' = [prod EXCEPT ![p].pc = "link"]
    /\ UNCHANGED <<poolVars, queue, subVars, alloc, giving, purging, cons, calls, log>>

\* The header link_msg fills in.
Message(p) ==
    [blocks |-> prod[p].blocks, seq |-> next_seq(prod[p].topic), pins |-> 0,
     refs |-> Cardinality(subs[prod[p].topic])]

\* link_msg, from v_bus_publish or v_bus_commit.
link_msg(p) ==
    LET t == prod[p].topic IN
    /\ Unlocked /\ prod[p].pc = "link"
    /\ \/ /\ subs[t] = {}
          /\ prod' = [prod EXCEPT ![p].pc = "free"]
          /\ UNCHANGED <<queue, cursor, log>>
       \/ /\ subs[t] # {}
          /\ queue' = [queue EXCEPT ![t] = Append(@, Message(p))]
          /\ cursor' = [s \in Sub |->
               IF s \in subs[t] /\ cursor[s] = NIL THEN Head(prod[p].blocks) ELSE cursor[s]]
          /\ log' = [log EXCEPT ![t] = Append(@, [id |-> prod[p].id, n |-> prod[p].need])]
          /\ prod' = [prod EXCEPT ![p] = NoMessage]
    /\ UNCHANGED <<poolVars, data, subs, expect, peeked, alloc, giving, purging, cons, calls>>

\* v_bus_cancel of a ticket, and the free of a message nobody waits for.
v_bus_cancel(p) ==
    /\ Unlocked
    /\ prod[p].pc = "free" \/ (prod[p].pc = "link" /\ prod[p].ticket)
    /\ giving' = [topic |-> prod[p].topic, blocks |-> prod[p].blocks]
    /\ prod' = [prod EXCEPT ![p] = NoMessage]
    /\ UNCHANGED <<poolVars, queue, data, subVars, alloc, purging, cons, calls, log>>
------------------------------------------------------------------------------
(* Readers *)

\* Where a block can be: what kind of place, whose, and the chain it holds.
Homes ==
    {<<"free", NONE, free>>, <<"giving", NONE, giving.blocks>>}
      \cup {<<"stash", t, stash[t]>> : t \in Topic}
      \cup {<<"prod", p, prod[p].blocks>> : p \in Producer}
      \cup {<<"cons", s, cons[s].blocks>> : s \in Sub}
      \cup UNION {{<<"queue", <<t, i>>, queue[t][i].blocks>> : i \in DOMAIN queue[t]} : t \in Topic}

\* desc[b].next, whatever chain b is part of by now.
next(b) ==
    LET c == CHOOSE c \in {h[3] : h \in Homes} : b \in ToSet(c)
        i == CHOOSE i \in DOMAIN c : c[i] = b
    IN IF i < Len(c) THEN c[i + 1] ELSE NIL

\* v_bus_pop, first critical section: the message under the cursor, if any.
v_bus_pop(s) ==
    LET t == TopicOf[s] IN
    /\ Unlocked /\ s \in subs[t] /\ peeked[s] = NIL
    /\ \/ /\ cons[s].pc \in {"idle", "retry"} /\ cursor[s] # NIL
          /\ cons' = [cons EXCEPT ![s] =
               [NoRead EXCEPT !.pc = "copy", !.msg = cursor[s], !.at = cursor[s],
                              !.left = Len(queue[t][At(t, cursor[s])].blocks)]]
       \/ /\ cons[s].pc = "retry" /\ cursor[s] = NIL
          /\ cons' = [cons EXCEPT ![s] = NoRead]
    /\ UNCHANGED <<poolVars, queue, data, subVars, alloc, giving, purging, prod, calls, log>>

\* copy_payload, a block at a time and outside the critical section; past the
\* end of a chain it reads whatever lies at index V_BUS_NIL.
CopyOut(s) ==
    /\ Unlocked /\ cons[s].pc = "copy"
    /\ cons' = [cons EXCEPT
         ![s].out = Append(@, IF cons[s].at = NIL THEN -1 ELSE data[cons[s].at]),
         ![s].at = IF @ = NIL THEN NIL ELSE next(@),
         ![s].left = @ - 1,
         ![s].pc = IF cons[s].left = 1 THEN "check" ELSE "copy"]
    /\ UNCHANGED <<poolVars, queue, data, subVars, alloc, giving, purging, prod, calls, log>>

\* s is done with the i-th message of q: the last reader takes it off the queue.
consume(s, q, i) ==
    LET t == TopicOf[s] IN
    /\ expect' = [expect EXCEPT ![s] = q[i].seq + 1]
    /\ cursor' = [cursor EXCEPT ![s] = Link(q, i + 1)]
    /\ queue' = [queue EXCEPT ![t] =
         IF q[i].refs = 1 THEN Tail(q) ELSE [q EXCEPT ![i].refs = @ - 1]]
    /\ cons' = [cons EXCEPT ![s] = [NoRead EXCEPT
         !.pc = IF q[i].refs = 1 THEN "free" ELSE "got", !.out = cons[s].out,
         !.blocks = IF q[i].refs = 1 THEN q[i].blocks ELSE <<>>]]

\* MUTANT: the copy is taken for the message under the cursor, epoch or not.
PopCheck_Trusting(s) ==
    LET t == TopicOf[s] IN
    /\ Unlocked /\ cons[s].pc = "check" /\ cursor[s] # NIL
    /\ consume(s, queue[t], At(t, cursor[s]))
    /\ UNCHANGED <<poolVars, data, subs, peeked, alloc, giving, purging, prod, calls, log>>

\* v_bus_pop, second critical section: the copy counts if the epoch still holds.
PopCheck(s) ==
    LET t == TopicOf[s] IN
    /\ Unlocked /\ cons[s].pc = "check"
    /\ \/ /\ ~cons[s].same
          /\ cons' = [cons EXCEPT ![s] = [NoRead EXCEPT !.pc = "retry"]]
          /\ UNCHANGED <<queue, cursor, expect>>
       \/ /\ cons[s].same
          /\ consume(s, queue[t], At(t, cons[s].msg))
    /\ UNCHANGED <<poolVars, data, subs, peeked, alloc, giving, purging, prod, calls, log>>

\* MUTANT: what the last reader took off the queue is forgotten.
FreeConsumed_Leak(s) ==
    /\ Unlocked /\ cons[s].pc = "free"
    /\ cons' = [cons EXCEPT ![s].pc = "got", ![s].blocks = <<>>]
    /\ UNCHANGED <<poolVars, queue, data, subVars, alloc, giving, purging, prod, calls, log>>

\* free_chain of what consume took off, a critical section of its own.
FreeConsumed(s) ==
    /\ Unlocked /\ cons[s].pc = "free"
    /\ giving' = [topic |-> TopicOf[s], blocks |-> cons[s].blocks]
    /\ cons' = [cons EXCEPT ![s].pc = "got", ![s].blocks = <<>>]
    /\ UNCHANGED <<poolVars, queue, data, subVars, alloc, purging, prod, calls, log>>

\* The caller has its message.
PopReturns(s) ==
    /\ Unlocked /\ cons[s].pc = "got"
    /\ cons' = [cons EXCEPT ![s] = NoRead]
    /\ UNCHANGED <<poolVars, queue, data, subVars, alloc, giving, purging, prod, calls, log>>

\* A view of a single-block message, pinned.
v_bus_peek(s) ==
    LET t == TopicOf[s] IN
    /\ use.peek /\ Unlocked /\ s \in subs[t] /\ cons[s].pc = "idle" /\ cursor[s] # NIL
    /\ LET i == At(t, cursor[s]) IN
         /\ Len(queue[t][i].blocks) = 1
         /\ queue' = [queue EXCEPT ![t][i].pins = @ + 1]
    /\ peeked' = [peeked EXCEPT ![s] = cursor[s]]
    /\ cons' = [cons EXCEPT ![s].pc = "view"]
    /\ UNCHANGED <<poolVars, data, subs, cursor, expect, alloc, giving, purging, prod, calls, log>>

\* The caller reads the view.
ViewRead(s) ==
    /\ Unlocked /\ cons[s].pc = "view"
    /\ cons' = [cons EXCEPT ![s].pc = "viewed", ![s].out = <<data[peeked[s]]>>]
    /\ UNCHANGED <<poolVars, queue, data, subVars, alloc, giving, purging, prod, calls, log>>

v_bus_release(s) ==
    LET t == TopicOf[s]
        i == At(t, peeked[s])
    IN
    /\ Unlocked /\ cons[s].pc = "viewed"
    /\ consume(s, [queue[t] EXCEPT ![i].pins = @ - 1], i)
    /\ peeked' = [peeked EXCEPT ![s] = NIL]
    /\ UNCHANGED <<poolVars, data, subs, alloc, giving, purging, prod, calls, log>>
------------------------------------------------------------------------------
Publish(p) ==
    \/ \E t \in Topic, n \in 1..MaxBlocks : v_bus_publish(p, t, n)
    \/ \E t \in Topic : v_bus_reserve(p, t)
    \/ alloc_msg(p) \/ CopyIn(p) \/ link_msg(p) \/ v_bus_cancel(p)

Read(s) ==
    \/ v_bus_subscribe(s) \/ v_bus_unsubscribe(s)
    \/ v_bus_pop(s) \/ CopyOut(s) \/ PopCheck(s) \/ FreeConsumed(s) \/ PopReturns(s)
    \/ v_bus_peek(s) \/ ViewRead(s) \/ v_bus_release(s)

Locked == FreeOrphan \/ free_chain \/ AllocTake \/ AllocEvict \/ AllocGiveBack

BusNext ==
    \/ \E t \in Topic : v_bus_topic_declare(t)
    \/ \E p \in Producer : Publish(p)
    \/ \E s \in Sub : Read(s)
    \/ Locked

BusSpec == BusInit /\ [][BusNext]_bus_vars
------------------------------------------------------------------------------
(* Properties *)

TotalLen(S, Chain(_)) == MapThenSumSet(LAMBDA x : Len(Chain(x)), S)

\* No block is leaked or in two places: pool, stashes, queues, messages in the
\* making, messages being freed ("every block is somewhere: nothing leaked",
\* topics_ok).
BlocksAccounted ==
    /\ \A b \in Block : \E h \in Homes : b \in ToSet(h[3])
    /\ \A h \in Homes :
         /\ IsInjective(h[3])
         /\ \A g \in Homes : g # h => ToSet(g[3]) \cap ToSet(h[3]) = {}

\* Blocks in use on behalf of t, borrowed ones included.
InUse(t) ==
    blocks(t) + (IF giving.topic = t THEN Len(giving.blocks) ELSE 0)
      + TotalLen({p \in Producer : prod[p].topic = t}, LAMBDA p : prod[p].blocks)
      + TotalLen({s \in Sub : TopicOf[s] = t}, LAMBDA s : cons[s].blocks)

\* Loans balance, a lender never keeps and lends more than its reservation, and a
\* reservation is never used up by others: what t holds idle, has lent and uses
\* beyond its loans is at least its reserve ("another topic filling the pool
\* can't starve it", bus.h).
LoansBalance ==
    /\ MapThenSumSet(LAMBDA t : lent[t], Topic) = MapThenSumSet(LAMBDA t : borrowed[t], Topic)
    /\ \A t \in ToSet(topics) :
         /\ Len(stash[t]) + lent[t] <= reserve[t]
         /\ Len(stash[t]) + lent[t] + InUse(t) - borrowed[t] >= reserve[t]

\* The readers of t that have not passed a message, and those that look at it.
Owing(t, m) == {s \in subs[t] : expect[s] <= m.seq}
Viewers(t, m) == {s \in subs[t] : peeked[s] = Head(m.blocks)}

\* A message is kept exactly as long as somebody owes a read of it: refs is the
\* number of readers that have not passed it, never 0 but in the loop that frees
\* those nobody owes, and pins the number of views on it (link_msg, consume,
\* v_bus_unsubscribe, evict_oldest).
RefsExact ==
    \A t \in Topic : \A i \in DOMAIN queue[t] :
      LET m == queue[t][i] IN
      /\ m.refs = Cardinality(Owing(t, m)) /\ (m.refs > 0 \/ purging = t)
      /\ m.pins = Cardinality(Viewers(t, m))

\* A cursor is on the oldest message its reader has not read, or nowhere when
\* it has read all; on a drop topic that is the very next one.
CursorExact ==
    \A t \in Topic : \A s \in subs[t] :
      LET unread == {i \in DOMAIN queue[t] : queue[t][i].seq >= expect[s]} IN
      /\ IF unread = {} THEN cursor[s] = NIL
         ELSE cursor[s] = Link(queue[t], CHOOSE i \in unread : \A j \in unread : i <= j)
      /\ t \notin Overwriting => Cardinality(unread) = next_seq(t) - expect[s]

\* A read that succeeds, by copy or in place, delivers the whole of the message
\* the sequence numbers say, whatever was evicted and reused during the copy.
ReadExact ==
    \A s \in Sub : cons[s].pc \in {"free", "got"} =>
      LET e == log[TopicOf[s]][expect[s]]
      IN cons[s].out = [i \in 1..e.n |-> e.id]

\* A view stays in place and unchanged until it is released.
ViewStable ==
    \A s \in Sub : cons[s].pc \in {"view", "viewed"} =>
      /\ peeked[s] = cursor[s]
      /\ \E i \in DOMAIN queue[TopicOf[s]] :
           LET m == queue[TopicOf[s]][i]
           IN Head(m.blocks) = peeked[s] /\ data[peeked[s]] = log[TopicOf[s]][m.seq + 1].id

\* "indices come from the allocator, a cursor or a queue link (all in range by
\* construction)" (blk): a copy never follows a chain past its end.
CopyInRange ==
    \A s \in Sub : cons[s].pc = "copy" => cons[s].at # NIL

\* A block is in one place, a message lives exactly as long as it has readers, and each
\* reader gets the message its sequence number says, whole and in order, and is told of
\* what it missed, though messages are evicted while it looks (alloc_msg, free_chain,
\* v_bus_pop, v_bus_peek, evict_oldest).
BusSound == BlocksAccounted /\ RefsExact /\ CursorExact /\ ReadExact /\ ViewStable
==============================================================================

------------------------------- MODULE BusPipe -------------------------------
(***************************************************************************)
(* A pipe topic of the bus (kernel/bus.c, cfg.pipe): a ring of slots with  *)
(* one producer and one consumer and no critical section.  The producer    *)
(* stamps a slot 2 * seq when it is published (2 * seq + 1 while it is     *)
(* being overwritten) and then moves next_seq; the consumer takes a slot   *)
(* only if the stamp is the one it expects before and after its copy.      *)
(*                                                                         *)
(* Every load and store of a shared field is a step.  A payload has two    *)
(* words, each the number of the message, so that a torn copy shows.       *)
(* Numbers of messages are exact (ghosts); seq and the stamps wrap at Mod. *)
(***************************************************************************)
EXTENDS Integers, Sequences

CONSTANTS
    depth,           \* cfg.reserve: slots of the ring
    Mod,             \* next_seq, expect and the stamps wrap at Mod (2^32)
    FirstSeq,           \* next_seq when the model starts
    MaxMessages,     \* bound: messages published
    Uses             \* the uses of a pipe an instance covers, see Use

\* How an application uses the pipe.
Use == [overwrite : BOOLEAN,      \* cfg.overflow is V_BUS_OVERWRITE
        isr : BOOLEAN,            \* the producer is an interrupt: no task runs before it ends
        resubscribe : BOOLEAN]    \* the consumer may unsubscribe and subscribe again

ASSUME PipeAssumption ==
    /\ depth \in Nat \ {0} /\ Mod \in Nat /\ MaxMessages \in Nat
    /\ FirstSeq \in 0..(Mod - 1) /\ Mod % 2 = 0 /\ 2 * (MaxMessages + depth) <= Mod
    /\ Uses \subseteq Use

PipeSlot == 0..(depth - 1)
Word == 1..2
Num == 0..MaxMessages
NIL == depth

VARIABLES
    use,                         \* which of the Uses it is
    next_seq, pipe_wr,           \* v_bus_topic_t
    stamp, payload,              \* the slots: hdr.seq and two words of data
    nsubs, expect, cursor, peeked,   \* v_bus_topic_t.nsubs, v_bus_sub_t
    notify, parked,              \* the reader's semaphore, and it sleeps on it
    ppc, ticket,                 \* where the producer is; it came by v_bus_reserve
    cpc, view,                   \* where the consumer is; it came by v_bus_peek
    rd_,                         \* the consumer's locals: r, rd, w, copy and fast
    pub,                         \* ghost: messages published
    seen,                        \* ghost: the number the reader must get next
    missed                       \* what the last read reported as missed

topicVars == <<use, next_seq, pipe_wr, stamp, payload>>
subVars   == <<nsubs, expect, cursor, peeked>>
wakeVars  == <<notify, parked>>
pipe_vars == <<topicVars, subVars, wakeVars, ppc, ticket, cpc, view, rd_, pub, seen, missed>>

\* v_bus_topic_declare: a closed ring, every slot stamped "never published",
\* and a first subscription.
PipeInit ==
    /\ use \in Uses
    /\ next_seq = FirstSeq /\ pipe_wr = 0
    /\ stamp = [b \in PipeSlot |-> 1] /\ payload = [b \in PipeSlot |-> [i \in Word |-> 0]]
    /\ nsubs = 1 /\ expect = FirstSeq /\ cursor = 0 /\ peeked = NIL
    /\ notify = 0 /\ parked = FALSE
    /\ ppc = "idle" /\ ticket = FALSE /\ cpc = "idle" /\ view = FALSE
    /\ rd_ = [r |-> FirstSeq, rd |-> 0, w |-> FirstSeq, copy |-> [i \in Word |-> 0], fast |-> TRUE]
    /\ pub = 0 /\ seen = 0 /\ missed = 0

Overwrite == use.overwrite
NextSlot(b) == (b + 1) % depth
Behind(w, r) == (w - r) % Mod
------------------------------------------------------------------------------
(* The producer *)

ToProducer(pc) == ppc' = pc /\ UNCHANGED <<subVars, cpc, view, rd_, seen, missed>>
Go(pc) == ToProducer(pc) /\ UNCHANGED ticket

\* v_bus_publish does nothing without a subscriber; v_bus_reserve does not look.
v_bus_publish ==
    /\ ppc = "idle" /\ pub < MaxMessages
    /\ nsubs = 1
    /\ ToProducer("claim") /\ ticket' = FALSE
    /\ UNCHANGED <<topicVars, wakeVars, pub>>

v_bus_reserve ==
    /\ ppc = "idle" /\ pub < MaxMessages
    /\ ToProducer("claim") /\ ticket' = TRUE
    /\ UNCHANGED <<topicVars, wakeVars, pub>>

\* MUTANT: a drop pipe never looks full.
pipe_claim_Unbounded ==
    /\ ppc = "claim"
    /\ UNCHANGED stamp
    /\ Go("word1")
    /\ UNCHANGED <<use, next_seq, pipe_wr, payload, wakeVars, pub>>

\* A full drop pipe refuses; an overwrite pipe marks the slot being written.
pipe_claim ==
    /\ ppc = "claim"
    /\ \/ /\ ~Overwrite /\ nsubs = 1 /\ Behind(next_seq, expect) >= depth
          /\ UNCHANGED stamp
          /\ Go("idle")
       \/ /\ ~Overwrite /\ (nsubs = 0 \/ Behind(next_seq, expect) < depth)
          /\ UNCHANGED stamp
          /\ Go("word1")
       \/ /\ Overwrite
          /\ stamp' = [stamp EXCEPT ![pipe_wr] = (2 * next_seq + 1) % Mod]
          /\ Go("word1")
    /\ UNCHANGED <<use, next_seq, pipe_wr, payload, wakeVars, pub>>

\* copy_payload into the claimed slot, or the caller filling it in place.
CopyIn ==
    /\ ppc \in {"word1", "word2"}
    /\ payload' = [payload EXCEPT ![pipe_wr][IF ppc = "word1" THEN 1 ELSE 2] = pub]
    /\ Go(IF ppc = "word1" THEN "word2" ELSE "stamp")
    /\ UNCHANGED <<use, next_seq, pipe_wr, stamp, wakeVars, pub>>

\* v_bus_cancel: the claim is dropped, and with it a message overwritten for it.
v_bus_cancel ==
    /\ ppc = "stamp" /\ ticket
    /\ Go("idle")
    /\ UNCHANGED <<topicVars, wakeVars, pub>>

\* v_bus_commit with nobody subscribed drops the claim too.
CommitUnheard ==
    /\ ppc = "stamp" /\ ticket /\ nsubs = 0
    /\ Go("idle")
    /\ UNCHANGED <<topicVars, wakeVars, pub>>

\* pipe_publish, from v_bus_publish or v_bus_commit: the stamp ...
StampSlot ==
    /\ ppc = "stamp" /\ (ticket => nsubs = 1)
    /\ stamp' = [stamp EXCEPT ![pipe_wr] = (2 * next_seq) % Mod]
    /\ Go("seq")
    /\ UNCHANGED <<use, next_seq, pipe_wr, payload, wakeVars, pub>>

\* ... then next_seq ...
BumpSeq ==
    /\ ppc = "seq"
    /\ next_seq' = (next_seq + 1) % Mod /\ pub' = pub + 1
    /\ Go("advance")
    /\ UNCHANGED <<use, pipe_wr, stamp, payload, wakeVars>>

\* ... then the write position ...
AdvanceWr ==
    /\ ppc = "advance"
    /\ pipe_wr' = NextSlot(pipe_wr)
    /\ Go("notify")
    /\ UNCHANGED <<use, next_seq, stamp, payload, wakeVars, pub>>

\* MUTANT: a sleeping reader is not woken.
notify_sub_Silent ==
    /\ ppc = "notify"
    /\ Go("idle")
    /\ UNCHANGED <<topicVars, wakeVars, pub>>

\* ... and the reader's semaphore.
notify_sub ==
    /\ ppc = "notify"
    /\ parked' = FALSE
    /\ notify' = IF nsubs = 1 /\ ~parked THEN 1 ELSE notify
    /\ Go("idle")
    /\ UNCHANGED <<topicVars, pub>>

Producer ==
    \/ v_bus_publish \/ v_bus_reserve \/ pipe_claim \/ CopyIn \/ v_bus_cancel
    \/ CommitUnheard \/ StampSlot \/ BumpSeq \/ AdvanceWr \/ notify_sub
------------------------------------------------------------------------------
(* The consumer *)

\* The consumer's steps leave the topic and the producer alone.
ToConsumer(pc) == cpc' = pc /\ UNCHANGED <<topicVars, ppc, ticket, pub>>
Do(pc) == ToConsumer(pc) /\ UNCHANGED view

Runs == ~parked /\ (use.isr => ppc = "idle")

v_bus_unsubscribe ==
    /\ Runs /\ use.resubscribe /\ cpc = "idle" /\ nsubs = 1
    /\ nsubs' = 0
    /\ Do("idle")
    /\ UNCHANGED <<expect, cursor, peeked, wakeVars, rd_, seen, missed>>

v_bus_subscribe ==
    /\ Runs /\ cpc = "idle" /\ nsubs = 0
    /\ nsubs' = 1
    /\ expect' = next_seq /\ cursor' = pipe_wr /\ peeked' = NIL
    /\ seen' = pub
    /\ notify' = 0
    /\ Do("idle")
    /\ UNCHANGED <<parked, rd_, missed>>

\* v_bus_pop and v_bus_peek: pipe_next first, then pipe_read.
StartRead ==
    /\ Runs /\ nsubs = 1 /\ cpc = "idle" /\ peeked = NIL
    /\ view' \in BOOLEAN
    /\ ToConsumer("load")
    /\ rd_' = [rd_ EXCEPT !.r = expect, !.rd = cursor, !.fast = TRUE]
    /\ UNCHANGED <<subVars, wakeVars, seen, missed>>

LoadSeq ==
    /\ Runs /\ cpc = "load"
    /\ rd_' = [rd_ EXCEPT !.w = next_seq]
    /\ Do("check")
    /\ UNCHANGED <<subVars, wakeVars, seen, missed>>

\* Slot b holds message r.
Intact(b, r) == stamp[b] = (2 * r) % Mod

\* The locals after a slot was found overwritten: the slow path, or the next slot.
Lost(l) ==
    IF l.fast THEN [l EXCEPT !.fast = FALSE, !.r = expect, !.rd = cursor]
              ELSE [l EXCEPT !.r = (@ + 1) % Mod, !.rd = NextSlot(@)]

\* MUTANT: a lapped reader takes the slot after the oldest for the oldest.
Jump_Short(l) ==
    IF Behind(l.w, l.r) <= depth THEN l
    ELSE [l EXCEPT !.r = (l.w - depth) % Mod,
                   !.rd = (@ + 1 + ((l.w - depth - l.r) % Mod)) % depth]

\* A lapped reader jumps to the oldest slot still holding data.
Jump(l) ==
    IF Behind(l.w, l.r) <= depth THEN l
    ELSE [l EXCEPT !.r = (l.w - depth) % Mod,
                   !.rd = (@ + ((l.w - depth - l.r) % Mod)) % depth]

\* One turn of pipe_next or pipe_read, up to the copy.
CheckSlot ==
    /\ Runs /\ cpc = "check"
    /\ LET lag == Behind(rd_.w, rd_.r)
           l == IF rd_.fast THEN rd_ ELSE Jump(rd_)
           lost == IF rd_.fast THEN lag = 0 \/ lag > depth \/ ~Intact(l.rd, l.r)
                               ELSE lag # 0 /\ ~Intact(l.rd, l.r)
       IN \/ /\ lost
             /\ rd_' = Lost(l) /\ Do("load")
             /\ UNCHANGED <<subVars, missed, seen>>
          \/ /\ ~rd_.fast /\ lag = 0
             /\ Do("empty")
             /\ UNCHANGED <<subVars, rd_, missed, seen>>
          \/ /\ ~lost /\ lag # 0
             /\ rd_' = l /\ Do("copy1")
             /\ IF view
                  THEN /\ peeked' = l.rd /\ cursor' = l.rd /\ expect' = l.r
                       /\ missed' = Behind(l.r, expect) /\ seen' = seen + missed'
                       /\ UNCHANGED nsubs
                  ELSE UNCHANGED <<subVars, missed, seen>>
    /\ UNCHANGED wakeVars

\* copy_payload out of the slot, or the caller reading the view.
CopyOut ==
    /\ Runs /\ cpc \in {"copy1", "copy2"}
    /\ LET word == IF cpc = "copy1" THEN 1 ELSE 2
       IN rd_' = [rd_ EXCEPT !.copy[word] = payload[rd_.rd][word]]
    /\ Do(IF cpc = "copy1" THEN "copy2" ELSE "recheck")
    /\ UNCHANGED <<subVars, wakeVars, seen, missed>>

\* MUTANT: a message too big is skipped, but the slot is not.
TooBig_Skips ==
    /\ Runs /\ cpc = "copy1" /\ ~view /\ ~rd_.fast
    /\ expect' = (rd_.r + 1) % Mod /\ seen' = seen + Behind(rd_.r, expect) + 1
    /\ Do("idle")
    /\ UNCHANGED <<nsubs, cursor, peeked, wakeVars, rd_, missed>>

\* V_BUS_EMSGSIZE: the buffer is too small (only pipe_read says so), the message
\* stays unread.
TooBig ==
    /\ Runs /\ cpc = "copy1" /\ ~view /\ ~rd_.fast
    /\ Do("idle")
    /\ UNCHANGED <<subVars, wakeVars, rd_, seen, missed>>

\* The message is taken.
Take ==
    /\ expect' = (rd_.r + 1) % Mod /\ cursor' = NextSlot(rd_.rd)
    /\ missed' = Behind(rd_.r, expect) /\ seen' = seen + missed' + 1
    /\ Do("got")
    /\ UNCHANGED <<nsubs, peeked, rd_>>

\* MUTANT: no second look at the stamp.
CheckAgain_Trusting == Runs /\ cpc = "recheck" /\ ~view /\ Take /\ UNCHANGED wakeVars

\* After the copy: keep it if the slot was not overwritten meanwhile.
CheckAgain ==
    /\ Runs /\ cpc = "recheck" /\ ~view
    /\ \/ Intact(rd_.rd, rd_.r) /\ Take
       \/ /\ ~Intact(rd_.rd, rd_.r)
          /\ rd_' = Lost(rd_) /\ Do("load")
          /\ UNCHANGED <<subVars, missed, seen>>
    /\ UNCHANGED wakeVars

\* The end of a peek: V_BUS_ESTALE when the slot was overwritten under it.
v_bus_release ==
    /\ Runs /\ cpc = "recheck" /\ view
    /\ peeked' = NIL /\ expect' = (expect + 1) % Mod /\ cursor' = NextSlot(peeked)
    /\ seen' = seen + 1
    /\ Do(IF Intact(peeked, expect) THEN "got" ELSE "stale")
    /\ UNCHANGED <<nsubs, wakeVars, rd_, missed>>

\* The caller has its answer.
Return ==
    /\ Runs /\ cpc \in {"got", "stale", "empty"}
    /\ Do("idle")
    /\ UNCHANGED <<subVars, wakeVars, rd_, seen, missed>>

\* v_bus_recv_wait after an empty read: v_bus_wait looks again (sub_ready) ...
v_bus_wait ==
    /\ Runs /\ cpc = "empty" /\ ~view
    /\ Do("ready")
    /\ rd_' = [rd_ EXCEPT !.w = next_seq]
    /\ UNCHANGED <<subVars, wakeVars, seen, missed>>

sub_ready ==
    /\ Runs /\ cpc = "ready"
    /\ Do(IF Behind(rd_.w, expect) \in 1..depth /\ Intact(cursor, expect)
            THEN "idle" ELSE "sleep")
    /\ UNCHANGED <<subVars, wakeVars, rd_, seen, missed>>

\* ... and takes the semaphore, asleep if its count is 0, until a give or the
\* deadline.
v_semaphore_take ==
    /\ Runs /\ cpc = "sleep"
    /\ parked' = (notify = 0) /\ notify' = 0
    /\ Do("idle")
    /\ UNCHANGED <<subVars, rd_, seen, missed>>

Timeout ==
    /\ parked /\ parked' = FALSE
    /\ Do("idle")
    /\ UNCHANGED <<subVars, notify, rd_, seen, missed>>

Consumer ==
    \/ v_bus_unsubscribe \/ v_bus_subscribe \/ StartRead \/ LoadSeq \/ CheckSlot
    \/ CopyOut \/ TooBig \/ CheckAgain \/ v_bus_release \/ Return \/ v_bus_wait
    \/ sub_ready \/ v_semaphore_take \/ Timeout

PipeNext == Producer \/ Consumer

PipeSpec == PipeInit /\ [][PipeNext]_pipe_vars
------------------------------------------------------------------------------
(* Properties *)

\* Every field keeps its type, and the reader is never ahead of the producer;
\* on a drop pipe it is never more than a ring behind (topics_ok).
PipeTypeOK ==
    /\ next_seq \in 0..(Mod - 1) /\ expect \in 0..(Mod - 1)
    /\ pipe_wr \in PipeSlot /\ cursor \in PipeSlot /\ peeked \in PipeSlot \cup {NIL}
    /\ stamp \in [PipeSlot -> 0..(Mod - 1)] /\ payload \in [PipeSlot -> [Word -> Num]]
    /\ nsubs \in 0..1 /\ notify \in 0..1 /\ parked \in BOOLEAN
    /\ pub \in Num /\ seen \in 0..pub /\ ticket \in BOOLEAN /\ view \in BOOLEAN
    /\ nsubs = 1 /\ ~Overwrite => Behind(next_seq, expect) <= depth

\* A read that succeeds delivers one whole message, the one the count of missed
\* messages says: not torn, not stale, none repeated, none skipped unnoticed,
\* with the producer overwriting at any moment (seqlock of pipe_read, ESTALE of
\* v_bus_release).
SlotReadExact == cpc = "got" => rd_.copy = [i \in Word |-> seen - 1]

\* A drop pipe loses nothing it accepted, and a view is never overwritten.
DropLosesNothing ==
    ~Overwrite => missed = 0 /\ cpc # "stale"

\* "its reader is never ahead, and sits exactly (next_seq - expect) slots behind"
\* (topics_ok): the reader's slot is the one of the message it expects.
ReaderAligned ==
    nsubs = 1 /\ ppc = "idle" =>
      cursor = (pipe_wr - Behind(next_seq, expect)) % depth

\* An unread message is still in its slot.
Readable ==
    \E k \in 0..(Behind(next_seq, expect) - 1) :
      Intact((cursor + k) % depth, (expect + k) % Mod)

\* "caught up" (pipe_read): the read answers empty only if no message it had not
\* read was still readable, whatever jumps and losses it went through.
EmptyIsEmpty ==
    cpc = "empty" /\ nsubs = 1 /\ rd_.w = next_seq => ~Readable

\* No lost wakeup: the reader sleeps on unread messages only while the producer
\* is still on the way to its semaphore.  (The last one published is readable at
\* any time, but not in a ring of one slot, which v_bus_cancel may leave empty.)
NoLostNotify ==
    parked /\ next_seq # expect /\ (depth = 1 => Readable) => ppc \in {"advance", "notify"}

\* A pipe delivers messages whole and in order, loses none unless it overwrites, and
\* never lets its reader sleep or report empty with one waiting, across the wrap of the
\* sequence numbers (pipe_claim, pipe_publish, pipe_read).
PipeSound ==
    /\ PipeTypeOK /\ SlotReadExact /\ DropLosesNothing
    /\ ReaderAligned /\ NoLostNotify /\ EmptyIsEmpty
==============================================================================

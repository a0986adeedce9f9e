-------------------------------- MODULE Spsc ---------------------------------
(***************************************************************************)
(* The single-producer single-consumer fifo (kernel/structure.c): no lock, *)
(* the producer owns head, the consumer owns tail, and each reads the      *)
(* other's index.  One action per access to what they share.               *)
(***************************************************************************)
EXTENDS Integers, Sequences

CONSTANTS
    capacity,       \* f->capacity, at least 2
    Items,          \* bound: element values 0..Items-1 are used in turn
    Races           \* bound: an overwriting write may run while the consumer reads

VARIABLES
    overwriting,    \* f->policy = SPSC_POLICY_OVERWRITE
    buffer,
    head, tail,
    prod,           \* the producer: where it is, elements to store, already stored
    cons,           \* the consumer: where it is, elements to take and from where, those copied
    next,           \* ghost: the value of the next element written
    content,        \* ghost: the elements in the fifo, oldest first
    got             \* ghost: what the last read delivered

fifo_vars == <<overwriting, buffer, head, tail, prod, cons, next, content, got>>

Wrap(n) == n % capacity
Value(k) == (next + k) % Items

\* spsc_init, spsc_set_policy.
Init ==
    /\ overwriting \in BOOLEAN
    /\ buffer = [i \in 0..(capacity - 1) |-> 0]
    /\ head = 0 /\ tail = 0 /\ next = 0 /\ content = <<>> /\ got = <<>>
    /\ prod = [at |-> "idle", n |-> 0, i |-> 0]
    /\ cons = [at |-> "idle", n |-> 0, from |-> 0, copy |-> <<>>]

\* spsc_available.
Available == IF head >= tail THEN head - tail ELSE capacity - tail + head

\* spsc_space: one slot stays empty, to tell full from empty.
Space == (IF head >= tail THEN capacity - head + tail ELSE tail - head) - 1

\* spsc_write_ptr and spsc_read_ptr: what lies in one piece.
WriteRun ==
    IF head >= tail THEN capacity - head - (IF tail = 0 THEN 1 ELSE 0) ELSE tail - head - 1
ReadRun == IF head >= tail THEN head - tail ELSE capacity - tail
------------------------------------------------------------------------------
(* The producer: spsc_write, or spsc_write_ptr and spsc_commit_write *)

\* A write takes at most what an empty fifo holds.
Usable(n) == IF n >= capacity THEN capacity - 1 ELSE n

ConsumerQuiet == Races \/ cons.at = "idle"

\* How many elements fit is decided on a tail that only moves away.
BeginWrite(n) ==
    /\ prod.at = "idle"
    /\ \/ /\ n <= Space \/ ~overwriting
          /\ prod' = [at |-> "store", n |-> IF n > Space THEN Space ELSE n, i |-> 0]
       \/ /\ n > Space /\ overwriting /\ ConsumerQuiet
          /\ prod' = [at |-> "skip", n |-> Usable(n), i |-> Usable(n - Space)]
    /\ UNCHANGED <<overwriting, buffer, head, tail, cons, next, content, got>>

\* MUTANT: the run is measured to the end of the buffer whatever the tail is.
BeginWriteRun_Full(n) ==
    /\ prod.at = "idle" /\ n <= capacity - head
    /\ prod' = [at |-> "store", n |-> n, i |-> 0]
    /\ UNCHANGED <<overwriting, buffer, head, tail, cons, next, content, got>>

BeginWriteRun(n) ==
    /\ prod.at = "idle" /\ n <= WriteRun
    /\ prod' = [at |-> "store", n |-> n, i |-> 0]
    /\ UNCHANGED <<overwriting, buffer, head, tail, cons, next, content, got>>

\* spsc_skip, by the producer of an overwriting fifo: it moves the consumer's tail.
SkipOldest ==
    LET k == IF prod.i > Available THEN Available ELSE prod.i
    IN  /\ prod.at = "skip"
        /\ tail' = Wrap(tail + k)
        /\ content' = SubSeq(content, k + 1, Len(content))
        /\ prod' = [prod EXCEPT !.at = "store", !.i = 0]
        /\ UNCHANGED <<overwriting, buffer, head, cons, next, got>>

Store ==
    /\ prod.at = "store" /\ prod.i < prod.n
    /\ buffer' = [buffer EXCEPT ![Wrap(head + prod.i)] = Value(prod.i)]
    /\ prod' = [prod EXCEPT !.i = @ + 1]
    /\ UNCHANGED <<overwriting, head, tail, cons, next, content, got>>

\* MUTANT: head is published before the elements are stored.
Published_Early == TRUE

\* All the elements are in place.
Published == prod.i = prod.n

CommitWrite ==
    /\ prod.at = "store" /\ Published
    /\ head' = Wrap(head + prod.n)
    /\ content' = content \o [k \in 1..prod.n |-> Value(k - 1)]
    /\ next' = Value(prod.n)
    /\ prod' = [at |-> "idle", n |-> 0, i |-> 0]
    /\ UNCHANGED <<overwriting, buffer, tail, cons, got>>
------------------------------------------------------------------------------
(* The consumer: spsc_read, spsc_read_ptr and spsc_commit_read, spsc_peek, spsc_skip *)

ProducerQuiet == Races \/ ~overwriting \/ prod.at = "idle"

BeginRead(n, limit) ==
    /\ cons.at = "idle" /\ ProducerQuiet /\ limit > 0
    /\ cons' = [at |-> "load", n |-> IF n > limit THEN limit ELSE n, from |-> tail, copy |-> <<>>]
    /\ UNCHANGED <<overwriting, buffer, head, tail, prod, next, content, got>>

Load ==
    /\ cons.at = "load" /\ Len(cons.copy) < cons.n
    /\ cons' = [cons EXCEPT !.copy = Append(@, buffer[Wrap(cons.from + Len(cons.copy))])]
    /\ UNCHANGED <<overwriting, buffer, head, tail, prod, next, content, got>>

\* MUTANT: tail is published before the elements are read.
Copied_Early == TRUE

\* All the elements are read.
Copied == Len(cons.copy) = cons.n

CommitRead ==
    /\ cons.at = "load" /\ Copied
    /\ tail' = Wrap(cons.from + cons.n)
    /\ got' = cons.copy
    /\ content' = SubSeq(content, cons.n + 1, Len(content))
    /\ cons' = [at |-> "idle", n |-> 0, from |-> 0, copy |-> <<>>]
    /\ UNCHANGED <<overwriting, buffer, head, prod, next>>

\* spsc_peek, when all is copied: the tail stays.
EndPeek ==
    /\ cons.at = "load" /\ Copied
    /\ cons' = [at |-> "idle", n |-> 0, from |-> 0, copy |-> <<>>]
    /\ UNCHANGED <<overwriting, buffer, head, tail, prod, next, content, got>>

\* spsc_skip by the consumer: the elements go as if read.
SkipRead(n) ==
    /\ cons.at = "idle" /\ ProducerQuiet /\ n <= Available
    /\ tail' = Wrap(tail + n)
    /\ got' = SubSeq(content, 1, n)
    /\ content' = SubSeq(content, n + 1, Len(content))
    /\ UNCHANGED <<overwriting, buffer, head, prod, cons, next>>

Next ==
    \/ \E n \in 1..capacity : BeginWrite(n)
    \/ \E n \in 1..capacity : BeginWriteRun(n)
    \/ SkipOldest
    \/ Store
    \/ CommitWrite
    \/ \E n \in 1..capacity : BeginRead(n, Available)
    \/ \E n \in 1..capacity : BeginRead(n, ReadRun)
    \/ Load
    \/ CommitRead
    \/ EndPeek
    \/ \E n \in 1..capacity : SkipRead(n)

Spec == Init /\ [][Next]_fifo_vars
------------------------------------------------------------------------------
(* Properties *)

F == INSTANCE Fifo WITH Item <- 0..(Items - 1), Capacity <- capacity - 1,
                        q <- content, out <- got

FifoStep == overwriting \/ F!Put \/ F!Get \/ UNCHANGED <<content, got>>

\* A dropping fifo is a bounded channel: with no lock, and with both sides in the
\* middle of their copies, what is read is what was written, in order, once.
DropIsFifo == [][FifoStep]_fifo_vars

\* What lies between tail and head is what was written and not yet taken, and a
\* full fifo is never taken for an empty one.
FifoExact ==
    /\ Available = Len(content)
    /\ \A k \in 1..Len(content) : buffer[Wrap(tail + k - 1)] = content[k]

\* What the consumer has copied so far is still the front of the fifo: the
\* producer has not stored over it.
CopyIsFront ==
    Len(cons.copy) <= Len(content) /\ cons.copy = SubSeq(content, 1, Len(cons.copy))

\* The fifo implements the bounded channel at the grain of its loads and stores: the
\* ring is the channel's content, no copy is written over, and every step is a put, a
\* get or none (spsc_write, spsc_read).
SpscIsFifo == [](FifoExact /\ CopyIsFront) /\ DropIsFifo
==============================================================================

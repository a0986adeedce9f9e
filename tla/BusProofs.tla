------------------------------ MODULE BusProofs -------------------------------
(***************************************************************************)
(* The bus, first its pipe topics: of any depth and for any number of      *)
(* messages within half the range of the sequence numbers, with no lock,   *)
(* the reader gets whole messages in order and sleeps through none.  The   *)
(* argument counts messages exactly, 0, 1, 2, ...: message k has the       *)
(* sequence number Number(k), the stamp Mark(k) and the slot At(k).        *)
(*                                                                         *)
(* Then those who consume a topic: any number of callbacks behind one      *)
(* semaphore, of descriptors, and a recording, none of them forgotten.     *)
(***************************************************************************)
EXTENDS BusPipe, BusWorker, ListLemmas
------------------------------------------------------------------------------
(* Pipe topics *)

\* A task that produces has one reader for good: only an interrupt's reader may come and
\* go (see the run pipe_resubscribe).
StaysSubscribed == \A u \in Uses : u.resubscribe => u.isr

Number(k) == (FirstSeq + k) % Mod
Mark(k) == (2 * Number(k)) % Mod
At(k) == k % depth
Held(k) == stamp[At(k)] = Mark(k)

\* A payload all of whose words are k.
Whole(k) == [i \in Word |-> k]

Writing == {"word1", "word2", "stamp"}
\* The producer has published, and is on its way to the reader's semaphore.
Bumped == {"advance", "notify"}
Reading == {"load", "check", "copy1", "copy2", "recheck"}
Resting == {"idle", "got", "stale", "empty", "ready", "sleep"}

\* No unread message is left, or the producer has told or is about to.
Quiet == ppc \in Bumped \/ \A k \in seen..(pub - 1) : ~Held(k)

\* The consumer's locals.
Locals == [r : 0..(Mod - 1), rd : PipeSlot, w : 0..(Mod - 1), copy : [Word -> Num],
           fast : BOOLEAN]

TypeInv ==
    /\ use \in Uses
    /\ stamp \in [PipeSlot -> 0..(Mod - 1)] /\ payload \in [PipeSlot -> [Word -> Num]]
    /\ nsubs \in 0..1 /\ notify \in 0..1 /\ parked \in BOOLEAN
    /\ peeked \in PipeSlot \cup {NIL}
    /\ ticket \in BOOLEAN /\ view \in BOOLEAN
    /\ pub \in Num /\ seen \in 0..pub
    /\ ppc \in Writing \cup Bumped \cup {"idle", "claim", "seq"}
    /\ cpc \in Reading \cup Resting
    /\ rd_ \in Locals

\* Where the two sides stand.
PlaceInv ==
    /\ next_seq = Number(pub) /\ (ppc = "advance" => pub > 0)
    /\ pipe_wr = IF ppc = "advance" THEN At(pub - 1) ELSE At(pub)
    /\ expect = Number(seen) /\ cursor = At(seen)
    /\ nsubs = 0 => use.resubscribe /\ cpc = "idle" /\ ~parked
    /\ parked => cpc = "idle" /\ notify = 0
    /\ ppc \in Writing \cup {"claim", "seq"} => pub < MaxMessages

\* The ring holds the last depth messages, but for the one in the slot being written.
RingInv ==
    /\ \A k \in 0..(pub - 1) : k > pub - depth => Held(k)
    /\ \A k \in 0..(pub - 1) : Held(k) => k >= pub - depth
    /\ Overwrite /\ ppc \in Writing => stamp[At(pub)] = (2 * Number(pub) + 1) % Mod
    /\ ppc = "word2" => payload[At(pub)][1] = pub
    /\ ppc \in {"stamp", "seq"} => payload[At(pub)] = Whole(pub)
    /\ ppc = "seq" => Held(pub)

\* What the reader may find in the ring.
ReaderInv ==
    nsubs = 1 =>
      /\ \A k \in seen..(pub - 1) : Held(k) => payload[At(k)] = Whole(k)
      /\ ~Overwrite =>
           /\ \A k \in seen..(pub - 1) : Held(k)
           /\ pub - seen <= depth
           /\ ppc \in Writing \cup {"seq"} => pub - seen < depth

\* The read in progress is at message k and has seen next_seq at w: what it passed was
\* overwritten, and what came after w the reader has been told of, or is about to.
ReadAt(k, w) ==
    /\ rd_.r = Number(k) /\ rd_.rd = At(k)
    /\ rd_.fast => k = seen
    /\ \A i \in seen..(k - 1) : ~Held(i)
    /\ cpc # "load" =>
         /\ rd_.w = Number(w) /\ k <= w
         /\ w < pub => notify = 1 \/ ppc \in Bumped
    /\ cpc \in {"copy1", "copy2", "recheck"} =>
         /\ k < w
         /\ view => k = seen /\ peeked = At(k)
         /\ cpc = "copy2" /\ Held(k) => rd_.copy[1] = k
         /\ cpc = "recheck" /\ Held(k) => rd_.copy = Whole(k)

ReadInv ==
    /\ cpc \in Reading => \E k \in seen..pub, w \in 0..pub : ReadAt(k, w)
    /\ cpc = "got" => rd_.copy = Whole(seen - 1)
    /\ cpc = "empty" => \E w \in seen..pub :
         /\ rd_.w = Number(w) /\ \A i \in seen..(w - 1) : ~Held(i)
         /\ w < pub => notify = 1 \/ ppc \in Bumped
    /\ cpc \in {"ready", "sleep"} => notify = 1 \/ Quiet
    /\ parked => Quiet
    /\ ~Overwrite => missed = 0 /\ cpc # "stale"

IInv == TypeInv /\ PlaceInv /\ RingInv /\ ReaderInv /\ ReadInv
-------------------------------------------------------------------------------
(* The arithmetic of sequence numbers, stamps and slots *)

LEMMA Sizes ==
    /\ Mod \in Nat \ {0} /\ depth \in Nat \ {0} /\ FirstSeq \in Int
    /\ MaxMessages \in Nat /\ 2 * (MaxMessages + depth) <= Mod
BY PipeAssumption

LEMMA Ranges ==
    ASSUME NEW k \in Int
    PROVE  Number(k) \in 0..(Mod - 1) /\ Mark(k) \in 0..(Mod - 1) /\ At(k) \in PipeSlot
<1>1. FirstSeq + k \in Int
  BY Sizes
<1>2. Number(k) \in 0..(Mod - 1)
  BY <1>1, Sizes, ModAdd DEF Number
<1>3. 2 * Number(k) \in Int
  BY <1>2
<1>4. Mark(k) \in 0..(Mod - 1)
  BY <1>3, Sizes, ModAdd DEF Mark
<1>5. At(k) \in PipeSlot
  BY Sizes, ModAdd DEF At, PipeSlot
<1>6. QED
  BY <1>2, <1>4, <1>5

\* The numbers and the slots of successive messages are successive.
LEMMA Successors ==
    ASSUME NEW k \in Int
    PROVE  (Number(k) + 1) % Mod = Number(k + 1) /\ NextSlot(At(k)) = At(k + 1)
<1>1. FirstSeq + k \in Int /\ 1 \in Int /\ Mod \in Nat \ {0} /\ depth \in Nat \ {0}
  BY Sizes
<1>2. (((FirstSeq + k) % Mod) + 1) % Mod = ((FirstSeq + k) + 1) % Mod
  BY <1>1, ModAdd, Zenon
<1>3. ((k % depth) + 1) % depth = (k + 1) % depth
  BY <1>1, ModAdd, Zenon
<1>4. (FirstSeq + k) + 1 = FirstSeq + (k + 1)
  BY Sizes
<1>5. QED
  BY <1>2, <1>3, <1>4 DEF Number, At, NextSlot

\* The exact number behind a sequence number.
LEMMA Unwrapped ==
    ASSUME NEW k \in Int
    PROVE  \E d \in Int : Number(k) = FirstSeq + k + Mod * d
<1>1. FirstSeq + k \in Int /\ Mod \in Nat \ {0}
  BY Sizes
<1> DEFINE a == FirstSeq + k
<1> HIDE DEF a
<1>2. a \in Int
  BY <1>1 DEF a
<1>3. a \div Mod \in Int /\ a % Mod \in 0..(Mod - 1) /\ a = Mod * (a \div Mod) + (a % Mod)
  BY <1>1, <1>2, DivMod
<1>4. a % Mod = a + Mod * (-(a \div Mod)) /\ -(a \div Mod) \in Int
  BY <1>1, <1>2, <1>3
<1>5. QED
  BY <1>4 DEF Number, a

\* The distance of two numbers, less a lead, is that of their messages.
LEMMA Distance ==
    ASSUME NEW i \in Int, NEW j \in Int, NEW c \in Int, j - i - c \in 0..(Mod - 1)
    PROVE  (Number(j) - c - Number(i)) % Mod = j - i - c
<1>1. PICK d \in Int : Number(j) = FirstSeq + j + Mod * d
  BY Unwrapped
<1>2. PICK e \in Int : Number(i) = FirstSeq + i + Mod * e
  BY Unwrapped
<1>3. Mod \in Nat \ {0} /\ FirstSeq \in Int
  BY Sizes
<1>4. d - e \in Int /\ Mod * d - Mod * e = Mod * (d - e)
  BY <1>3
<1>5. Number(j) - c - Number(i) = (j - i - c) + Mod * (d - e)
  BY <1>1, <1>2, <1>3, <1>4
<1>6. ((j - i - c) + Mod * (d - e)) % Mod = (j - i - c) % Mod
  BY <1>3, <1>4, ModShift
<1>7. QED
  BY <1>3, <1>5, <1>6, ModSmall

LEMMA Lag ==
    ASSUME NEW i \in Num, NEW j \in Num, i <= j
    PROVE  Behind(Number(j), Number(i)) = j - i
<1>1. i \in Int /\ j \in Int /\ 0 \in Int /\ j - i - 0 \in 0..(Mod - 1) /\ j - i - 0 = j - i
  BY Sizes DEF Num
<1>2. (Number(j) - 0 - Number(i)) % Mod = j - i
  BY <1>1, Distance
<1>3. Number(j) - 0 - Number(i) = Number(j) - Number(i)
  BY <1>1, Ranges
<1>4. QED
  BY <1>2, <1>3 DEF Behind

\* Within the range of the numbers, different messages have different ones ...
LEMMA NumbersApart ==
    ASSUME NEW i \in Num, NEW j \in Num, Number(i) = Number(j)
    PROVE  i = j
<1>1. i \in Int /\ j \in Int
  BY DEF Num, PipeAssumption
<1>2. CASE i <= j
  <2>1. Behind(Number(j), Number(i)) = j - i /\ Behind(Number(i), Number(i)) = i - i
    BY <1>1, <1>2, Lag
  <2>2. QED
    BY <1>1, <2>1
<1>3. CASE j <= i
  <2>1. Behind(Number(i), Number(j)) = i - j /\ Behind(Number(j), Number(j)) = j - j
    BY <1>1, <1>3, Lag
  <2>2. QED
    BY <1>1, <2>1
<1>4. QED
  BY <1>1, <1>2, <1>3

\* A stamp is the double of its message's number, as far as it goes.
LEMMA MarkOf ==
    ASSUME NEW k \in Int
    PROVE  Mark(k) = (2 * (FirstSeq + k)) % Mod
<1>1. PICK d \in Int : Number(k) = FirstSeq + k + Mod * d
  BY Unwrapped
<1>2. Mod \in Nat \ {0} /\ FirstSeq \in Int
  BY Sizes
<1>3. 2 * Number(k) = 2 * (FirstSeq + k) + Mod * (2 * d) /\ 2 * d \in Int
  BY <1>1, <1>2
<1>4. 2 * (FirstSeq + k) \in Int
  BY <1>2
<1>5. QED
  BY ZenonT(40), <1>2, <1>3, <1>4, ModShift DEF Mark

\* ... and different stamps, ...
LEMMA MarksApart ==
    ASSUME NEW i \in Num, NEW j \in Num, Mark(i) = Mark(j)
    PROVE  i = j
<1>1. ASSUME NEW a \in Num, NEW b \in Num, a < b
      PROVE  Mark(a) # Mark(b)
  <2>1. a \in Int /\ b \in Int /\ Mod \in Nat \ {0} /\ 2 * (FirstSeq + a) \in Int
    BY Sizes DEF Num
  <2>2. 2 * (b - a) \in 1..(Mod - 1)
    BY <1>1, Sizes DEF Num
  <2>3. 2 * (FirstSeq + b) = 2 * (FirstSeq + a) + 2 * (b - a)
    BY <2>1, Sizes
  <2>4. (2 * (FirstSeq + a) + 2 * (b - a)) % Mod # (2 * (FirstSeq + a)) % Mod
    BY <2>1, <2>2, ModApart
  <2>5. QED
    BY <2>1, <2>3, <2>4, MarkOf
<1>2. i < j \/ j < i \/ i = j
  BY DEF Num, PipeAssumption
<1>3. QED
  BY <1>1, <1>2

\* ... which are even: no message has the stamp of a slot being written.
LEMMA MarksEven ==
    ASSUME NEW k \in Int, NEW n \in Int
    PROVE  Mark(k) # (2 * n + 1) % Mod /\ Mark(k) # 1
<1> DEFINE h == Mod \div 2
<1>1. Mod \in Nat \ {0} /\ Mod % 2 = 0
  BY PipeAssumption
<1>2. h \in Nat \ {0} /\ Mod = 2 * h
  BY <1>1
<1> HIDE DEF h
<1>3. Number(k) \in Int /\ 2 * Number(k) \in Int /\ 2 * n + 1 \in Int
  BY Ranges
<1>4. 2 \in Nat \ {0}
  OBVIOUS
<1>5. Mark(k) % 2 = (2 * Number(k)) % 2 /\ ((2 * n + 1) % Mod) % 2 = (2 * n + 1) % 2
  BY <1>2, <1>3, <1>4, ModOfMod DEF Mark
<1>6. (2 * Number(k)) % 2 = 0 /\ (2 * n + 1) % 2 = 1 /\ 1 % 2 = 1
  BY <1>3
<1>7. QED
  BY <1>5, <1>6

\* Within a turn of the ring, different messages have different slots; a turn later the
\* slot is the same.
LEMMA SlotsApart ==
    ASSUME NEW i \in Int, NEW j \in Int, i < j, j < i + depth
    PROVE  At(i) # At(j)
<1>1. j - i \in 1..(depth - 1) /\ i + (j - i) = j /\ depth \in Nat \ {0}
  BY Sizes
<1>2. (i + (j - i)) % depth # i % depth
  BY <1>1, ModApart
<1>3. QED
  BY <1>1, <1>2 DEF At

LEMMA SlotAgain ==
    ASSUME NEW k \in Int
    PROVE  At(k - depth) = At(k)
<1>1. depth \in Nat \ {0} /\ k - depth \in Int /\ 1 \in Int
  BY Sizes
<1>2. ((k - depth) + depth * 1) % depth = (k - depth) % depth
  BY <1>1, ModShift, Zenon
<1>3. (k - depth) + depth * 1 = k
  BY <1>1
<1>4. QED
  BY <1>2, <1>3 DEF At

\* A reader that jumps lands on the slot and the number of the oldest message held.
LEMMA JumpLands ==
    ASSUME NEW k \in Num, NEW w \in Num, w - k > depth
    PROVE  /\ (Number(w) - depth) % Mod = Number(w - depth)
           /\ (At(k) + ((Number(w) - depth - Number(k)) % Mod)) % depth = At(w - depth)
<1>1. k \in Int /\ w \in Int /\ depth \in Nat \ {0} /\ Mod \in Nat \ {0} /\ FirstSeq \in Int
  BY Sizes DEF Num
<1>2. (Number(w) - depth) % Mod = Number(w - depth)
  <2>1. (((FirstSeq + w) % Mod) + (-depth)) % Mod = ((FirstSeq + w) + (-depth)) % Mod
    <3>1. FirstSeq + w \in Int /\ -depth \in Int
      BY <1>1
    <3>2. QED
      BY <1>1, <3>1, ModAdd, Zenon
  <2>2. (FirstSeq + w) + (-depth) = FirstSeq + (w - depth)
    BY <1>1
  <2>3. Number(w) + (-depth) = Number(w) - depth
    BY <1>1, Ranges
  <2>4. QED
    BY <2>1, <2>2, <2>3 DEF Number
<1>3. w - k - depth \in 0..(Mod - 1)
  BY <1>1, Sizes DEF Num
<1>4. (Number(w) - depth - Number(k)) % Mod = w - k - depth
  BY <1>1, <1>3, Distance
<1>5. ((k % depth) + (w - k - depth)) % depth = (k + (w - k - depth)) % depth
  <2>1. w - k - depth \in Int
    BY <1>1
  <2>2. QED
    BY <1>1, <2>1, ModAdd, Zenon
<1>6. k + (w - k - depth) = w - depth
  BY <1>1
<1>7. QED
  BY <1>2, <1>4, <1>5, <1>6 DEF At
-------------------------------------------------------------------------------
(* The producer *)

\* The counters are within the range of the numbers.
LEMMA Counters ==
    ASSUME TypeInv
    PROVE  /\ pub \in Nat /\ seen \in Nat /\ seen <= pub /\ pub <= MaxMessages
           /\ MaxMessages \in Nat /\ depth \in Nat /\ depth >= 1
           /\ pub \in Num /\ seen \in Num
BY Sizes DEF TypeInv, Num

\* What a step of the producer leaves alone.
ProducerFrame == UNCHANGED <<use, subVars, cpc, view, rd_, seen, missed>>

\* A step of the producer that brings no overwritten message back, and tells the reader
\* of what it publishes, disturbs no read.
LEMMA ReadUndisturbed ==
    ASSUME IInv, ProducerFrame, pub' \in {pub, pub + 1},
           \A k \in 0..(pub - 1) : Held(k)' => Held(k),
           pub' # pub => ppc' \in Bumped,
           nsubs = 1 /\ ~parked /\ (notify = 1 \/ ppc \in Bumped) =>
             notify' = 1 \/ ppc' \in Bumped,
           parked' => parked /\ (ppc \in Bumped => ppc' \in Bumped)
    PROVE  ReadInv'
<1>1. /\ pub \in Nat /\ seen \in Nat /\ seen <= pub /\ pub' >= pub /\ pub' \in Nat
      /\ seen' = seen /\ cpc' = cpc /\ rd_' = rd_ /\ view' = view /\ peeked' = peeked
      /\ nsubs' = nsubs /\ use' = use /\ missed' = missed
  BY Counters DEF IInv, ProducerFrame, subVars
<1>2. cpc # "idle" => nsubs = 1 /\ ~parked
  BY DEF IInv, PlaceInv, TypeInv
<1>3. ASSUME NEW w \in 0..pub, cpc # "idle", w < pub => notify = 1 \/ ppc \in Bumped
      PROVE  w < pub' => notify' = 1 \/ ppc' \in Bumped
  BY <1>1, <1>2, <1>3
<1>4. ASSUME NEW n \in 0..pub, \A i \in seen..(n - 1) : ~Held(i)
      PROVE  \A i \in seen..(n - 1) : ~Held(i)'
  BY <1>1, <1>4
<1>5. cpc \in Reading => \E k \in seen..pub', w \in 0..pub' : ReadAt(k, w)'
  <2> SUFFICES ASSUME cpc \in Reading PROVE \E k \in seen..pub', w \in 0..pub' : ReadAt(k, w)'
    OBVIOUS
  <2>1. PICK k \in seen..pub, w \in 0..pub : ReadAt(k, w)
    BY DEF IInv, ReadInv
  <2>2. k \in seen..pub' /\ w \in 0..pub' /\ k \in 0..pub /\ cpc # "idle"
    BY <1>1 DEF Reading
  <2>3. \A i \in seen..(k - 1) : ~Held(i)'
    BY <1>4, <2>1, <2>2 DEF ReadAt
  <2>4. cpc # "load" /\ w < pub' => notify' = 1 \/ ppc' \in Bumped
    BY <1>3, <2>1, <2>2 DEF ReadAt
  <2>5. cpc \in {"copy1", "copy2", "recheck"} => k < w /\ (Held(k)' => Held(k))
    BY <1>1, <2>1 DEF ReadAt
  <2>6. ReadAt(k, w)'
    BY <1>1, <2>1, <2>3, <2>4, <2>5 DEF ReadAt
  <2>7. QED
    BY <2>2, <2>6
<1>6. cpc = "got" => rd_'.copy = Whole(seen - 1)
  BY <1>1 DEF IInv, ReadInv
<1>7. cpc = "empty" => \E w \in seen..pub' :
         /\ rd_.w = Number(w) /\ \A i \in seen..(w - 1) : ~Held(i)'
         /\ w < pub' => notify' = 1 \/ ppc' \in Bumped
  <2> SUFFICES ASSUME cpc = "empty"
               PROVE  \E w \in seen..pub' :
                        /\ rd_.w = Number(w) /\ \A i \in seen..(w - 1) : ~Held(i)'
                        /\ w < pub' => notify' = 1 \/ ppc' \in Bumped
    OBVIOUS
  <2>1. PICK w \in seen..pub :
          /\ rd_.w = Number(w) /\ \A i \in seen..(w - 1) : ~Held(i)
          /\ w < pub => notify = 1 \/ ppc \in Bumped
    BY DEF IInv, ReadInv
  <2>2. w \in seen..pub' /\ w \in 0..pub
    BY <1>1
  <2>3. QED
    BY <1>3, <1>4, <2>1, <2>2
<1>8. Quiet /\ (ppc \in Bumped => ppc' \in Bumped) => Quiet'
  <2>1. CASE pub' = pub
    BY <1>1, <1>4, <2>1 DEF Quiet
  <2>2. CASE pub' # pub
    BY <2>2 DEF Quiet
  <2>3. QED
    BY <2>1, <2>2
<1>9. cpc \in {"ready", "sleep"} => notify' = 1 \/ Quiet'
  <2> SUFFICES ASSUME cpc \in {"ready", "sleep"} PROVE notify' = 1 \/ Quiet'
    OBVIOUS
  <2>1. notify = 1 \/ Quiet
    BY DEF IInv, ReadInv
  <2>2. CASE notify = 1 \/ ppc \in Bumped
    BY <1>2, <2>2 DEF Quiet
  <2>3. QED
    BY <1>8, <2>1, <2>2
<1>10. parked' => Quiet'
  BY <1>8 DEF IInv, ReadInv
<1>11. ~Overwrite' => missed' = 0 /\ cpc' # "stale"
  BY <1>1 DEF IInv, ReadInv, Overwrite
<1>12. QED
  BY <1>1, <1>5, <1>6, <1>7, <1>9, <1>10, <1>11 DEF ReadInv, Whole

\* A step of the producer that touches neither the ring nor the counters.
LEMMA ProducerWalks ==
    ASSUME IInv, ProducerFrame,
           UNCHANGED <<next_seq, pipe_wr, stamp, payload, wakeVars, pub>>, ticket' \in BOOLEAN,
           ppc \notin Bumped,
           ppc' \in {"idle", "claim", "word1"},
           ppc' # "idle" => pub < MaxMessages,
           ppc' = "word1" => ~Overwrite /\ (nsubs = 1 => pub - seen < depth)
    PROVE  IInv'
<1>1. /\ stamp' = stamp /\ payload' = payload /\ pub' = pub /\ seen' = seen /\ nsubs' = nsubs
      /\ next_seq' = next_seq /\ pipe_wr' = pipe_wr /\ notify' = notify /\ parked' = parked
      /\ use' = use /\ expect' = expect /\ cursor' = cursor /\ peeked' = peeked
      /\ cpc' = cpc /\ view' = view /\ rd_' = rd_ /\ missed' = missed
  BY DEF ProducerFrame, subVars, wakeVars
<1>2. ppc' \notin Bumped /\ ppc' # "advance" /\ ppc # "advance"
  BY DEF Bumped
<1>3. TypeInv'
  BY <1>1 DEF IInv, TypeInv, Writing
<1>4. PlaceInv'
  BY <1>1, <1>2 DEF IInv, PlaceInv, Writing
<1>5. RingInv'
  BY <1>1 DEF IInv, RingInv, Held, Writing, Overwrite, At, Mark, Number
<1>6. ReaderInv'
  BY <1>1 DEF IInv, ReaderInv, Held, Writing, Overwrite, Whole
<1>7. ReadInv'
  <2>1. \A k \in 0..(pub - 1) : Held(k)' => Held(k)
    BY <1>1 DEF Held
  <2>2. QED
    BY <1>1, <1>2, <2>1, ReadUndisturbed
<1>8. QED
  BY <1>3, <1>4, <1>5, <1>6, <1>7 DEF IInv

\* The producer starts, is refused, or gives up.
LEMMA PlainSteps ==
    ASSUME IInv, v_bus_publish \/ v_bus_reserve \/ v_bus_cancel \/ CommitUnheard
    PROVE  IInv'
<1>1. CASE v_bus_publish \/ v_bus_reserve
  <2>1. /\ ppc = "idle" /\ pub < MaxMessages /\ ppc' = "claim" /\ ticket' \in BOOLEAN
        /\ ProducerFrame /\ UNCHANGED <<next_seq, pipe_wr, stamp, payload, wakeVars, pub>>
    BY <1>1 DEF v_bus_publish, v_bus_reserve, ToProducer, ProducerFrame, topicVars
  <2>2. ppc \notin Bumped
    BY <2>1 DEF Bumped
  <2>3. QED
    BY <2>1, <2>2, ProducerWalks
<1>2. CASE v_bus_cancel \/ CommitUnheard
  <2>1. /\ ppc = "stamp" /\ ppc' = "idle" /\ ticket' = ticket
        /\ ProducerFrame /\ UNCHANGED <<next_seq, pipe_wr, stamp, payload, wakeVars, pub>>
    BY <1>2 DEF v_bus_cancel, CommitUnheard, Go, ToProducer, ProducerFrame, topicVars
  <2>2. ppc \notin Bumped /\ ticket' \in BOOLEAN
    BY <2>1 DEF Bumped, IInv, TypeInv
  <2>3. QED
    BY <2>1, <2>2, ProducerWalks
<1>3. QED
  BY <1>1, <1>2

\* The ring after the slot of the next message got a stamp no message before it has.
LEMMA Restamped ==
    ASSUME IInv, NEW x, UNCHANGED <<pub, payload>>,
           stamp' = [stamp EXCEPT ![At(pub)] = x],
           \A k \in 0..(pub - 1) : x # Mark(k)
    PROVE  /\ \A k \in 0..(pub - 1) : Held(k)' => Held(k)
           /\ \A k \in 0..(pub - 1) : k > pub - depth => Held(k)'
           /\ stamp'[At(pub)] = x
<1>1. /\ pub \in Nat /\ depth \in Nat /\ At(pub) \in PipeSlot
      /\ stamp \in [PipeSlot -> 0..(Mod - 1)]
  BY Counters, Ranges DEF IInv, TypeInv
<1>2. ASSUME NEW k \in 0..(pub - 1)
      PROVE  (Held(k)' => Held(k)) /\ (k > pub - depth => Held(k)')
  <2>1. k \in Int /\ pub \in Int /\ At(k) \in PipeSlot /\ x # Mark(k)
    BY <1>1, Ranges
  <2>2. CASE At(k) = At(pub)
    <3>1. ~(k > pub - depth)
      BY <1>1, <2>1, <2>2, SlotsApart
    <3>2. stamp'[At(k)] = x
      BY <1>1, <2>2
    <3>3. QED
      BY <2>1, <3>1, <3>2 DEF Held
  <2>3. CASE At(k) # At(pub)
    <3>1. stamp'[At(k)] = stamp[At(k)]
      BY <1>1, <2>1, <2>3
    <3>2. k > pub - depth => Held(k)
      BY DEF IInv, RingInv
    <3>3. QED
      BY <3>1, <3>2 DEF Held
  <2>4. QED
    BY <2>2, <2>3
<1>3. stamp'[At(pub)] = x
  BY <1>1
<1>4. QED
  BY <1>2, <1>3

\* pipe_claim of an overwrite pipe marks the slot.
LEMMA ClaimMarks ==
    ASSUME IInv, ppc = "claim", Overwrite, ppc' = "word1", ProducerFrame,
           UNCHANGED <<next_seq, pipe_wr, payload, wakeVars, pub, ticket>>,
           stamp' = [stamp EXCEPT ![pipe_wr] = (2 * next_seq + 1) % Mod]
    PROVE  IInv'
<1> DEFINE x == (2 * next_seq + 1) % Mod
<1>1. /\ payload' = payload /\ pub' = pub /\ seen' = seen /\ nsubs' = nsubs
      /\ next_seq' = next_seq /\ pipe_wr' = pipe_wr /\ notify' = notify /\ parked' = parked
      /\ use' = use /\ expect' = expect /\ cursor' = cursor /\ peeked' = peeked
      /\ cpc' = cpc /\ view' = view /\ rd_' = rd_ /\ missed' = missed /\ ticket' = ticket
  BY DEF ProducerFrame, subVars, wakeVars
<1>2. /\ pub \in Nat /\ next_seq = Number(pub) /\ pipe_wr = At(pub) /\ At(pub) \in PipeSlot
      /\ next_seq \in Int /\ pub \in Int
  BY Counters, Ranges DEF IInv, PlaceInv
<1>3. x \in 0..(Mod - 1)
  <2>1. 2 * next_seq + 1 \in Int
    BY <1>2
  <2>2. QED
    BY <2>1, Sizes, ModAdd
<1>4. \A k \in 0..(pub - 1) : x # Mark(k)
  BY <1>2, MarksEven
<1>5. /\ \A k \in 0..(pub - 1) : Held(k)' => Held(k)
      /\ \A k \in 0..(pub - 1) : k > pub - depth => Held(k)'
      /\ stamp'[At(pub)] = x
  BY <1>1, <1>2, <1>4, Restamped
<1> HIDE DEF x
<1>6. TypeInv'
  BY <1>1, <1>2, <1>3 DEF IInv, TypeInv, Writing, x
<1>7. PlaceInv'
  BY <1>1 DEF IInv, PlaceInv, Writing
<1>8. RingInv'
  <2>1. \A k \in 0..(pub - 1) : Held(k)' => k >= pub - depth
    BY <1>5 DEF IInv, RingInv
  <2>2. stamp'[At(pub)] = (2 * Number(pub) + 1) % Mod
    BY <1>2, <1>5 DEF x
  <2>3. QED
    BY <1>1, <1>5, <2>1, <2>2 DEF RingInv
<1>9. ReaderInv'
  <2>1. nsubs = 1 => \A k \in seen..(pub - 1) : Held(k)' => payload[At(k)] = Whole(k)
    <3>1. \A k \in seen..(pub - 1) : k \in 0..(pub - 1)
      BY Counters DEF IInv
    <3>2. QED
      BY <1>5, <3>1 DEF IInv, ReaderInv
  <2>2. Overwrite'
    BY <1>1 DEF Overwrite
  <2>3. QED
    BY <1>1, <2>1, <2>2 DEF ReaderInv
<1>10. ReadInv'
  <2>1. ppc \notin Bumped
    BY DEF Bumped
  <2>2. QED
    BY <1>1, <1>5, <2>1, ReadUndisturbed
<1>11. QED
  BY <1>6, <1>7, <1>8, <1>9, <1>10 DEF IInv

LEMMA ClaimSafe ==
    ASSUME IInv, pipe_claim
    PROVE  IInv'
<1>1. /\ ppc = "claim" /\ ppc \notin Bumped /\ pub < MaxMessages
      /\ ProducerFrame /\ UNCHANGED <<use, next_seq, pipe_wr, payload, wakeVars, pub, ticket>>
  BY DEF pipe_claim, Go, ToProducer, ProducerFrame, IInv, PlaceInv, Bumped
<1>2. ticket' \in BOOLEAN
  BY <1>1 DEF IInv, TypeInv
<1>3. Behind(next_seq, expect) = pub - seen
  BY Counters, Lag DEF IInv, PlaceInv
<1>4. \/ UNCHANGED stamp /\ ppc' = "idle"
      \/ ~Overwrite /\ (nsubs = 0 \/ pub - seen < depth) /\ UNCHANGED stamp /\ ppc' = "word1"
      \/ Overwrite /\ stamp' = [stamp EXCEPT ![pipe_wr] = (2 * next_seq + 1) % Mod] /\ ppc' = "word1"
  BY <1>3 DEF pipe_claim, Go, ToProducer
<1>5. CASE UNCHANGED stamp /\ ppc' = "idle"
  BY <1>1, <1>2, <1>5, ProducerWalks
<1>6. CASE ~Overwrite /\ (nsubs = 0 \/ pub - seen < depth) /\ UNCHANGED stamp /\ ppc' = "word1"
  BY <1>1, <1>2, <1>6, ProducerWalks
<1>7. CASE Overwrite /\ stamp' = [stamp EXCEPT ![pipe_wr] = (2 * next_seq + 1) % Mod] /\ ppc' = "word1"
  BY <1>1, <1>7, ClaimMarks
<1>8. QED
  BY <1>4, <1>5, <1>6, <1>7

\* A message the reader may find is in another slot than the one being written.
LEMMA WritesElsewhere ==
    ASSUME IInv, ppc \in Writing, nsubs = 1, NEW k \in seen..(pub - 1), Held(k)
    PROVE  At(k) # At(pub)
<1>1. /\ pub \in Int /\ k \in Int /\ seen \in Int /\ k < pub /\ seen <= k /\ depth \in Int
      /\ Number(pub) \in Int
  BY Counters, Ranges DEF IInv
<1>2. CASE Overwrite
  <2>1. stamp[At(pub)] = (2 * Number(pub) + 1) % Mod
    BY <1>2 DEF IInv, RingInv
  <2>2. Mark(k) # (2 * Number(pub) + 1) % Mod
    BY <1>1, MarksEven
  <2>3. QED
    BY <2>1, <2>2 DEF Held
<1>3. CASE ~Overwrite
  <2>1. pub - seen < depth
    BY <1>3 DEF IInv, ReaderInv
  <2>2. QED
    BY <1>1, <2>1, SlotsApart
<1>4. QED
  BY <1>2, <1>3

LEMMA CopyInSafe ==
    ASSUME IInv, CopyIn
    PROVE  IInv'
<1> DEFINE i == IF ppc = "word1" THEN 1 ELSE 2
<1>1. /\ ppc \in {"word1", "word2"} /\ payload' = [payload EXCEPT ![pipe_wr][i] = pub]
      /\ ppc' = (IF ppc = "word1" THEN "word2" ELSE "stamp")
      /\ ProducerFrame /\ UNCHANGED <<use, next_seq, pipe_wr, stamp, wakeVars, pub, ticket>>
  BY DEF CopyIn, Go, ToProducer, ProducerFrame
<1>2. /\ stamp' = stamp /\ pub' = pub /\ seen' = seen /\ nsubs' = nsubs
      /\ next_seq' = next_seq /\ pipe_wr' = pipe_wr /\ notify' = notify /\ parked' = parked
      /\ use' = use /\ expect' = expect /\ cursor' = cursor /\ peeked' = peeked
      /\ cpc' = cpc /\ view' = view /\ rd_' = rd_ /\ missed' = missed /\ ticket' = ticket
  BY <1>1 DEF ProducerFrame, subVars, wakeVars
<1>3. /\ pipe_wr = At(pub) /\ At(pub) \in PipeSlot /\ i \in Word /\ pub \in Num
      /\ payload \in [PipeSlot -> [Word -> Num]] /\ pub < MaxMessages
      /\ ppc \in Writing /\ ppc' \in Writing /\ ppc \notin Bumped /\ pub \in Nat
  BY SMTT(40), <1>1, Counters, Ranges DEF IInv, TypeInv, PlaceInv, Word, Writing, Bumped
<1>4. /\ payload' \in [PipeSlot -> [Word -> Num]]
      /\ payload'[At(pub)] = [payload[At(pub)] EXCEPT ![i] = pub]
      /\ \A b \in PipeSlot : b # At(pub) => payload'[b] = payload[b]
  BY <1>1, <1>3
<1>5. TypeInv'
  BY <1>2, <1>3, <1>4 DEF IInv, TypeInv
<1>6. PlaceInv'
  BY <1>1, <1>2, <1>3 DEF IInv, PlaceInv
<1>7. \A k : Held(k)' <=> Held(k)
  BY <1>2 DEF Held
<1>8. RingInv'
  <2>1. ppc' = "word2" => payload'[At(pub)][1] = pub
    BY <1>1, <1>3, <1>4 DEF Word
  <2>2. ppc' = "stamp" => payload'[At(pub)] = Whole(pub)
    <3> SUFFICES ASSUME ppc' = "stamp" PROVE payload'[At(pub)] = Whole(pub)
      OBVIOUS
    <3>1. ppc = "word2" /\ i = 2 /\ payload[At(pub)][1] = pub
      BY <1>1 DEF IInv, RingInv
    <3>2. payload[At(pub)] \in [Word -> Num]
      BY <1>3
    <3>3. QED
      BY <1>4, <3>1, <3>2 DEF Whole, Word
  <2>3. Overwrite' => stamp'[At(pub)] = (2 * Number(pub) + 1) % Mod
    BY <1>2, <1>3 DEF IInv, RingInv, Overwrite
  <2>4. /\ \A k \in 0..(pub - 1) : k > pub - depth => Held(k)'
        /\ \A k \in 0..(pub - 1) : Held(k)' => k >= pub - depth
    BY <1>7 DEF IInv, RingInv
  <2>5. ppc' # "seq"
    BY <1>1
  <2>6. QED
    BY <1>2, <2>1, <2>2, <2>3, <2>4, <2>5 DEF RingInv, Whole
<1>9. ReaderInv'
  <2> SUFFICES ASSUME nsubs = 1 PROVE ReaderInv'
    BY <1>2 DEF ReaderInv
  <2>1. ASSUME NEW k \in seen..(pub - 1), Held(k)
        PROVE  payload'[At(k)] = Whole(k)
    <3>1. k \in Int
      OBVIOUS
    <3>2. At(k) # At(pub) /\ At(k) \in PipeSlot
      BY <1>3, <2>1, <3>1, WritesElsewhere, Ranges
    <3>3. payload[At(k)] = Whole(k)
      BY <2>1 DEF IInv, ReaderInv
    <3>4. QED
      BY <1>4, <3>2, <3>3
  <2>2. ~Overwrite => /\ \A k \in seen..(pub - 1) : Held(k)
                      /\ pub - seen <= depth /\ pub - seen < depth
    BY <1>3 DEF IInv, ReaderInv
  <2>3. Overwrite' <=> Overwrite
    BY <1>2 DEF Overwrite
  <2>4. QED
    BY <1>2, <1>7, <2>1, <2>2, <2>3 DEF ReaderInv, Whole
<1>10. ReadInv'
  BY <1>1, <1>2, <1>3, <1>7, ReadUndisturbed
<1>11. QED
  BY <1>5, <1>6, <1>8, <1>9, <1>10 DEF IInv

LEMMA StampSafe ==
    ASSUME IInv, StampSlot
    PROVE  IInv'
<1>1. /\ ppc = "stamp" /\ ppc' = "seq"
      /\ stamp' = [stamp EXCEPT ![pipe_wr] = (2 * next_seq) % Mod]
      /\ ProducerFrame /\ UNCHANGED <<use, next_seq, pipe_wr, payload, wakeVars, pub, ticket>>
  BY DEF StampSlot, Go, ToProducer, ProducerFrame
<1>2. /\ payload' = payload /\ pub' = pub /\ seen' = seen /\ nsubs' = nsubs
      /\ next_seq' = next_seq /\ pipe_wr' = pipe_wr /\ notify' = notify /\ parked' = parked
      /\ use' = use /\ expect' = expect /\ cursor' = cursor /\ peeked' = peeked
      /\ cpc' = cpc /\ view' = view /\ rd_' = rd_ /\ missed' = missed /\ ticket' = ticket
  BY <1>1 DEF ProducerFrame, subVars, wakeVars
<1>3. /\ pipe_wr = At(pub) /\ At(pub) \in PipeSlot /\ pub \in Nat /\ pub < MaxMessages
      /\ Mark(pub) \in 0..(Mod - 1) /\ (2 * next_seq) % Mod = Mark(pub) /\ ppc \notin Bumped
      /\ ppc \in Writing /\ pub \in Num
  BY <1>1, Counters, Ranges DEF IInv, PlaceInv, Mark, Bumped, Writing
<1>4. \A k \in 0..(pub - 1) : Mark(pub) # Mark(k)
  <2>1. \A k \in 0..(pub - 1) : k \in Num /\ k # pub
    BY <1>3, Sizes DEF Num
  <2>2. QED
    BY <1>3, <2>1, MarksApart
<1>5. /\ \A k \in 0..(pub - 1) : Held(k)' => Held(k)
      /\ \A k \in 0..(pub - 1) : k > pub - depth => Held(k)'
      /\ stamp'[At(pub)] = Mark(pub)
  BY <1>1, <1>2, <1>3, <1>4, Restamped
<1>6. TypeInv'
  BY <1>1, <1>2, <1>3 DEF IInv, TypeInv
<1>7. PlaceInv'
  BY <1>1, <1>2, <1>3 DEF IInv, PlaceInv
<1>8. RingInv'
  <2>1. \A k \in 0..(pub - 1) : Held(k)' => k >= pub - depth
    BY <1>5 DEF IInv, RingInv
  <2>2. payload[At(pub)] = Whole(pub)
    BY <1>1 DEF IInv, RingInv
  <2>3. ppc' \notin Writing /\ ppc' # "word2"
    BY <1>1 DEF Writing
  <2>4. Held(pub)'
    BY <1>2, <1>5 DEF Held
  <2>5. QED
    BY <1>2, <1>5, <2>1, <2>2, <2>3, <2>4 DEF RingInv, Whole
<1>9. ReaderInv'
  <2> SUFFICES ASSUME nsubs = 1 PROVE ReaderInv'
    BY <1>2 DEF ReaderInv
  <2>1. seen \in Nat /\ \A k \in seen..(pub - 1) : k \in 0..(pub - 1)
    BY Counters DEF IInv
  <2>2. \A k \in seen..(pub - 1) : Held(k)' => payload[At(k)] = Whole(k)
    BY <1>5, <2>1 DEF IInv, ReaderInv
  <2>3. ~Overwrite => pub - seen < depth
    BY <1>3 DEF IInv, ReaderInv
  <2>4. ~Overwrite => \A k \in seen..(pub - 1) : Held(k)'
    BY <1>3, <1>5, <2>1, <2>3, Counters DEF IInv
  <2>5. Overwrite' <=> Overwrite
    BY <1>2 DEF Overwrite
  <2>6. pub - seen < depth => pub - seen <= depth
    BY <1>3, <2>1, Counters DEF IInv
  <2>7. QED
    BY <1>2, <2>2, <2>3, <2>4, <2>5, <2>6 DEF ReaderInv, Whole
<1>10. ReadInv'
  BY <1>1, <1>2, <1>3, <1>5, ReadUndisturbed
<1>11. QED
  BY <1>6, <1>7, <1>8, <1>9, <1>10 DEF IInv

LEMMA BumpSafe ==
    ASSUME IInv, BumpSeq
    PROVE  IInv'
<1>1. /\ ppc = "seq" /\ ppc' = "advance" /\ pub' = pub + 1 /\ next_seq' = (next_seq + 1) % Mod
      /\ ProducerFrame /\ UNCHANGED <<use, pipe_wr, stamp, payload, wakeVars, ticket>>
  BY DEF BumpSeq, Go, ToProducer, ProducerFrame
<1>2. /\ payload' = payload /\ stamp' = stamp /\ seen' = seen /\ nsubs' = nsubs
      /\ pipe_wr' = pipe_wr /\ notify' = notify /\ parked' = parked
      /\ use' = use /\ expect' = expect /\ cursor' = cursor /\ peeked' = peeked
      /\ cpc' = cpc /\ view' = view /\ rd_' = rd_ /\ missed' = missed /\ ticket' = ticket
  BY <1>1 DEF ProducerFrame, subVars, wakeVars
<1>3. /\ pub \in Nat /\ seen \in Nat /\ seen <= pub /\ pub < MaxMessages /\ MaxMessages \in Nat
      /\ pub + 1 \in Num /\ seen \in 0..(pub + 1) /\ depth \in Nat /\ depth >= 1
      /\ pipe_wr = At(pub) /\ pub = pub' - 1 /\ pub + 1 \in Int /\ pub' > 0
      /\ next_seq' = Number(pub + 1)
  BY <1>1, Counters, Successors DEF IInv, PlaceInv, Num
<1>4. ppc' \notin Writing /\ ppc' \in Bumped
  BY <1>1 DEF Writing, Bumped
<1>5. TypeInv'
  BY <1>1, <1>2, <1>3, <1>4 DEF IInv, TypeInv
<1>6. PlaceInv'
  BY <1>1, <1>2, <1>3, <1>4 DEF IInv, PlaceInv
<1>7. \A k : Held(k)' <=> Held(k)
  BY <1>2 DEF Held
<1>8. Held(pub) /\ payload[At(pub)] = Whole(pub)
  BY <1>1 DEF IInv, RingInv
<1>9. RingInv'
  <2>1. ASSUME NEW k \in 0..pub, k > pub + 1 - depth PROVE Held(k)
    <3>1. k = pub \/ (k \in 0..(pub - 1) /\ k > pub - depth)
      BY <1>3, <2>1
    <3>2. QED
      BY <1>8, <3>1 DEF IInv, RingInv
  <2>2. ASSUME NEW k \in 0..pub, Held(k) PROVE k >= pub + 1 - depth
    <3>1. CASE k = pub
      BY <1>3, <3>1
    <3>2. CASE k = pub - depth
      <4>1. At(k) = At(pub) /\ k \in Num /\ pub \in Num /\ k # pub
        BY <1>3, <3>2, SlotAgain DEF Num
      <4>2. Mark(k) = Mark(pub)
        BY <1>8, <2>2, <4>1 DEF Held
      <4>3. QED
        BY <4>1, <4>2, MarksApart
    <3>3. CASE k # pub /\ k # pub - depth
      <4>1. k \in 0..(pub - 1)
        BY <1>3, <3>3
      <4>2. k >= pub - depth
        BY <2>2, <4>1 DEF IInv, RingInv
      <4>3. QED
        BY <1>3, <3>3, <4>2
    <3>4. QED
      BY <3>1, <3>2, <3>3
  <2>3. ppc' \notin {"word2", "stamp", "seq"}
    BY <1>1
  <2>4. pub' - 1 = pub
    BY <1>1, <1>3
  <2>5. \A k \in 0..pub : (k > pub + 1 - depth => Held(k)') /\ (Held(k)' => k >= pub + 1 - depth)
    BY <1>7, <2>1, <2>2
  <2>6. /\ \A k \in 0..(pub' - 1) : k > pub' - depth => Held(k)'
        /\ \A k \in 0..(pub' - 1) : Held(k)' => k >= pub' - depth
    <3>1. pub' = pub + 1 /\ 0..(pub' - 1) = 0..pub
      BY <1>1, <2>4
    <3>2. pub' - depth = pub + 1 - depth
      BY <1>3, <3>1
    <3>3. QED
      BY <2>5, <3>1, <3>2, Zenon
  <2>7. QED
    BY <1>4, <2>3, <2>6 DEF RingInv
<1>10. ReaderInv'
  <2> SUFFICES ASSUME nsubs = 1 PROVE ReaderInv'
    BY <1>2 DEF ReaderInv
  <2>1. \A k \in seen..pub : k \in seen..(pub - 1) \/ k = pub
    BY <1>3
  <2>2. \A k \in seen..pub : Held(k) => payload[At(k)] = Whole(k)
    BY <1>8, <2>1 DEF IInv, ReaderInv
  <2>3. ~Overwrite => (\A k \in seen..pub : Held(k)) /\ pub - seen < depth
    BY <1>1, <1>8, <2>1 DEF IInv, ReaderInv
  <2>4. pub - seen < depth => (pub + 1) - seen <= depth
    BY <1>3
  <2>5. (Overwrite' <=> Overwrite) /\ pub' - 1 = pub /\ ppc' # "seq"
    BY <1>1, <1>2, <1>3 DEF Overwrite
  <2>6. QED
    BY <1>1, <1>2, <1>4, <1>7, <2>2, <2>3, <2>4, <2>5 DEF ReaderInv, Whole
<1>11. ReadInv'
  BY <1>1, <1>2, <1>4, <1>7, ReadUndisturbed
<1>12. QED
  BY <1>5, <1>6, <1>9, <1>10, <1>11 DEF IInv

\* The write position moves, then the reader is told.
LEMMA AdvanceSafe ==
    ASSUME IInv, AdvanceWr \/ notify_sub
    PROVE  IInv'
<1>1. /\ ppc \in Bumped /\ ppc' \in {"notify", "idle"} /\ ProducerFrame
      /\ UNCHANGED <<use, next_seq, stamp, payload, pub, ticket>>
  BY DEF AdvanceWr, notify_sub, Go, ToProducer, ProducerFrame, topicVars, Bumped
<1>2. /\ payload' = payload /\ stamp' = stamp /\ seen' = seen /\ nsubs' = nsubs /\ pub' = pub
      /\ next_seq' = next_seq
      /\ use' = use /\ expect' = expect /\ cursor' = cursor /\ peeked' = peeked
      /\ cpc' = cpc /\ view' = view /\ rd_' = rd_ /\ missed' = missed /\ ticket' = ticket
  BY <1>1 DEF ProducerFrame, subVars
<1>3. pub \in Int
  BY Counters DEF IInv
<1>4. pipe_wr' = At(pub)
  <2>1. CASE AdvanceWr
    <3>1. pipe_wr' = NextSlot(At(pub - 1)) /\ pub - 1 \in Int /\ (pub - 1) + 1 = pub
      BY <1>3, <2>1 DEF AdvanceWr, IInv, PlaceInv
    <3>2. QED
      BY <3>1, Successors
  <2>2. CASE notify_sub
    BY <2>2 DEF notify_sub, IInv, PlaceInv, topicVars
  <2>3. QED
    BY <2>1, <2>2
<1>5. /\ notify' \in 0..1 /\ parked' \in BOOLEAN
      /\ parked' => parked /\ notify' = notify /\ ppc' \in Bumped
      /\ nsubs = 1 /\ ~parked => notify' = 1 \/ ppc' \in Bumped
  <2>1. CASE AdvanceWr
    BY <2>1 DEF AdvanceWr, Go, ToProducer, wakeVars, IInv, TypeInv, Bumped
  <2>2. CASE notify_sub
    BY <2>2 DEF notify_sub, IInv, TypeInv
  <2>3. QED
    BY <2>1, <2>2
<1>6. TypeInv'
  BY <1>1, <1>2, <1>5 DEF IInv, TypeInv, Bumped
<1>7. ppc' \notin Writing \cup {"advance", "claim", "seq", "word2", "stamp"}
  BY <1>1 DEF Writing
<1>8. PlaceInv'
  BY <1>2, <1>4, <1>5, <1>7 DEF IInv, PlaceInv
<1>9. \A k : Held(k)' <=> Held(k)
  BY <1>2 DEF Held
<1>10. RingInv'
  BY <1>2, <1>7, <1>9 DEF IInv, RingInv
<1>11. ReaderInv'
  BY <1>2, <1>7, <1>9 DEF IInv, ReaderInv, Overwrite, Whole
<1>12. ReadInv'
  BY <1>1, <1>2, <1>5, <1>9, ReadUndisturbed
<1>13. QED
  BY <1>6, <1>8, <1>10, <1>11, <1>12 DEF IInv

LEMMA ProducerSafe ==
    ASSUME IInv, Producer
    PROVE  IInv'
BY PlainSteps, ClaimSafe, CopyInSafe, StampSafe, BumpSafe, AdvanceSafe DEF Producer
-------------------------------------------------------------------------------
(* The consumer *)

\* What a step of the consumer leaves alone.
ConsumerFrame == UNCHANGED <<topicVars, ppc, ticket, pub>>

LEMMA ConsumerLeaves ==
    ASSUME ConsumerFrame
    PROVE  /\ use' = use /\ next_seq' = next_seq /\ pipe_wr' = pipe_wr /\ stamp' = stamp
           /\ payload' = payload /\ ppc' = ppc /\ ticket' = ticket /\ pub' = pub
           /\ (Overwrite' <=> Overwrite) /\ \A k : Held(k)' <=> Held(k)
<1>1. /\ use' = use /\ next_seq' = next_seq /\ pipe_wr' = pipe_wr /\ stamp' = stamp
      /\ payload' = payload /\ ppc' = ppc /\ ticket' = ticket /\ pub' = pub
  BY DEF ConsumerFrame, topicVars
<1>2. QED
  BY <1>1 DEF Overwrite, Held

LEMMA RingStays ==
    ASSUME IInv, ConsumerFrame
    PROVE  RingInv'
BY ConsumerLeaves DEF IInv, RingInv, Whole

LEMMA Nearer ==
    ASSUME NEW p \in Int, NEW i \in Int, NEW j \in Int, NEW d \in Int, i <= j
    PROVE  (p - i <= d => p - j <= d) /\ (p - i < d => p - j < d)
OBVIOUS

\* The reader of a subscribed pipe moves on, if at all: all but the read itself holds.
LEMMA ConsumerMoves ==
    ASSUME IInv, ConsumerFrame, nsubs = 1, nsubs' = 1, seen' \in seen..pub,
           expect' = Number(seen'), cursor' = At(seen'), peeked' \in PipeSlot \cup {NIL},
           view' \in BOOLEAN, cpc' \in Reading \cup Resting, rd_' \in Locals,
           notify' \in 0..1, parked' \in BOOLEAN, parked' => cpc' = "idle" /\ notify' = 0
    PROVE  TypeInv' /\ PlaceInv' /\ RingInv' /\ ReaderInv'
<1>1. /\ use' = use /\ next_seq' = next_seq /\ pipe_wr' = pipe_wr /\ stamp' = stamp
      /\ payload' = payload /\ ppc' = ppc /\ ticket' = ticket /\ pub' = pub
      /\ (Overwrite' <=> Overwrite) /\ \A k : Held(k)' <=> Held(k)
  BY ConsumerLeaves
<1>2. pub \in Nat /\ seen \in Nat /\ seen' \in 0..pub /\ seen' >= seen /\ depth \in Nat
  BY Counters DEF IInv
<1>3. TypeInv'
  BY <1>1, <1>2 DEF IInv, TypeInv
<1>4. PlaceInv'
  BY <1>1 DEF IInv, PlaceInv
<1>5. ReaderInv'
  <2>1. \A k \in seen'..(pub - 1) : k \in seen..(pub - 1)
    BY <1>2
  <2>2. \A k \in seen'..(pub - 1) : Held(k)' => payload[At(k)] = Whole(k)
    BY <1>1, <2>1 DEF IInv, ReaderInv
  <2>3. ~Overwrite => \A k \in seen'..(pub - 1) : Held(k)'
    BY <1>1, <2>1 DEF IInv, ReaderInv
  <2>4. ~Overwrite => pub - seen <= depth /\ (ppc \in Writing \cup {"seq"} => pub - seen < depth)
    BY DEF IInv, ReaderInv
  <2>5. /\ pub - seen <= depth => pub - seen' <= depth
        /\ pub - seen < depth => pub - seen' < depth
    <3>1. /\ pub \in Int /\ seen \in Int /\ seen' \in Int /\ depth \in Int
          /\ seen <= seen'
      BY <1>2
    <3>2. QED
      BY <3>1, Nearer, Zenon
  <2>6. QED
    BY <1>1, <2>2, <2>3, <2>4, <2>5 DEF ReaderInv, Whole
<1>6. QED
  BY <1>3, <1>4, <1>5, RingStays

\* The same for a step that leaves the subscription and the semaphore alone, and has
\* the reader read or answer.
LEMMA ConsumerWalks ==
    ASSUME IInv, ConsumerFrame, UNCHANGED <<subVars, wakeVars, seen>>, cpc # "idle",
           view' \in BOOLEAN, cpc' \in Reading \cup Resting, rd_' \in Locals
    PROVE  TypeInv' /\ PlaceInv' /\ RingInv' /\ ReaderInv'
<1>1. /\ nsubs' = nsubs /\ expect' = expect /\ cursor' = cursor /\ peeked' = peeked
      /\ notify' = notify /\ parked' = parked /\ seen' = seen
  BY DEF subVars, wakeVars
<1>2. nsubs = 1 /\ ~parked /\ expect = Number(seen) /\ cursor = At(seen) /\ notify \in 0..1
      /\ peeked \in PipeSlot \cup {NIL} /\ parked \in BOOLEAN
  BY DEF IInv, PlaceInv, TypeInv
<1>3. seen \in seen..pub
  BY Counters DEF IInv
<1>4. QED
  BY <1>1, <1>2, <1>3, ConsumerMoves

\* A reader that has its answer, or is between two calls, awake.
LEMMA AtRest ==
    ASSUME IInv, ConsumerFrame, ~parked', UNCHANGED missed, cpc' = "idle"
    PROVE  ReadInv'
<1>1. cpc' \notin Reading \cup {"ready", "sleep", "empty", "stale", "got"}
  BY DEF Reading
<1>2. ~Overwrite' => missed' = 0
  BY ConsumerLeaves DEF IInv, ReadInv
<1>3. QED
  BY <1>1, <1>2 DEF ReadInv

\* A subscription ends, or starts at what comes next: no publication is under way then,
\* its producer being an interrupt.
LEMMA SubscriptionSafe ==
    ASSUME StaysSubscribed, IInv, v_bus_unsubscribe \/ v_bus_subscribe
    PROVE  IInv'
<1>1. /\ ConsumerFrame /\ cpc = "idle" /\ cpc' = "idle" /\ view' = view /\ rd_' = rd_
      /\ ~parked /\ parked' = parked /\ UNCHANGED missed
  BY DEF v_bus_unsubscribe, v_bus_subscribe, Do, ToConsumer, ConsumerFrame, Runs, wakeVars
<1>2. /\ use' = use /\ next_seq' = next_seq /\ pipe_wr' = pipe_wr /\ stamp' = stamp
      /\ payload' = payload /\ ppc' = ppc /\ ticket' = ticket /\ pub' = pub
      /\ (Overwrite' <=> Overwrite) /\ \A k : Held(k)' <=> Held(k)
  BY <1>1, ConsumerLeaves
<1>3. RingInv' /\ ReadInv'
  BY <1>1, RingStays, AtRest
<1>4. pub \in Nat /\ seen \in 0..pub /\ depth \in Nat /\ depth >= 1
  BY Counters DEF IInv
<1>5. CASE v_bus_unsubscribe
  <2>1. /\ nsubs' = 0 /\ use.resubscribe /\ notify' = notify /\ seen' = seen
        /\ expect' = expect /\ cursor' = cursor /\ peeked' = peeked
    BY <1>5 DEF v_bus_unsubscribe, wakeVars
  <2>2. TypeInv'
    BY <1>1, <1>2, <2>1 DEF IInv, TypeInv
  <2>3. PlaceInv'
    BY <1>1, <1>2, <2>1 DEF IInv, PlaceInv
  <2>4. ReaderInv'
    BY <2>1 DEF ReaderInv
  <2>5. QED
    BY <1>3, <2>2, <2>3, <2>4 DEF IInv
<1>6. CASE v_bus_subscribe
  <2>1. /\ nsubs = 0 /\ nsubs' = 1 /\ notify' = 0 /\ seen' = pub
        /\ expect' = next_seq /\ cursor' = pipe_wr /\ peeked' = NIL /\ (use.isr => ppc = "idle")
    BY <1>6 DEF v_bus_subscribe, Runs
  <2>2. ppc = "idle"
    BY <2>1 DEF IInv, PlaceInv, TypeInv, StaysSubscribed
  <2>3. TypeInv'
    <3>1. pub \in 0..pub
      BY <1>4
    <3>2. QED
      BY <1>1, <1>2, <2>1, <3>1 DEF IInv, TypeInv, Reading, Resting
  <2>4. PlaceInv'
    BY <1>1, <1>2, <2>1, <2>2 DEF IInv, PlaceInv
  <2>5. ReaderInv'
    <3>1. pub..(pub - 1) = {} /\ pub - pub <= depth /\ ppc \notin Writing \cup {"seq"}
      BY <1>4, <2>2 DEF Writing
    <3>2. QED
      BY <1>2, <2>1, <3>1 DEF ReaderInv
  <2>6. QED
    BY <1>3, <2>3, <2>4, <2>5 DEF IInv
<1>7. QED
  BY <1>5, <1>6

\* A call starts: at the message the reader expects.
LEMMA StartSafe ==
    ASSUME IInv, StartRead
    PROVE  IInv'
<1>1. /\ ConsumerFrame /\ cpc = "idle" /\ cpc' = "load" /\ view' \in BOOLEAN /\ nsubs = 1
      /\ ~parked /\ UNCHANGED <<subVars, wakeVars, seen, missed>>
      /\ rd_' = [rd_ EXCEPT !.r = expect, !.rd = cursor, !.fast = TRUE]
  BY DEF StartRead, ToConsumer, ConsumerFrame, Runs
<1>2. /\ nsubs' = nsubs /\ expect' = expect /\ cursor' = cursor /\ peeked' = peeked
      /\ notify' = notify /\ parked' = parked /\ seen' = seen /\ missed' = missed
  BY <1>1 DEF subVars, wakeVars
<1>3. /\ pub \in Nat /\ seen \in Nat /\ seen <= pub /\ pub' = pub
      /\ expect = Number(seen) /\ cursor = At(seen)
      /\ expect \in 0..(Mod - 1) /\ cursor \in PipeSlot /\ (Overwrite' <=> Overwrite)
  BY <1>1, Counters, Ranges, ConsumerLeaves DEF IInv, PlaceInv
<1>4. rd_' \in Locals /\ rd_'.r = Number(seen) /\ rd_'.rd = At(seen)
  BY <1>1, <1>3 DEF IInv, TypeInv, Locals
<1>5. TypeInv' /\ PlaceInv' /\ RingInv' /\ ReaderInv'
  <2>1. seen \in seen..pub /\ cpc' \in Reading
    BY <1>1, <1>3 DEF Reading
  <2>2. /\ notify \in 0..1 /\ parked \in BOOLEAN /\ peeked \in PipeSlot \cup {NIL}
    BY DEF IInv, TypeInv
  <2>3. QED
    BY <1>1, <1>2, <1>3, <1>4, <2>1, <2>2, ConsumerMoves
<1>6. ReadInv'
  <2>1. PICK s \in Nat : s = seen
    BY <1>3
  <2>2. seen..(s - 1) = {} /\ s \in seen'..pub' /\ 0 \in 0..pub'
    BY <1>2, <1>3, <2>1
  <2>3. ReadAt(s, 0)'
    BY <1>1, <1>2, <1>4, <2>1, <2>2 DEF ReadAt
  <2>4. ~Overwrite' => missed' = 0
    BY <1>2, <1>3 DEF IInv, ReadInv
  <2>5. \E k \in seen'..pub', w \in 0..pub' : ReadAt(k, w)'
    BY <2>2, <2>3
  <2>6. QED
    BY <1>1, <1>2, <2>4, <2>5 DEF ReadInv
<1>7. QED
  BY <1>5, <1>6 DEF IInv

\* A read goes on at message k, next_seq loaded again first.
LEMMA ReadsOn ==
    ASSUME IInv, ConsumerFrame, UNCHANGED <<subVars, wakeVars, seen, missed, view>>,
           cpc # "idle", cpc' = "load", rd_' \in Locals, NEW k \in seen..pub,
           rd_'.r = Number(k), rd_'.rd = At(k), rd_'.fast => k = seen,
           \A i \in seen..(k - 1) : ~Held(i)
    PROVE  IInv'
<1>1. /\ pub' = pub /\ seen' = seen /\ missed' = missed /\ view' = view /\ parked' = parked
      /\ (Overwrite' <=> Overwrite) /\ (\A i : Held(i)' <=> Held(i))
      /\ pub \in Nat /\ view \in BOOLEAN /\ ~parked
  BY ConsumerLeaves, Counters DEF wakeVars, IInv, TypeInv, PlaceInv
<1>2. TypeInv' /\ PlaceInv' /\ RingInv' /\ ReaderInv'
  BY <1>1, ConsumerWalks DEF Reading
<1>3. ReadInv'
  <2>1. ReadAt(k, 0)'
    BY <1>1 DEF ReadAt
  <2>2. k \in seen'..pub' /\ 0 \in 0..pub'
    BY <1>1
  <2>3. \E i \in seen'..pub', w \in 0..pub' : ReadAt(i, w)'
    BY <2>1, <2>2
  <2>4. ~Overwrite' => missed' = 0
    BY <1>1 DEF IInv, ReadInv
  <2>5. QED
    BY <1>1, <2>3, <2>4 DEF ReadInv
<1>4. QED
  BY <1>2, <1>3 DEF IInv

LEMMA LoadSafe ==
    ASSUME IInv, LoadSeq
    PROVE  IInv'
<1>1. /\ ConsumerFrame /\ UNCHANGED <<subVars, wakeVars, seen, missed, view>>
      /\ cpc = "load" /\ cpc' = "check" /\ rd_' = [rd_ EXCEPT !.w = next_seq]
  BY DEF LoadSeq, Do, ToConsumer, ConsumerFrame
<1>2. /\ pub' = pub /\ seen' = seen /\ missed' = missed /\ view' = view /\ parked' = parked
      /\ (Overwrite' <=> Overwrite) /\ (\A i : Held(i)' <=> Held(i))
      /\ pub \in Nat /\ view \in BOOLEAN /\ ~parked /\ next_seq = Number(pub)
      /\ next_seq \in 0..(Mod - 1) /\ seen \in Nat
  BY <1>1, ConsumerLeaves, Counters, Ranges DEF wakeVars, IInv, TypeInv, PlaceInv
<1>3. /\ rd_' \in Locals /\ rd_'.w = Number(pub) /\ rd_'.r = rd_.r /\ rd_'.rd = rd_.rd
      /\ rd_'.fast = rd_.fast
  BY <1>1, <1>2 DEF IInv, TypeInv, Locals
<1>4. TypeInv' /\ PlaceInv' /\ RingInv' /\ ReaderInv'
  BY <1>1, <1>2, <1>3, ConsumerWalks DEF Reading
<1>5. ReadInv'
  <2>1. PICK k \in seen..pub, w \in 0..pub : ReadAt(k, w)
    BY <1>1 DEF IInv, ReadInv, Reading
  <2>2. PICK p \in Nat : p = pub
    BY <1>2
  <2>3. k \in seen'..pub' /\ p \in 0..pub' /\ k <= p
    BY <1>2, <2>2
  <2>4. ReadAt(k, p)'
    BY <1>1, <1>2, <1>3, <2>1, <2>2, <2>3 DEF ReadAt
  <2>5. \E i \in seen'..pub', j \in 0..pub' : ReadAt(i, j)'
    BY <2>3, <2>4
  <2>6. ~Overwrite' => missed' = 0
    BY <1>2 DEF IInv, ReadInv
  <2>7. QED
    BY <1>1, <1>2, <2>5, <2>6 DEF ReadInv
<1>6. QED
  BY <1>4, <1>5 DEF IInv

\* On a drop pipe no unread message was overwritten: a read is where the reader is.
LEMMA DropReadsNext ==
    ASSUME IInv, ~Overwrite, nsubs = 1, NEW k \in seen..(pub - 1),
           \A i \in seen..(k - 1) : ~Held(i)
    PROVE  k = seen
<1>1. pub \in Nat /\ seen \in Nat
  BY Counters DEF IInv
<1>2. \A i \in seen..(pub - 1) : Held(i)
  BY DEF IInv, ReaderInv
<1>3. k > seen => seen \in seen..(k - 1) /\ seen \in seen..(pub - 1)
  BY <1>1
<1>4. k >= seen
  BY <1>1
<1>5. ~(k > seen)
  BY <1>2, <1>3
<1>6. QED
  BY <1>1, <1>4, <1>5

\* Where a read that may jump lands: at a message no further than next_seq was, all
\* before it being overwritten.
LEMMA Landed ==
    ASSUME IInv, NEW k \in seen..pub, NEW w \in 0..pub, k <= w,
           rd_.r = Number(k), rd_.rd = At(k), rd_.w = Number(w),
           \A i \in seen..(k - 1) : ~Held(i)
    PROVE  /\ Behind(rd_.w, rd_.r) = w - k
           /\ \E n \in k..w :
                /\ Jump(rd_) \in Locals
                /\ Jump(rd_) = [rd_ EXCEPT !.r = Number(n), !.rd = At(n)]
                /\ k < w => n < w
                /\ \A i \in seen..(n - 1) : ~Held(i)
<1>1. /\ pub \in Nat /\ seen \in Nat /\ k \in Num /\ w \in Num /\ depth \in Nat /\ depth >= 1
      /\ k \in Nat /\ w \in Nat /\ rd_ \in Locals
  BY Counters DEF IInv, Num, TypeInv
<1>2. Behind(rd_.w, rd_.r) = w - k
  BY <1>1, Lag
<1>3. CASE w - k <= depth
  <2>1. Jump(rd_) = rd_
    BY <1>2, <1>3 DEF Jump
  <2>2. rd_ = [rd_ EXCEPT !.r = Number(k), !.rd = At(k)]
    BY <1>1 DEF Locals
  <2>3. k \in k..w
    BY <1>1
  <2>4. QED
    BY <1>1, <1>2, <2>1, <2>2, <2>3
<1>4. CASE w - k > depth
  <2>1. PICK n \in k..w : n = w - depth
    BY <1>1, <1>4
  <2>2. Number(n) \in 0..(Mod - 1) /\ At(n) \in PipeSlot
    BY <1>1, Ranges
  <2>3. Jump(rd_) = [rd_ EXCEPT !.r = Number(n), !.rd = At(n)]
    <3>1. /\ (Number(w) - depth) % Mod = Number(n)
          /\ (At(k) + ((Number(w) - depth - Number(k)) % Mod)) % depth = At(n)
      BY <1>1, <1>4, <2>1, JumpLands
    <3>2. ~(Behind(rd_.w, rd_.r) <= depth)
      BY <1>1, <1>2, <1>4
    <3>3. QED
      BY <1>1, <3>1, <3>2 DEF Jump, Locals
  <2>4. Jump(rd_) \in Locals
    BY <1>1, <2>2, <2>3 DEF Locals
  <2>5. n < w
    BY <1>1, <2>1
  <2>6. ASSUME NEW i \in seen..(n - 1) PROVE ~Held(i)
    <3>1. CASE i < k
      BY <1>1, <3>1
    <3>2. CASE i >= k
      <4>1. i \in 0..(pub - 1) /\ ~(i >= pub - depth)
        BY <1>1, <2>1, <3>2
      <4>2. QED
        BY <4>1 DEF IInv, RingInv
    <3>3. QED
      BY <1>1, <3>1, <3>2
  <2>7. QED
    BY <1>2, <2>3, <2>4, <2>5, <2>6
<1>5. w - k <= depth \/ w - k > depth
  BY <1>1
<1>6. QED
  BY <1>3, <1>4, <1>5, Zenon

\* The locals after a slot was found overwritten.
LEMMA LostLocals ==
    ASSUME IInv, NEW l \in Locals, NEW n \in seen..pub, l.r = Number(n), l.rd = At(n),
           l.fast => n = seen
    PROVE  /\ Lost(l) \in Locals
           /\ l.fast => Lost(l).r = Number(seen) /\ Lost(l).rd = At(seen)
           /\ ~l.fast => /\ Lost(l).r = Number(n + 1) /\ Lost(l).rd = At(n + 1)
                         /\ ~Lost(l).fast
<1>1. /\ n \in Int /\ seen \in Int /\ expect = Number(seen) /\ cursor = At(seen)
      /\ expect \in 0..(Mod - 1) /\ cursor \in PipeSlot
  BY Counters, Ranges DEF IInv, PlaceInv
<1>2. CASE l.fast
  <2>1. Lost(l) = [l EXCEPT !.fast = FALSE, !.r = expect, !.rd = cursor]
    BY <1>2 DEF Lost
  <2>2. QED
    BY <1>1, <1>2, <2>1 DEF Locals
<1>3. CASE ~l.fast
  <2>1. Lost(l) = [l EXCEPT !.r = (l.r + 1) % Mod, !.rd = NextSlot(l.rd)]
    BY <1>3 DEF Lost
  <2>2. (l.r + 1) % Mod = Number(n + 1) /\ NextSlot(l.rd) = At(n + 1)
    BY <1>1, Successors
  <2>3. Number(n + 1) \in 0..(Mod - 1) /\ At(n + 1) \in PipeSlot
    BY <1>1, Ranges
  <2>4. QED
    BY <1>3, <2>1, <2>2, <2>3 DEF Locals
<1>4. QED
  BY <1>2, <1>3

\* A read that found message n overwritten goes on.
LEMMA LostSafe ==
    ASSUME IInv, ConsumerFrame, UNCHANGED <<subVars, wakeVars, seen, missed, view>>,
           cpc # "idle", cpc' = "load", NEW l \in Locals, rd_' = Lost(l),
           NEW n \in seen..pub, l.r = Number(n), l.rd = At(n), l.fast => n = seen,
           \A i \in seen..(n - 1) : ~Held(i), ~l.fast => n < pub /\ ~Held(n)
    PROVE  IInv'
<1>1. pub \in Nat /\ seen \in Nat /\ seen <= pub /\ n \in Nat /\ seen <= n
  BY Counters DEF IInv
<1>2. /\ rd_' \in Locals
      /\ l.fast => rd_'.r = Number(seen) /\ rd_'.rd = At(seen)
      /\ ~l.fast => /\ rd_'.r = Number(n + 1) /\ rd_'.rd = At(n + 1) /\ ~rd_'.fast
  BY LostLocals
<1>3. CASE l.fast
  <2>1. PICK s \in Nat : s = seen
    BY <1>1
  <2>2. s \in seen..pub /\ seen..(s - 1) = {}
    BY <1>1, <2>1
  <2>3. QED
    BY <1>2, <1>3, <2>1, <2>2, ReadsOn
<1>4. CASE ~l.fast
  <2>1. PICK s \in Nat : s = n + 1
    BY <1>1
  <2>2. s \in seen..pub /\ \A i \in seen..(s - 1) : i \in seen..(n - 1) \/ i = n
    BY <1>1, <1>4, <2>1
  <2>3. \A i \in seen..(s - 1) : ~Held(i)
    BY <1>4, <2>2
  <2>4. QED
    BY <1>2, <1>4, <2>1, <2>2, <2>3, ReadsOn
<1>5. QED
  BY <1>3, <1>4

\* What a turn of the read finds at its message.
LEMMA CheckFinds ==
    ASSUME IInv, CheckSlot
    PROVE  \E n \in seen..pub, w \in 0..pub, l \in Locals :
             /\ n <= w /\ l.r = Number(n) /\ l.rd = At(n) /\ l.fast = rd_.fast
             /\ l.w = Number(w) /\ rd_.w = Number(w)
             /\ l.fast => n = seen
             /\ \A i \in seen..(n - 1) : ~Held(i)
             /\ w < pub => notify = 1 \/ ppc \in Bumped
             /\ \/ /\ rd_' = Lost(l) /\ Do("load") /\ UNCHANGED <<subVars, missed, seen>>
                   /\ ~l.fast => n < w /\ ~Held(n)
                \/ /\ n = w /\ ~l.fast /\ Do("empty") /\ UNCHANGED <<subVars, rd_, missed, seen>>
                \/ /\ n < w /\ Held(n) /\ rd_' = l /\ Do("copy1")
                   /\ IF view
                        THEN /\ peeked' = l.rd /\ cursor' = l.rd /\ expect' = l.r
                             /\ missed' = Behind(l.r, expect) /\ seen' = seen + missed'
                             /\ UNCHANGED nsubs
                        ELSE UNCHANGED <<subVars, missed, seen>>
<1>1. cpc = "check" /\ cpc \in Reading
  BY DEF CheckSlot, Reading
<1>2. PICK k \in seen..pub, w \in 0..pub : ReadAt(k, w)
  BY <1>1 DEF IInv, ReadInv
<1>3. /\ rd_.r = Number(k) /\ rd_.rd = At(k) /\ rd_.w = Number(w) /\ k <= w
      /\ rd_.fast => k = seen
      /\ \A i \in seen..(k - 1) : ~Held(i)
      /\ w < pub => notify = 1 \/ ppc \in Bumped
  BY <1>1, <1>2 DEF ReadAt
<1>4. /\ pub \in Nat /\ seen \in Nat /\ k \in Nat /\ w \in Nat /\ seen <= k /\ w <= pub
      /\ rd_ \in Locals
  BY Counters DEF IInv, TypeInv
<1>5. /\ Behind(rd_.w, rd_.r) = w - k
      /\ \E n \in k..w :
           /\ Jump(rd_) \in Locals
           /\ Jump(rd_) = [rd_ EXCEPT !.r = Number(n), !.rd = At(n)]
           /\ k < w => n < w
           /\ \A i \in seen..(n - 1) : ~Held(i)
  BY <1>3, Landed
<1> DEFINE l == IF rd_.fast THEN rd_ ELSE Jump(rd_)
<1>6. PICK n \in k..w :
        /\ l \in Locals /\ l.r = Number(n) /\ l.rd = At(n) /\ l.fast = rd_.fast
        /\ l.w = Number(w) /\ (l.fast => n = seen) /\ (k < w => n < w)
        /\ \A i \in seen..(n - 1) : ~Held(i)
  <2>1. CASE rd_.fast
    <3>1. k \in k..w
      BY <1>3, <1>4
    <3>2. QED
      BY <1>3, <1>4, <2>1, <3>1
  <2>2. CASE ~rd_.fast
    <3>1. PICK n \in k..w :
           /\ Jump(rd_) \in Locals
           /\ Jump(rd_) = [rd_ EXCEPT !.r = Number(n), !.rd = At(n)]
           /\ k < w => n < w
           /\ \A i \in seen..(n - 1) : ~Held(i)
      BY <1>5
    <3>2. /\ Jump(rd_).r = Number(n) /\ Jump(rd_).rd = At(n) /\ Jump(rd_).fast = rd_.fast
          /\ Jump(rd_).w = Number(w)
      BY <1>3, <1>4, <3>1 DEF Locals
    <3>3. QED
      BY <2>2, <3>1, <3>2
  <2>3. QED
    BY <2>1, <2>2
<1>7. /\ n \in seen..pub /\ n <= w /\ w \in 0..pub /\ (w - k = 0 <=> ~(k < w))
      /\ (~(k < w) => n = w) /\ (w - k = 0 => n = w) /\ (w - k # 0 => n < w)
  BY <1>3, <1>4, <1>6
<1>8. Intact(l.rd, l.r) <=> Held(n)
  BY <1>6 DEF Intact, Held, Mark
<1> HIDE DEF l
<1>9. \/ /\ rd_' = Lost(l) /\ Do("load") /\ UNCHANGED <<subVars, missed, seen>>
         /\ ~l.fast => n < w /\ ~Held(n)
      \/ /\ n = w /\ ~l.fast /\ Do("empty") /\ UNCHANGED <<subVars, rd_, missed, seen>>
      \/ /\ n < w /\ Held(n) /\ rd_' = l /\ Do("copy1")
         /\ IF view
              THEN /\ peeked' = l.rd /\ cursor' = l.rd /\ expect' = l.r
                   /\ missed' = Behind(l.r, expect) /\ seen' = seen + missed'
                   /\ UNCHANGED nsubs
              ELSE UNCHANGED <<subVars, missed, seen>>
  <2> DEFINE lag == Behind(rd_.w, rd_.r)
             lost == IF rd_.fast THEN lag = 0 \/ lag > depth \/ ~Intact(l.rd, l.r)
                                 ELSE lag # 0 /\ ~Intact(l.rd, l.r)
             copied == IF view
                         THEN /\ peeked' = l.rd /\ cursor' = l.rd /\ expect' = l.r
                              /\ missed' = Behind(l.r, expect) /\ seen' = seen + missed'
                              /\ UNCHANGED nsubs
                         ELSE UNCHANGED <<subVars, missed, seen>>
  <2>1. \/ lost /\ rd_' = Lost(l) /\ Do("load") /\ UNCHANGED <<subVars, missed, seen>>
        \/ /\ ~rd_.fast /\ lag = 0 /\ Do("empty") /\ UNCHANGED <<subVars, rd_, missed, seen>>
        \/ ~lost /\ lag # 0 /\ rd_' = l /\ Do("copy1") /\ copied
    BY Zenon DEF CheckSlot, l
  <2> HIDE DEF copied
  <2>2. /\ lag = w - k /\ (lost /\ ~l.fast => n < w /\ ~Held(n))
        /\ (~lost /\ lag # 0 => n < w /\ Held(n)) /\ (lag = 0 => n = w)
    BY <1>5, <1>6, <1>7, <1>8
  <2>3. QED
    <3> HIDE DEF lag, lost
    <3>1. rd_.fast = l.fast
      BY <1>6
    <3>2. QED
      BY <2>1, <2>2, <3>1, Zenon DEF copied
<1>10. QED
  BY <1>3, <1>6, <1>7, <1>9

\* A read is at message n, found whole: it copies, in place when it is a view.
LEMMA FoundSafe ==
    ASSUME IInv, ConsumerFrame, UNCHANGED <<wakeVars, view, nsubs>>, cpc = "check",
           cpc' = "copy1", NEW n \in seen..(pub - 1), NEW w \in 0..pub, n < w,
           rd_' \in Locals, rd_'.r = Number(n), rd_'.rd = At(n), rd_'.w = Number(w),
           rd_'.fast => n = seen,
           \A i \in seen..(n - 1) : ~Held(i),
           w < pub => notify = 1 \/ ppc \in Bumped,
           IF view THEN /\ peeked' = At(n) /\ cursor' = At(n) /\ expect' = Number(n)
                        /\ missed' = n - seen /\ seen' = n
                   ELSE UNCHANGED <<subVars, missed, seen>>
    PROVE  IInv'
<1>1. /\ pub' = pub /\ view' = view /\ parked' = parked /\ notify' = notify /\ ppc' = ppc
      /\ (Overwrite' <=> Overwrite) /\ (\A i : Held(i)' <=> Held(i)) /\ nsubs' = nsubs
      /\ pub \in Nat /\ seen \in Nat /\ view \in BOOLEAN /\ ~parked /\ parked \in BOOLEAN
      /\ notify \in 0..1 /\ nsubs = 1 /\ (~Overwrite => missed = 0)
      /\ peeked \in PipeSlot \cup {NIL} /\ expect = Number(seen) /\ cursor = At(seen)
  BY ConsumerLeaves, Counters DEF wakeVars, IInv, TypeInv, PlaceInv, ReadInv
<1>2. /\ seen' \in seen..pub /\ n \in seen'..pub /\ expect' = Number(seen') /\ cursor' = At(seen')
      /\ peeked' \in PipeSlot \cup {NIL} /\ (view => n = seen' /\ peeked' = At(n))
      /\ (rd_'.fast => n = seen') /\ (\A i \in seen'..(n - 1) : ~Held(i))
      /\ (~view => missed' = missed) /\ (view => missed' = n - seen)
  <2>1. CASE view
    <3>1. At(n) \in PipeSlot /\ n..(n - 1) = {} /\ n \in seen..pub /\ n \in n..pub
      BY <1>1, Ranges
    <3>2. QED
      BY <2>1, <3>1
  <2>2. CASE ~view
    <3>1. seen' = seen /\ expect' = expect /\ cursor' = cursor /\ peeked' = peeked /\ missed' = missed
      BY <2>2 DEF subVars
    <3>2. seen \in seen..pub /\ n \in seen..pub
      BY <1>1
    <3>3. QED
      BY <1>1, <2>2, <3>1, <3>2
  <2>3. QED
    BY <2>1, <2>2
<1>3. TypeInv' /\ PlaceInv' /\ RingInv' /\ ReaderInv'
  BY <1>1, <1>2, ConsumerMoves DEF Reading
<1>4. ReadAt(n, w)'
  BY <1>1, <1>2 DEF ReadAt
<1>5. ~Overwrite' => missed' = 0
  <2>1. ~Overwrite => n = seen
    BY <1>1, DropReadsNext
  <2>2. n = seen => n - seen = 0
    BY <1>1
  <2>3. QED
    BY <1>1, <1>2, <2>1, <2>2
<1>6. \E k \in seen'..pub', v \in 0..pub' : ReadAt(k, v)'
  BY <1>1, <1>2, <1>4
<1>7. ReadInv'
  BY <1>1, <1>5, <1>6 DEF ReadInv
<1>8. QED
  BY <1>3, <1>7 DEF IInv

LEMMA CheckSafe ==
    ASSUME IInv, CheckSlot
    PROVE  IInv'
<1>1. PICK n \in seen..pub, w \in 0..pub, l \in Locals :
        /\ n <= w /\ l.r = Number(n) /\ l.rd = At(n) /\ l.fast = rd_.fast
        /\ l.w = Number(w) /\ rd_.w = Number(w)
        /\ l.fast => n = seen
        /\ \A i \in seen..(n - 1) : ~Held(i)
        /\ w < pub => notify = 1 \/ ppc \in Bumped
        /\ \/ /\ rd_' = Lost(l) /\ Do("load") /\ UNCHANGED <<subVars, missed, seen>>
              /\ ~l.fast => n < w /\ ~Held(n)
           \/ /\ n = w /\ ~l.fast /\ Do("empty") /\ UNCHANGED <<subVars, rd_, missed, seen>>
           \/ /\ n < w /\ Held(n) /\ rd_' = l /\ Do("copy1")
              /\ IF view
                   THEN /\ peeked' = l.rd /\ cursor' = l.rd /\ expect' = l.r
                        /\ missed' = Behind(l.r, expect) /\ seen' = seen + missed'
                        /\ UNCHANGED nsubs
                   ELSE UNCHANGED <<subVars, missed, seen>>
  BY CheckFinds
<1>2. cpc = "check" /\ UNCHANGED wakeVars /\ notify' = notify /\ parked' = parked
  BY DEF CheckSlot, wakeVars
<1>3. /\ pub \in Nat /\ seen \in Nat /\ n \in Nat /\ w \in Nat /\ seen <= n /\ w <= pub
      /\ n \in Num /\ seen \in Num /\ expect = Number(seen) /\ ~parked
  BY <1>2, Counters DEF IInv, Num, PlaceInv
<1>4. CASE /\ rd_' = Lost(l) /\ Do("load") /\ UNCHANGED <<subVars, missed, seen>>
           /\ ~l.fast => n < w /\ ~Held(n)
  <2>1. ConsumerFrame /\ cpc' = "load" /\ UNCHANGED <<subVars, wakeVars, seen, missed, view>>
    BY <1>2, <1>4 DEF Do, ToConsumer, ConsumerFrame
  <2>2. ~l.fast => n < pub /\ ~Held(n)
    BY <1>3, <1>4
  <2>3. QED
    BY <1>1, <1>2, <1>4, <2>1, <2>2, LostSafe
<1>5. CASE n = w /\ ~l.fast /\ Do("empty") /\ UNCHANGED <<subVars, rd_, missed, seen>>
  <2>1. /\ ConsumerFrame /\ cpc' = "empty" /\ UNCHANGED <<subVars, wakeVars, seen>>
        /\ rd_' = rd_ /\ view' = view /\ missed' = missed /\ seen' = seen
    BY <1>2, <1>5 DEF Do, ToConsumer, ConsumerFrame
  <2>2. TypeInv' /\ PlaceInv' /\ RingInv' /\ ReaderInv'
    <3>1. view \in BOOLEAN /\ rd_ \in Locals /\ cpc' \in Resting
      BY <2>1 DEF IInv, TypeInv, Resting
    <3>2. QED
      BY <1>2, <2>1, <3>1, ConsumerWalks
  <2>3. /\ pub' = pub /\ ppc' = ppc /\ (Overwrite' <=> Overwrite) /\ \A i : Held(i)' <=> Held(i)
    BY <2>1, ConsumerLeaves
  <2>4. /\ w \in seen'..pub' /\ rd_'.w = Number(w) /\ (\A i \in seen'..(w - 1) : ~Held(i)')
        /\ w < pub' => notify' = 1 \/ ppc' \in Bumped
    BY <1>1, <1>2, <1>5, <2>1, <2>3
  <2>5. ~Overwrite' => missed' = 0
    BY <2>1, <2>3 DEF IInv, ReadInv
  <2>6. cpc' \notin Reading
    BY <2>1 DEF Reading
  <2>7. ReadInv'
    BY <1>2, <1>3, <2>1, <2>4, <2>5, <2>6 DEF ReadInv
  <2>8. QED
    BY <2>2, <2>7 DEF IInv
<1>6. CASE /\ n < w /\ Held(n) /\ rd_' = l /\ Do("copy1")
           /\ IF view
                THEN /\ peeked' = l.rd /\ cursor' = l.rd /\ expect' = l.r
                     /\ missed' = Behind(l.r, expect) /\ seen' = seen + missed'
                     /\ UNCHANGED nsubs
                ELSE UNCHANGED <<subVars, missed, seen>>
  <2>1. ConsumerFrame /\ cpc' = "copy1" /\ UNCHANGED view
    BY <1>6 DEF Do, ToConsumer, ConsumerFrame
  <2>2. n \in seen..(pub - 1)
    BY <1>3, <1>6
  <2>3. Behind(l.r, expect) = n - seen /\ seen + (n - seen) = n
    BY <1>1, <1>3, Lag
  <2>4. IF view THEN /\ peeked' = At(n) /\ cursor' = At(n) /\ expect' = Number(n)
                     /\ missed' = n - seen /\ seen' = n
                ELSE UNCHANGED <<subVars, missed, seen>>
    BY <1>1, <1>6, <2>3, Zenon
  <2>5. UNCHANGED <<wakeVars, view, nsubs>>
    BY <1>2, <1>6, <2>1 DEF subVars
  <2>6. rd_' \in Locals /\ rd_'.r = Number(n) /\ rd_'.rd = At(n) /\ rd_'.w = Number(w)
        /\ (rd_'.fast => n = seen)
    BY <1>1, <1>6
  <2>7. QED
    BY <1>1, <1>2, <1>6, <2>1, <2>2, <2>4, <2>5, <2>6, FoundSafe
<1>7. QED
  BY <1>1, <1>4, <1>5, <1>6

LEMMA CopyOutSafe ==
    ASSUME IInv, CopyOut
    PROVE  IInv'
<1> DEFINE i == IF cpc = "copy1" THEN 1 ELSE 2
<1>1. /\ ConsumerFrame /\ UNCHANGED <<subVars, wakeVars, seen>> /\ view' = view
      /\ missed' = missed /\ seen' = seen /\ notify' = notify /\ parked' = parked
      /\ peeked' = peeked
      /\ cpc \in {"copy1", "copy2"} /\ cpc' = (IF cpc = "copy1" THEN "copy2" ELSE "recheck")
      /\ rd_' = [rd_ EXCEPT !.copy[i] = payload[rd_.rd][i]]
  BY DEF CopyOut, Do, ToConsumer, ConsumerFrame, subVars, wakeVars
<1>2. /\ pub' = pub /\ ppc' = ppc /\ (Overwrite' <=> Overwrite) /\ (\A j : Held(j)' <=> Held(j))
      /\ pub \in Nat /\ seen \in Nat /\ view \in BOOLEAN /\ ~parked /\ nsubs = 1
      /\ cpc \in Reading /\ cpc' \in Reading /\ cpc # "idle" /\ cpc # "load" /\ i \in Word
      /\ rd_ \in Locals /\ payload \in [PipeSlot -> [Word -> Num]]
  BY <1>1, ConsumerLeaves, Counters DEF IInv, TypeInv, PlaceInv, Reading, Word
<1>3. /\ rd_' \in Locals /\ rd_'.r = rd_.r /\ rd_'.rd = rd_.rd /\ rd_'.w = rd_.w
      /\ rd_'.fast = rd_.fast /\ rd_'.copy = [rd_.copy EXCEPT ![i] = payload[rd_.rd][i]]
      /\ rd_.copy \in [Word -> Num]
  BY <1>1, <1>2 DEF Locals
<1>4. TypeInv' /\ PlaceInv' /\ RingInv' /\ ReaderInv'
  BY <1>1, <1>2, <1>3, ConsumerWalks
<1>5. PICK k \in seen..pub, w \in 0..pub : ReadAt(k, w)
  BY <1>2 DEF IInv, ReadInv
<1>6. k < w /\ k \in seen..(pub - 1) /\ rd_.rd = At(k)
  BY <1>1, <1>2, <1>5 DEF ReadAt
<1>7. Held(k) => payload[At(k)] = Whole(k)
  BY <1>2, <1>6 DEF IInv, ReaderInv
<1>8. ReadAt(k, w)'
  <2>1. cpc' = "copy2" /\ Held(k) => rd_'.copy[1] = k
    BY <1>1, <1>3, <1>6, <1>7 DEF Whole, Word
  <2>2. cpc' = "recheck" /\ Held(k) => rd_'.copy = Whole(k)
    <3> SUFFICES ASSUME cpc' = "recheck", Held(k) PROVE rd_'.copy = Whole(k)
      OBVIOUS
    <3>1. cpc = "copy2" /\ i = 2 /\ rd_.copy[1] = k
      BY <1>1, <1>5 DEF ReadAt
    <3>2. QED
      BY <1>3, <1>6, <1>7, <3>1 DEF Whole, Word
  <2>3. QED
    BY <1>1, <1>2, <1>3, <1>5, <2>1, <2>2 DEF ReadAt, Whole
<1>9. ReadInv'
  <2>1. \E j \in seen'..pub', v \in 0..pub' : ReadAt(j, v)'
    BY <1>1, <1>2, <1>8
  <2>2. ~Overwrite' => missed' = 0
    BY <1>1, <1>2 DEF IInv, ReadInv
  <2>3. cpc' \notin Resting
    BY <1>1 DEF Resting
  <2>4. QED
    BY <1>1, <1>2, <2>1, <2>2, <2>3 DEF ReadInv, Resting
<1>10. QED
  BY <1>4, <1>9 DEF IInv

\* A read answers with message k, whole, and the reader passes it.
LEMMA AnsweredSafe ==
    ASSUME IInv, ConsumerFrame, UNCHANGED wakeVars, cpc = "recheck", nsubs' = nsubs,
           NEW k \in seen..(pub - 1), \A i \in seen..(k - 1) : ~Held(i),
           peeked' \in PipeSlot \cup {NIL}, view' \in BOOLEAN, rd_' \in Locals,
           seen' = k + 1, expect' = Number(k + 1), cursor' = At(k + 1),
           missed' = k - seen \/ missed' = missed,
           \/ cpc' = "got" /\ rd_'.copy = Whole(k)
           \/ cpc' = "stale" /\ ~Held(k)
    PROVE  IInv'
<1>1. /\ pub' = pub /\ parked' = parked /\ notify' = notify
      /\ (Overwrite' <=> Overwrite) /\ (\A i : Held(i)' <=> Held(i))
      /\ pub \in Nat /\ seen \in Nat /\ ~parked /\ parked \in BOOLEAN
      /\ notify \in 0..1 /\ nsubs = 1 /\ (~Overwrite => missed = 0)
  BY ConsumerLeaves, Counters DEF wakeVars, IInv, TypeInv, PlaceInv, ReadInv
<1>2. seen' \in seen..pub /\ seen' - 1 = k /\ expect' = Number(seen') /\ cursor' = At(seen')
  BY <1>1
<1>3. TypeInv' /\ PlaceInv' /\ RingInv' /\ ReaderInv'
  BY <1>1, <1>2, ConsumerMoves DEF Resting
<1>4. ~Overwrite => k = seen /\ Held(k) /\ k - seen = 0
  <2>1. ~Overwrite => k = seen
    BY <1>1, DropReadsNext
  <2>2. ~Overwrite => Held(k)
    BY <1>1 DEF IInv, ReaderInv
  <2>3. k = seen => k - seen = 0
    BY <1>1
  <2>4. QED
    BY <2>1, <2>2, <2>3
<1>5. cpc' \notin Reading \cup {"empty", "ready", "sleep"}
  BY DEF Reading
<1>6. ReadInv'
  BY <1>1, <1>2, <1>4, <1>5 DEF ReadInv, Whole
<1>7. QED
  BY <1>3, <1>6 DEF IInv

LEMMA AnswerSafe ==
    ASSUME IInv, CheckAgain \/ v_bus_release
    PROVE  IInv'
<1>1. cpc = "recheck" /\ cpc \in Reading /\ UNCHANGED wakeVars
  BY DEF CheckAgain, v_bus_release, Reading
<1>2. PICK k \in seen..pub, w \in 0..pub : ReadAt(k, w)
  BY <1>1 DEF IInv, ReadInv
<1>3. /\ rd_.r = Number(k) /\ rd_.rd = At(k) /\ (rd_.fast => k = seen) /\ k < w
      /\ \A i \in seen..(k - 1) : ~Held(i)
      /\ view => k = seen /\ peeked = At(k)
      /\ Held(k) => rd_.copy = Whole(k)
  BY <1>1, <1>2 DEF ReadAt
<1>4. /\ pub \in Nat /\ seen \in Nat /\ k \in Int /\ k \in Num /\ seen \in Num /\ seen <= k
      /\ k < pub /\ k \in seen..(pub - 1) /\ expect = Number(seen) /\ rd_ \in Locals
      /\ view \in BOOLEAN /\ peeked \in PipeSlot \cup {NIL}
  BY <1>3, Counters DEF IInv, Num, TypeInv, PlaceInv
<1>5. /\ (Number(k) + 1) % Mod = Number(k + 1) /\ NextSlot(At(k)) = At(k + 1)
  BY <1>4, Successors
<1>6. Intact(At(k), Number(k)) <=> Held(k)
  BY DEF Intact, Held, Mark
<1>7. CASE CheckAgain
  <2>1. CASE Intact(rd_.rd, rd_.r) /\ Take
    <3>1. /\ expect' = Number(k + 1) /\ cursor' = At(k + 1) /\ nsubs' = nsubs /\ peeked' = peeked
          /\ rd_' = rd_ /\ view' = view /\ cpc' = "got" /\ ConsumerFrame
          /\ missed' = Behind(rd_.r, expect) /\ seen' = seen + missed' + 1
      BY <1>3, <1>5, <2>1 DEF Take, Do, ToConsumer, ConsumerFrame
    <3>2. missed' = k - seen
      BY <1>3, <1>4, <3>1, Lag
    <3>3. seen' = k + 1
      BY <1>4, <3>1, <3>2
    <3>4. rd_'.copy = Whole(k)
      BY <1>3, <1>6, <2>1, <3>1
    <3>5. QED
      BY <1>1, <1>3, <1>4, <3>1, <3>2, <3>3, <3>4, AnsweredSafe
  <2>2. CASE /\ ~Intact(rd_.rd, rd_.r) /\ rd_' = Lost(rd_) /\ Do("load")
             /\ UNCHANGED <<subVars, missed, seen>>
    <3>1. ConsumerFrame /\ cpc' = "load" /\ UNCHANGED <<subVars, wakeVars, seen, missed, view>>
      BY <1>1, <2>2 DEF Do, ToConsumer, ConsumerFrame
    <3>2. ~rd_.fast => k < pub /\ ~Held(k)
      BY <1>3, <1>4, <1>6, <2>2
    <3>3. QED
      BY <1>1, <1>3, <1>4, <2>2, <3>1, <3>2, LostSafe
  <2>3. QED
    BY <1>7, <2>1, <2>2 DEF CheckAgain
<1>8. CASE v_bus_release
  <2>1. /\ peeked' = NIL /\ expect' = (expect + 1) % Mod /\ cursor' = NextSlot(peeked)
        /\ seen' = seen + 1 /\ nsubs' = nsubs /\ rd_' = rd_ /\ view' = view /\ missed' = missed
        /\ cpc' = (IF Intact(peeked, expect) THEN "got" ELSE "stale") /\ ConsumerFrame /\ view
    BY <1>8 DEF v_bus_release, Do, ToConsumer, ConsumerFrame
  <2>2. k = seen /\ peeked = At(k) /\ expect = Number(k)
    BY <1>3, <1>4, <2>1
  <2>3. expect' = Number(k + 1) /\ cursor' = At(k + 1) /\ seen' = k + 1
    BY <1>5, <2>1, <2>2
  <2>4. \/ cpc' = "got" /\ rd_'.copy = Whole(k)
        \/ cpc' = "stale" /\ ~Held(k)
    BY <1>3, <1>6, <2>1, <2>2
  <2>5. peeked' \in PipeSlot \cup {NIL}
    BY <2>1
  <2>6. QED
    BY <1>1, <1>3, <1>4, <2>1, <2>3, <2>4, <2>5, AnsweredSafe
<1>9. QED
  BY <1>7, <1>8

\* A call ends with no message, or the reader stops waiting.
LEMMA ReturnSafe ==
    ASSUME IInv, TooBig \/ Return
    PROVE  IInv'
<1>1. /\ ConsumerFrame /\ UNCHANGED <<subVars, wakeVars, seen>> /\ cpc # "idle" /\ cpc' = "idle"
      /\ view' = view /\ rd_' = rd_ /\ UNCHANGED missed /\ ~parked'
  BY DEF TooBig, Return, Do, ToConsumer, ConsumerFrame, Runs, wakeVars
<1>2. view' \in BOOLEAN /\ rd_' \in Locals /\ cpc' \in Resting
  BY <1>1 DEF IInv, TypeInv, Resting
<1>3. QED
  BY <1>1, <1>2, ConsumerWalks, AtRest DEF IInv

LEMMA TimeoutSafe ==
    ASSUME IInv, Timeout
    PROVE  IInv'
<1>1. /\ ConsumerFrame /\ parked /\ ~parked' /\ cpc' = "idle" /\ UNCHANGED missed
      /\ nsubs' = nsubs /\ expect' = expect /\ cursor' = cursor /\ peeked' = peeked
      /\ seen' = seen /\ notify' = notify /\ view' = view /\ rd_' = rd_ /\ parked' \in BOOLEAN
  BY DEF Timeout, Do, ToConsumer, ConsumerFrame, subVars
<1>2. /\ nsubs = 1 /\ expect = Number(seen) /\ cursor = At(seen) /\ seen \in seen..pub
      /\ peeked \in PipeSlot \cup {NIL} /\ view \in BOOLEAN /\ rd_ \in Locals /\ notify \in 0..1
  BY <1>1, Counters DEF IInv, PlaceInv, TypeInv
<1>3. TypeInv' /\ PlaceInv' /\ RingInv' /\ ReaderInv'
  BY <1>1, <1>2, ConsumerMoves DEF Resting
<1>4. QED
  BY <1>1, <1>3, AtRest DEF IInv

\* A reader found its ring empty: what came since it knows of, or there is nothing.
LEMMA WaitSafe ==
    ASSUME IInv, v_bus_wait \/ sub_ready
    PROVE  IInv'
<1>1. /\ ConsumerFrame /\ UNCHANGED <<subVars, wakeVars, seen>> /\ cpc \in {"empty", "ready"}
      /\ cpc' \in {"ready", "sleep", "idle"} /\ (cpc = "empty" => cpc' = "ready")
      /\ view' = view /\ missed' = missed /\ seen' = seen /\ notify' = notify
      /\ ~parked /\ parked' = parked /\ cpc # "idle"
      /\ (rd_' = [rd_ EXCEPT !.w = next_seq] \/ rd_' = rd_)
  BY DEF v_bus_wait, sub_ready, Do, ToConsumer, ConsumerFrame, Runs, wakeVars
<1>2. /\ pub' = pub /\ ppc' = ppc /\ (Overwrite' <=> Overwrite) /\ (\A i : Held(i)' <=> Held(i))
      /\ pub \in Nat /\ seen \in Nat /\ view \in BOOLEAN /\ rd_ \in Locals
      /\ next_seq \in 0..(Mod - 1)
  BY <1>1, ConsumerLeaves, Counters, Ranges DEF IInv, TypeInv, PlaceInv
<1>3. rd_' \in Locals
  BY <1>1, <1>2 DEF Locals
<1>4. TypeInv' /\ PlaceInv' /\ RingInv' /\ ReaderInv'
  BY <1>1, <1>2, <1>3, ConsumerWalks DEF Reading, Resting
<1>5. notify = 1 \/ Quiet
  <2>1. CASE cpc = "empty"
    <3>1. PICK w \in seen..pub :
            /\ rd_.w = Number(w) /\ \A i \in seen..(w - 1) : ~Held(i)
            /\ w < pub => notify = 1 \/ ppc \in Bumped
      BY <2>1 DEF IInv, ReadInv
    <3>2. w < pub \/ w = pub
      BY <1>2
    <3>3. QED
      BY <3>1, <3>2 DEF Quiet
  <2>2. CASE cpc = "ready"
    BY <2>2 DEF IInv, ReadInv
  <2>3. QED
    BY <1>1, <2>1, <2>2
<1>6. notify' = 1 \/ Quiet'
  BY <1>1, <1>2, <1>5 DEF Quiet
<1>7. ~Overwrite' => missed' = 0
  BY <1>1, <1>2 DEF IInv, ReadInv
<1>8. cpc' \notin Reading \cup {"got", "empty", "stale"}
  BY <1>1 DEF Reading
<1>9. ReadInv'
  BY <1>1, <1>6, <1>7, <1>8 DEF ReadInv
<1>10. QED
  BY <1>4, <1>9 DEF IInv

LEMMA SleepSafe ==
    ASSUME IInv, v_semaphore_take
    PROVE  IInv'
<1>1. /\ ConsumerFrame /\ cpc = "sleep" /\ cpc' = "idle" /\ UNCHANGED missed
      /\ nsubs' = nsubs /\ expect' = expect /\ cursor' = cursor /\ peeked' = peeked
      /\ seen' = seen /\ view' = view /\ rd_' = rd_ /\ missed' = missed
      /\ notify' = 0 /\ parked' = (notify = 0)
  BY DEF v_semaphore_take, Do, ToConsumer, ConsumerFrame, subVars
<1>2. /\ nsubs = 1 /\ expect = Number(seen) /\ cursor = At(seen) /\ seen \in seen..pub
      /\ peeked \in PipeSlot \cup {NIL} /\ view \in BOOLEAN /\ rd_ \in Locals
      /\ pub' = pub /\ ppc' = ppc /\ (Overwrite' <=> Overwrite) /\ (\A i : Held(i)' <=> Held(i))
  BY <1>1, ConsumerLeaves, Counters DEF IInv, PlaceInv, TypeInv
<1>3. TypeInv' /\ PlaceInv' /\ RingInv' /\ ReaderInv'
  <2>1. notify' \in 0..1 /\ parked' \in BOOLEAN /\ cpc' \in Resting
    BY <1>1 DEF Resting
  <2>2. QED
    BY <1>1, <1>2, <2>1, ConsumerMoves
<1>4. parked' => Quiet'
  <2>1. notify = 1 \/ Quiet
    BY <1>1 DEF IInv, ReadInv
  <2>2. parked' => notify = 0
    BY <1>1
  <2>3. parked' => Quiet
    BY <2>1, <2>2
  <2>4. Quiet => Quiet'
    BY <1>1, <1>2 DEF Quiet
  <2>5. QED
    BY <2>3, <2>4
<1>5. ~Overwrite' => missed' = 0
  BY <1>1, <1>2 DEF IInv, ReadInv
<1>6. cpc' \notin Reading \cup {"got", "empty", "stale", "ready", "sleep"}
  BY <1>1 DEF Reading
<1>7. ReadInv'
  BY <1>4, <1>5, <1>6 DEF ReadInv
<1>8. QED
  BY <1>3, <1>7 DEF IInv

LEMMA ConsumerSafe ==
    ASSUME StaysSubscribed, IInv, Consumer
    PROVE  IInv'
BY SubscriptionSafe, StartSafe, LoadSafe, CheckSafe, CopyOutSafe, ReturnSafe, AnswerSafe,
   WaitSafe, SleepSafe, TimeoutSafe
DEF Consumer
-------------------------------------------------------------------------------
(* What the invariant says *)

LEMMA PipeStarts ==
    ASSUME PipeInit
    PROVE  IInv
<1>1. /\ Mod \in Nat \ {0} /\ depth \in Nat \ {0} /\ FirstSeq \in 0..(Mod - 1)
      /\ MaxMessages \in Nat /\ 1 \in 0..(Mod - 1) /\ 0 \in PipeSlot /\ 0 \in Num
  BY PipeAssumption DEF PipeSlot, Num
<1>2. Number(0) = FirstSeq /\ At(0) = 0
  <2>1. FirstSeq + 0 = FirstSeq /\ 0 \in 0..(depth - 1)
    BY <1>1
  <2>2. QED
    BY <1>1, <2>1, ModSmall DEF Number, At
<1>3. TypeInv
  <2>1. [i \in Word |-> 0] \in [Word -> Num]
    BY <1>1
  <2>2. /\ stamp \in [PipeSlot -> 0..(Mod - 1)] /\ payload \in [PipeSlot -> [Word -> Num]]
        /\ rd_ \in Locals
    BY <1>1, <2>1 DEF PipeInit, Locals
  <2>3. use \in Uses /\ ticket \in BOOLEAN /\ view \in BOOLEAN /\ parked \in BOOLEAN
    BY DEF PipeInit
  <2>4. /\ ppc \in Writing \cup Bumped \cup {"idle", "claim", "seq"}
        /\ cpc \in Reading \cup Resting
    BY DEF PipeInit, Resting
  <2>5. nsubs \in 0..1 /\ notify \in 0..1 /\ pub \in Num /\ seen \in 0..pub
    BY <1>1 DEF PipeInit
  <2>6. peeked \in PipeSlot \cup {NIL}
    BY DEF PipeInit
  <2>7. QED
    BY <2>2, <2>3, <2>4, <2>5, <2>6 DEF TypeInv
<1>4. PlaceInv
  BY <1>1, <1>2 DEF PipeInit, PlaceInv, Writing
<1>5. 0..(0 - 1) = {} /\ 0 - 0 <= depth
  BY <1>1
<1>6. RingInv
  BY <1>5 DEF PipeInit, RingInv, Writing
<1>7. ReaderInv
  BY <1>5 DEF PipeInit, ReaderInv, Writing
<1>8. ReadInv
  BY DEF PipeInit, ReadInv, Reading
<1>9. QED
  BY <1>3, <1>4, <1>6, <1>7, <1>8 DEF IInv

LEMMA PipeStutters ==
    ASSUME IInv, UNCHANGED pipe_vars
    PROVE  IInv'
<1>1. /\ stamp' = stamp /\ payload' = payload /\ pub' = pub /\ seen' = seen /\ nsubs' = nsubs
      /\ next_seq' = next_seq /\ pipe_wr' = pipe_wr /\ notify' = notify /\ parked' = parked
      /\ use' = use /\ expect' = expect /\ cursor' = cursor /\ peeked' = peeked
      /\ cpc' = cpc /\ view' = view /\ rd_' = rd_ /\ missed' = missed /\ ppc' = ppc
      /\ ticket' = ticket
  BY DEF pipe_vars, topicVars, subVars, wakeVars
<1>2. (\A k : Held(k)' <=> Held(k)) /\ (Overwrite' <=> Overwrite)
  BY <1>1 DEF Held, Overwrite
<1>3. TypeInv'
  BY <1>1 DEF IInv, TypeInv
<1>4. PlaceInv'
  BY <1>1 DEF IInv, PlaceInv
<1>5. RingInv'
  BY <1>1, <1>2 DEF IInv, RingInv, Whole
<1>6. ReaderInv'
  BY <1>1, <1>2 DEF IInv, ReaderInv, Whole
<1>7. ReadInv'
  <2>1. \A k \in 0..(pub - 1) : Held(k)' => Held(k)
    BY <1>2
  <2>2. ProducerFrame
    BY <1>1 DEF ProducerFrame, subVars
  <2>3. QED
    BY <1>1, <2>1, <2>2, ReadUndisturbed
<1>8. QED
  BY <1>3, <1>4, <1>5, <1>6, <1>7 DEF IInv

\* What Readable looks for is an unread message still held.
LEMMA ReadableHeld ==
    ASSUME IInv, Readable
    PROVE  \E k \in seen..(pub - 1) : Held(k)
<1>1. /\ pub \in Nat /\ seen \in Nat /\ seen <= pub /\ expect = Number(seen) /\ cursor = At(seen)
      /\ depth \in Nat \ {0} /\ Mod \in Nat \ {0} /\ FirstSeq \in Int
  BY Counters, Sizes DEF IInv, PlaceInv
<1>2. Behind(next_seq, expect) = pub - seen
  BY Counters, Lag DEF IInv, PlaceInv
<1>3. PICK j \in 0..(Behind(next_seq, expect) - 1) :
        Intact((cursor + j) % depth, (expect + j) % Mod)
  BY DEF Readable
<1>4. j \in Int /\ seen + j \in seen..(pub - 1) /\ seen + j \in Int /\ FirstSeq + seen \in Int
      /\ seen \in Int
  BY <1>1, <1>2, <1>3
<1>5. ((seen % depth) + j) % depth = (seen + j) % depth
  BY <1>1, <1>4, ModAdd, Zenon
<1>6. (((FirstSeq + seen) % Mod) + j) % Mod = ((FirstSeq + seen) + j) % Mod
  BY <1>1, <1>4, ModAdd, Zenon
<1>7. (FirstSeq + seen) + j = FirstSeq + (seen + j)
  BY <1>1, <1>4
<1>8. Held(seen + j)
  BY <1>1, <1>3, <1>5, <1>6, <1>7 DEF Held, Intact, Mark, Number, At
<1>9. QED
  BY <1>4, <1>8

LEMMA PipeMeans ==
    ASSUME IInv
    PROVE  PipeSound
<1>1. /\ pub \in Nat /\ seen \in Nat /\ seen <= pub /\ pub \in Num /\ seen \in Num
      /\ pub \in Int /\ seen \in Int /\ depth \in Nat \ {0} /\ depth >= 1
      /\ next_seq = Number(pub) /\ expect = Number(seen) /\ cursor = At(seen)
  BY Counters, Sizes DEF IInv, PlaceInv
<1>2. Behind(next_seq, expect) = pub - seen
  BY <1>1, Lag
<1>3. PipeTypeOK
  <2>1. /\ Number(pub) \in 0..(Mod - 1) /\ Number(seen) \in 0..(Mod - 1) /\ At(seen) \in PipeSlot
        /\ At(pub) \in PipeSlot /\ pub - 1 \in Int /\ At(pub - 1) \in PipeSlot
    BY <1>1, Ranges
  <2>2. pipe_wr \in PipeSlot
    BY <2>1 DEF IInv, PlaceInv
  <2>3. nsubs = 1 /\ ~Overwrite => Behind(next_seq, expect) <= depth
    BY <1>2 DEF IInv, ReaderInv
  <2>4. QED
    BY <1>1, <2>1, <2>2, <2>3 DEF PipeTypeOK, IInv, TypeInv
<1>4. SlotReadExact
  BY DEF SlotReadExact, IInv, ReadInv, Whole
<1>5. DropLosesNothing
  BY DEF DropLosesNothing, IInv, ReadInv
<1>6. ReaderAligned
  <2> SUFFICES ASSUME ppc = "idle" PROVE cursor = (pipe_wr - (pub - seen)) % depth
    BY <1>2 DEF ReaderAligned
  <2>1. pipe_wr = At(pub)
    BY DEF IInv, PlaceInv
  <2>2. -(pub - seen) \in Int
    BY <1>1
  <2>3. ((pub % depth) + (-(pub - seen))) % depth = (pub + (-(pub - seen))) % depth
    BY <1>1, <2>2, ModAdd, Zenon
  <2>4. pub + (-(pub - seen)) = seen
    BY <1>1
  <2>5. At(pub) \in Int /\ At(pub) - (pub - seen) = At(pub) + (-(pub - seen))
    BY <1>1, Ranges DEF PipeSlot
  <2>6. QED
    BY <1>1, <2>1, <2>3, <2>4, <2>5 DEF At
<1>7. NoLostNotify
  <2> SUFFICES ASSUME parked, next_seq # expect, depth = 1 => Readable
               PROVE  ppc \in Bumped
    BY DEF NoLostNotify, Bumped
  <2>1. Quiet
    BY DEF IInv, ReadInv
  <2>2. \E k \in seen..(pub - 1) : Held(k)
    <3>1. CASE depth = 1
      BY <3>1, ReadableHeld
    <3>2. CASE depth > 1
      <4>1. seen < pub
        BY <1>1
      <4>2. pub - 1 \in seen..(pub - 1) /\ pub - 1 \in 0..(pub - 1) /\ pub - 1 > pub - depth
        BY <1>1, <3>2, <4>1
      <4>3. Held(pub - 1)
        BY <4>2 DEF IInv, RingInv
      <4>4. QED
        BY <4>2, <4>3
    <3>3. QED
      BY <1>1, <3>1, <3>2
  <2>3. QED
    BY <2>1, <2>2 DEF Quiet
<1>8. EmptyIsEmpty
  <2> SUFFICES ASSUME cpc = "empty", rd_.w = next_seq PROVE ~Readable
    BY DEF EmptyIsEmpty
  <2>1. PICK w \in seen..pub : rd_.w = Number(w) /\ \A i \in seen..(w - 1) : ~Held(i)
    BY DEF IInv, ReadInv
  <2>2. w \in Num
    BY <1>1, Counters DEF IInv, Num
  <2>3. w = pub
    BY <1>1, <2>1, <2>2, NumbersApart
  <2>4. QED
    BY <2>1, <2>3, ReadableHeld
<1>9. QED
  BY <1>3, <1>4, <1>5, <1>6, <1>7, <1>8 DEF PipeSound

\* A pipe topic of any depth delivers whole messages, in order and across the wrap of the
\* sequence numbers, counts what it overwrote, loses nothing when it does not overwrite,
\* and never lets its reader sleep or report empty with a message waiting, whatever the
\* interleaving of pipe_claim, pipe_publish and notify_sub with pipe_next, pipe_read and
\* v_bus_wait: if only an interrupt's reader may unsubscribe and come back.
THEOREM PipeSafe ==
    ASSUME StaysSubscribed
    PROVE  PipeSpec => []PipeSound
<1>1. PipeInit => IInv
  BY PipeStarts
<1>2. IInv /\ [PipeNext]_pipe_vars => IInv'
  <2> SUFFICES ASSUME IInv, [PipeNext]_pipe_vars PROVE IInv'
    OBVIOUS
  <2>1. CASE Producer
    BY <2>1, ProducerSafe
  <2>2. CASE Consumer
    BY <2>2, ConsumerSafe
  <2>3. CASE UNCHANGED pipe_vars
    BY <2>3, PipeStutters
  <2>4. QED
    BY <2>1, <2>2, <2>3 DEF PipeNext
<1>3. IInv => PipeSound
  BY PipeMeans
<1>4. QED
  BY <1>1, <1>2, <1>3, PTL DEF PipeSpec
------------------------------------------------------------------------------
(* The callback worker, the handles and the snapshotter *)

\* Callbacks come and go while the worker rests, and a recording is given messages that fit
\* its buffer.
Orderly == CbBounds /\ ~SetupRaces /\ SnapSizes \subseteq {"fits"}

Size == {"fits", "wide"}
Subscription == [joined : BOOLEAN, armed : BOOLEAN, unread : Seq(Size), lost : Nat]
AllFit(q) == \A k \in 1..Len(q) : q[k] = "fits"

CbType ==
    /\ sub \in [Reader -> Subscription]
    /\ bus_cb_sem \in {0, 1}
    /\ cb_slot \in [Callback -> [used : BOOLEAN, cb : BOOLEAN]]
    /\ worker \in [pc : {"idle", "asleep", "walk", "call"}, at : Callback]
    /\ setup \in [pc : {"none", "arm", "use", "drop"}, at : Callback]
    /\ handle \in [BusHandle -> [used : BOOLEAN, rd : BOOLEAN, fd : BOOLEAN, sem : {0, 1},
                                 waits : BOOLEAN]]
    /\ snap \in [on : BOOLEAN, written : Nat, failed : Nat, missed : Nat, offered : Nat]

\* A callback is set up or dropped while the worker rests, and gets no message meanwhile.
SetupOk ==
    /\ setup # NoSetup => worker.pc \in {"idle", "asleep"}
    /\ setup.pc = "none" => setup = NoSetup
    /\ setup.pc \in {"arm", "use"} =>
         /\ sub[setup.at].joined /\ sub[setup.at].unread = <<>>
         /\ cb_slot[setup.at].cb /\ ~cb_slot[setup.at].used
    /\ setup.pc = "use" => sub[setup.at].armed
    /\ setup.pc = "drop" => sub[setup.at] = NoSub

\* The worker is on its way to slot i, or has a signal to make it walk again.
Coming(i) ==
    \/ worker.pc # "asleep" /\ bus_cb_sem = 1
    \/ worker.pc \in {"walk", "call"} /\ worker.at <= i

\* A used slot has its callback and its signal, and what it can be handed brings the worker.
CallbackOk(i) ==
    /\ cb_slot[i].used => cb_slot[i].cb
    /\ cb_slot[i].used => (sub[i].joined /\ sub[i].armed) \/ setup = [pc |-> "drop", at |-> i]
    /\ cb_slot[i].used /\ Poppable(i) => Coming(i)
    /\ worker.pc = "call" /\ worker.at = i => cb_slot[i].cb

\* A handle reads through an armed subscription, its own from open to close.
HandleOk(h) ==
    /\ sub[h].joined <=> handle[h].used /\ handle[h].rd /\ sub[h].armed
    /\ sub[h].armed => sub[h].joined
    /\ handle[h].fd => handle[h].used
    /\ handle[h].fd /\ handle[h].rd => sub[h].joined
    /\ handle[h].waits => handle[h].fd /\ handle[h].rd /\ sub[h].unread = <<>>

\* A recording's counts add up, and everything it is given can be taken.
SnapOk ==
    /\ snap.on => sub[Snap].joined /\ AllFit(sub[Snap].unread)
    /\ SnapAccounts
    /\ ~snap.on /\ snap.offered = 0 => snap.written + snap.failed + snap.missed = 0

CbInv ==
    /\ CbType /\ SetupOk /\ SnapOk
    /\ (\A i \in Callback : CallbackOk(i)) /\ (\A h \in BusHandle : HandleOk(h))

\* A publish adds one message to what a subscription has had, whether another makes room or not.
LEMMA OfferedMeans ==
    ASSUME Orderly, NEW s \in Subscription, NEW size \in Size
    PROVE  /\ Offered(s, size) \in Subscription
           /\ Offered(s, size).joined = s.joined /\ Offered(s, size).armed = s.armed
           /\ ~s.joined => Offered(s, size) = s
           /\ s.joined => Offered(s, size).lost + Len(Offered(s, size).unread)
                            = s.lost + Len(s.unread) + 1
           /\ AllFit(s.unread) /\ size = "fits" => AllFit(Offered(s, size).unread)
<1> DEFINE q == s.unread
<1>1. /\ s.joined \in BOOLEAN /\ s.armed \in BOOLEAN /\ q \in Seq(Size) /\ s.lost \in Nat
      /\ s = [joined |-> s.joined, armed |-> s.armed, unread |-> q, lost |-> s.lost]
  BY DEF Subscription
<1>2. CASE ~s.joined
  BY <1>2 DEF Offered
<1>3. CASE s.joined /\ Len(q) # Depth
  <2>1. Offered(s, size) = [s EXCEPT !.unread = Append(q, size)]
    BY <1>3 DEF Offered
  <2>2. Append(q, size) \in Seq(Size) /\ Len(Append(q, size)) = Len(q) + 1
    BY <1>1
  <2>3. AllFit(q) /\ size = "fits" => AllFit(Append(q, size))
    BY <1>1, <2>2 DEF AllFit
  <2>4. PICK p \in Seq(Size) : p = Append(q, size)
    BY <2>2
  <2>5. Offered(s, size) = [joined |-> s.joined, armed |-> s.armed, unread |-> p, lost |-> s.lost]
    BY <1>1, <2>1, <2>4
  <2>6. QED
    BY <1>1, <1>3, <2>2, <2>3, <2>4, <2>5 DEF Subscription
<1>4. CASE s.joined /\ Len(q) = Depth
  <2> DEFINE p == Append(Tail(q), size)
  <2>1. Offered(s, size) = [s EXCEPT !.unread = p, !.lost = s.lost + 1]
    BY <1>4 DEF Offered
  <2>2. q # <<>> /\ Tail(q) \in Seq(Size) /\ Len(Tail(q)) = Len(q) - 1
        /\ \A k \in 1..(Len(q) - 1) : Tail(q)[k] = q[k + 1]
    BY <1>1, <1>4 DEF Orderly, CbBounds
  <2>3. p \in Seq(Size) /\ Len(p) = Len(q)
    BY <1>1, <2>2
  <2>4. AllFit(q) /\ size = "fits" => AllFit(p)
    BY <1>1, <2>2, <2>3 DEF AllFit
  <2>5. PICK t \in Seq(Size) : t = p /\ Len(t) = Len(q)
                               /\ (AllFit(q) /\ size = "fits" => AllFit(t))
    BY <2>3, <2>4
  <2>6. Offered(s, size) =
          [joined |-> s.joined, armed |-> s.armed, unread |-> t, lost |-> s.lost + 1]
    BY <1>1, <2>1, <2>5
  <2>7. Offered(s, size) \in Subscription
    BY <1>1, <2>5, <2>6 DEF Subscription
  <2>8. /\ Offered(s, size).joined = s.joined /\ Offered(s, size).armed = s.armed
        /\ Offered(s, size).lost = s.lost + 1 /\ Offered(s, size).unread = t
    BY <2>6
  <2>9. Len(t) = Len(q) /\ Len(q) \in Nat /\ s.lost \in Nat
    BY <1>1, <2>5
  <2>10. QED
    BY <1>4, <2>5, <2>7, <2>8, <2>9
<1>5. QED
  BY <1>2, <1>3, <1>4

\* A pop takes one message and the count of those it missed.
LEMMA PoppedMeans ==
    ASSUME CbType, NEW r \in Reader, Poppable(r)
    PROVE  /\ Popped(r) \in Subscription
           /\ Popped(r).joined = sub[r].joined /\ Popped(r).armed = sub[r].armed
           /\ Popped(r).lost = 0 /\ Len(Popped(r).unread) = Len(sub[r].unread) - 1
           /\ AllFit(sub[r].unread) => AllFit(Popped(r).unread)
<1>0. PICK s \in Subscription : s = sub[r]
  BY DEF CbType
<1> DEFINE q == s.unread
<1>1. q \in Seq(Size) /\ q # <<>>
  BY <1>0 DEF Subscription, Poppable
<1>2. Tail(q) \in Seq(Size) /\ Len(Tail(q)) = Len(q) - 1
      /\ \A k \in 1..(Len(q) - 1) : Tail(q)[k] = q[k + 1]
  BY <1>1
<1>3. AllFit(q) => AllFit(Tail(q))
  BY <1>1, <1>2 DEF AllFit
<1>4. PICK t \in Seq(Size) : t = Tail(q)
  BY <1>2
<1>5. Popped(r) =
        [joined |-> s.joined, armed |-> s.armed, unread |-> t, lost |-> 0]
  <2>1. Popped(r) = [s EXCEPT !.unread = Tail(s.unread), !.lost = 0]
    BY <1>0 DEF Popped
  <2>2. s = [joined |-> s.joined, armed |-> s.armed, unread |-> s.unread, lost |-> s.lost]
    BY <1>0 DEF Subscription
  <2>3. QED
    BY <1>4, <2>1, <2>2
<1>6. QED
  BY <1>0, <1>1, <1>2, <1>3, <1>4, <1>5 DEF Subscription

\* What a step does not touch stays right.
LEMMA OthersKeep ==
    ASSUME CbInv
    PROVE  /\ UNCHANGED <<bus_cb_sem, cb_slot, worker, setup>>
                /\ (\A i \in Callback : sub'[i] = sub[i]) =>
                SetupOk' /\ \A i \in Callback : CallbackOk(i)'
           /\ UNCHANGED handle /\ (\A h \in BusHandle : sub'[h] = sub[h]) =>
                \A h \in BusHandle : HandleOk(h)'
           /\ UNCHANGED snap /\ sub'[Snap] = sub[Snap] => SnapOk'
<1>1. setup.at \in Callback
  BY DEF CbInv, CbType
<1>2. ASSUME UNCHANGED <<bus_cb_sem, cb_slot, worker, setup>>, \A i \in Callback : sub'[i] = sub[i]
      PROVE  SetupOk' /\ \A i \in Callback : CallbackOk(i)'
  BY <1>1, <1>2 DEF CbInv, SetupOk, CallbackOk, Poppable, Coming
<1>3. ASSUME UNCHANGED handle, \A h \in BusHandle : sub'[h] = sub[h]
      PROVE  \A h \in BusHandle : HandleOk(h)'
  BY <1>3 DEF CbInv, HandleOk
<1>4. ASSUME UNCHANGED snap, sub'[Snap] = sub[Snap]
      PROVE  SnapOk'
  BY <1>4 DEF CbInv, SnapOk, SnapAccounts
<1>5. QED
  BY <1>2, <1>3, <1>4

\* The readers are apart.
LEMMA ReadersApart ==
    ASSUME Orderly
    PROVE  /\ 0 \in Callback /\ Callback \subseteq Nat
           /\ \A i \in Callback : i \in Reader /\ i # Snap /\ i \notin BusHandle
           /\ \A h \in BusHandle : h \in Reader /\ h # Snap /\ h \notin Callback
           /\ Snap \in Reader /\ Snap \notin Callback /\ Snap \notin BusHandle
BY DEF Orderly, CbBounds, Reader, Snap

\* A subscription that is not there, or new.
LEMMA NewSubs ==
    /\ NoSub \in Subscription /\ Joined \in Subscription
    /\ Joined.joined = TRUE /\ Joined.unread = <<>> /\ Joined.lost = 0 /\ Joined.armed = FALSE
    /\ NoSub.joined = FALSE /\ NoSub.armed = FALSE /\ NoSub.unread = <<>>
BY DEF NoSub, Joined, Subscription

LEMMA CbStarts ==
    ASSUME Orderly PROVE CbInit => CbInv
<1> SUFFICES ASSUME CbInit PROVE CbInv
  OBVIOUS
<1>1. NoSub \in Subscription /\ NoSub.joined = FALSE /\ NoSub.armed = FALSE /\ NoSub.unread = <<>>
  BY NewSubs
<1>2. CbType
  BY <1>1, ReadersApart DEF CbInit, CbType, NoSetup, NoHandle
<1>3. SetupOk
  BY DEF CbInit, SetupOk, NoSetup
<1>4. SnapOk
  BY DEF CbInit, SnapOk, SnapAccounts
<1>5. \A i \in Callback : CallbackOk(i)
  BY DEF CbInit, CallbackOk
<1>6. \A h \in BusHandle : HandleOk(h)
  BY <1>1, ReadersApart DEF CbInit, HandleOk, NoHandle
<1>7. QED
  BY <1>2, <1>3, <1>4, <1>5, <1>6 DEF CbInv

LEMMA PublishKeeps ==
    ASSUME Orderly, CbInv, NEW size \in Size, PublishAll(size)
    PROVE  CbInv'
<1>1. /\ setup = NoSetup /\ setup' = setup /\ cb_slot' = cb_slot
      /\ snap.on => size = "fits"
  BY DEF PublishAll, Orderly
<1>2. ASSUME NEW r \in Reader
      PROVE  /\ sub[r] \in Subscription /\ sub'[r] = Offered(sub[r], size)
             /\ sub'[r] \in Subscription
             /\ sub'[r].joined = sub[r].joined /\ sub'[r].armed = sub[r].armed
             /\ ~sub[r].joined => sub'[r] = sub[r]
             /\ sub[r].joined => sub'[r].lost + Len(sub'[r].unread) = sub[r].lost + Len(sub[r].unread) + 1
             /\ AllFit(sub[r].unread) /\ size = "fits" => AllFit(sub'[r].unread)
  <2>1. sub[r] \in Subscription /\ sub'[r] = Offered(sub[r], size)
    BY DEF CbInv, CbType, PublishAll
  <2>2. QED
    BY <2>1, OfferedMeans
<1>3. CbType'
  <2>1. sub' \in [Reader -> Subscription]
    BY <1>2 DEF PublishAll
  <2>2. bus_cb_sem' \in {0, 1} /\ worker' \in [pc : {"idle", "asleep", "walk", "call"}, at : Callback]
    BY ReadersApart DEF PublishAll, CbInv, CbType
  <2>3. handle' \in [BusHandle -> [used : BOOLEAN, rd : BOOLEAN, fd : BOOLEAN, sem : {0, 1},
                                   waits : BOOLEAN]]
    BY DEF PublishAll, CbInv, CbType
  <2>4. snap' \in [on : BOOLEAN, written : Nat, failed : Nat, missed : Nat, offered : Nat]
    BY DEF PublishAll, CbInv, CbType
  <2>5. QED
    BY <1>1, <2>1, <2>2, <2>3, <2>4 DEF CbType, CbInv
<1>4. SetupOk'
  BY <1>1 DEF SetupOk, NoSetup
<1>5. ASSUME NEW i \in Callback PROVE CallbackOk(i)'
  <2>1. CallbackOk(i) /\ i \in Reader /\ i \in Nat
    BY ReadersApart DEF CbInv
  <2>2. cb_slot[i].used => Signalled(i)
    BY <1>1, <2>1 DEF CallbackOk, Signalled, NoSetup
  <2>3. cb_slot[i].used => Coming(i)'
    <3> SUFFICES ASSUME cb_slot[i].used PROVE Coming(i)'
      OBVIOUS
    <3>1. \E j \in Callback : Signalled(j)
      BY <2>2
    <3>2. CASE worker.pc = "asleep"
      BY <2>1, <3>1, <3>2 DEF PublishAll, Coming
    <3>3. CASE worker.pc # "asleep"
      BY <3>1, <3>3 DEF PublishAll, Coming
    <3>4. QED
      BY <3>2, <3>3
  <2>4. worker'.pc = "call" => worker' = worker
    BY DEF PublishAll
  <2>5. QED
    BY <1>1, <1>2, <2>1, <2>3, <2>4 DEF CallbackOk
<1>6. ASSUME NEW h \in BusHandle PROVE HandleOk(h)'
  <2>1. HandleOk(h) /\ h \in Reader
    BY ReadersApart DEF CbInv
  <2>2. /\ handle'[h].used = handle[h].used /\ handle'[h].rd = handle[h].rd
        /\ handle'[h].fd = handle[h].fd
        /\ handle'[h].waits => handle[h].waits /\ ~Signalled(h)
    BY DEF PublishAll, CbInv, CbType
  <2>3. QED
    BY <1>2, <2>1, <2>2 DEF HandleOk, Signalled
<1>7. SnapOk'
  <2>1. Snap \in Reader
    BY ReadersApart
  <2>2. /\ snap'.on = snap.on /\ snap'.written = snap.written /\ snap'.failed = snap.failed
        /\ snap'.missed = snap.missed
        /\ snap'.offered = IF snap.on THEN snap.offered + 1 ELSE snap.offered
    BY DEF PublishAll, CbInv, CbType
  <2>3. /\ snap.written \in Nat /\ snap.failed \in Nat /\ snap.missed \in Nat /\ snap.offered \in Nat
        /\ sub[Snap].lost \in Nat /\ Len(sub[Snap].unread) \in Nat
        /\ sub'[Snap].lost \in Nat /\ Len(sub'[Snap].unread) \in Nat
    BY <1>2, <2>1 DEF CbInv, CbType, Subscription
  <2>4. SnapOk
    BY DEF CbInv
  <2>5. snap.on => SnapAccounts'
    <3> SUFFICES ASSUME snap.on PROVE SnapAccounts'
      OBVIOUS
    <3>1. snap.offered = snap.written + snap.failed + snap.missed + sub[Snap].lost
                         + Len(sub[Snap].unread)
      BY <2>4 DEF SnapOk, SnapAccounts
    <3>2. sub'[Snap].lost + Len(sub'[Snap].unread) = sub[Snap].lost + Len(sub[Snap].unread) + 1
      BY <1>2, <2>1, <2>4 DEF SnapOk
    <3>3. QED
      <4>3. PICK k \in Nat, l \in Nat, n \in Nat, o \in Nat :
              /\ k = sub'[Snap].lost /\ l = Len(sub'[Snap].unread)
              /\ n = sub[Snap].lost /\ o = Len(sub[Snap].unread)
        BY <2>3
      <4>4. PICK w \in Nat, f \in Nat, m \in Nat :
              w = snap.written /\ f = snap.failed /\ m = snap.missed
        BY <2>3
      <4>5. k + l = n + o + 1 /\ snap.offered = w + f + m + n + o
        BY <3>1, <3>2, <4>3, <4>4
      <4>6. \A u \in Nat : u + n + o + 1 = u + k + l
        <5>1. k \in Nat /\ l \in Nat /\ n \in Nat /\ o \in Nat
          BY <4>3
        <5>2. k + l = n + o + 1
          BY <4>5
        <5>3. QED
          BY <5>1, <5>2
      <4>7. w + f + m \in Nat
        BY <4>4
      <4>8. w + f + m + n + o + 1 = w + f + m + k + l
        BY <4>6, <4>7
      <4>9. snap.offered + 1 = w + f + m + k + l
        BY <4>5, <4>8
      <4>1. snap'.offered = snap'.written + snap'.failed + snap'.missed + sub'[Snap].lost
                            + Len(sub'[Snap].unread)
        BY <2>2, <4>3, <4>4, <4>9
      <4>2. QED
        BY <4>1 DEF SnapAccounts
  <2>6. snap.on => sub'[Snap].joined /\ AllFit(sub'[Snap].unread)
    BY <1>1, <1>2, <2>1, <2>4 DEF SnapOk
  <2>7. QED
    BY <2>2, <2>4, <2>5, <2>6 DEF SnapOk, SnapAccounts
<1>8. QED
  BY <1>3, <1>4, <1>5, <1>6, <1>7 DEF CbInv

\* The steps by which a callback comes and goes.
LEMMA SetupKeeps ==
    ASSUME Orderly, CbInv, \/ v_bus_subscribe_cb \/ ArmSlot \/ UseSlot \/ DropSlot
                           \/ \E i \in Callback : v_bus_unsubscribe_cb(i)
    PROVE  CbInv'
<1>0. PICK j \in Callback :
        \/ /\ v_bus_subscribe_cb /\ ~cb_slot[j].used /\ setup = NoSetup
           /\ cb_slot' = [cb_slot EXCEPT ![j].cb = TRUE] /\ sub' = [sub EXCEPT ![j] = Joined]
           /\ setup' = [pc |-> "arm", at |-> j]
        \/ ArmSlot /\ j = setup.at
        \/ UseSlot /\ j = setup.at
        \/ DropSlot /\ j = setup.at
        \/ v_bus_unsubscribe_cb(j) /\ setup = NoSetup
  <2>1. CASE v_bus_subscribe_cb
    BY <2>1 DEF v_bus_subscribe_cb, Unused, MayStart
  <2>2. CASE \E i \in Callback : v_bus_unsubscribe_cb(i)
    BY <2>2 DEF v_bus_unsubscribe_cb, MayStart
  <2>3. setup.at \in Callback
    BY DEF CbInv, CbType
  <2>4. QED
    BY <2>1, <2>2, <2>3
<1>1. /\ worker' = worker /\ bus_cb_sem' = bus_cb_sem /\ worker.pc \in {"idle", "asleep"}
      /\ handle' = handle /\ snap' = snap
  BY <1>0 DEF v_bus_subscribe_cb, ArmSlot, UseSlot, DropSlot, v_bus_unsubscribe_cb, MayStart,
              Orderly, CbInv, SetupOk, NoSetup
<1>2. /\ \A r \in Reader : r # j => sub'[r] = sub[r]
      /\ \A i \in Callback : i # j => cb_slot'[i] = cb_slot[i]
      /\ setup' = NoSetup \/ setup'.at = j
      /\ setup = NoSetup \/ setup.at = j
  BY <1>0 DEF v_bus_subscribe_cb, ArmSlot, UseSlot, DropSlot, v_bus_unsubscribe_cb, MayStart,
              CbInv, CbType
<1>3. /\ NoSub \in Subscription /\ Joined \in Subscription
      /\ Joined.joined = TRUE /\ Joined.unread = <<>>
      /\ NoSub.joined = FALSE /\ NoSub.armed = FALSE /\ NoSub.unread = <<>>
  BY NewSubs
<1>4. sub[j] \in Subscription /\ cb_slot[j] \in [used : BOOLEAN, cb : BOOLEAN] /\ j \in Reader
  BY ReadersApart DEF CbInv, CbType
<1>5. CbType' /\ SetupOk' /\ CallbackOk(j)'
  <2>1. CASE v_bus_subscribe_cb /\ setup = NoSetup /\ setup' = [pc |-> "arm", at |-> j]
    <3>1. cb_slot' = [cb_slot EXCEPT ![j].cb = TRUE] /\ sub' = [sub EXCEPT ![j] = Joined]
          /\ ~cb_slot[j].used
      BY <1>0, <2>1 DEF ArmSlot, UseSlot, DropSlot, v_bus_unsubscribe_cb, NoSetup
    <3>2. CbType'
      BY <1>1, <1>3, <1>4, <2>1, <3>1 DEF CbInv, CbType
    <3>3. cb_slot'[j].cb /\ ~cb_slot'[j].used /\ sub'[j] = Joined
      BY <1>4, <3>1 DEF CbInv, CbType
    <3>4. QED
      BY <1>1, <1>3, <2>1, <3>2, <3>3 DEF SetupOk, CallbackOk, NoSetup
  <2>2. CASE ArmSlot /\ j = setup.at
    BY <1>1, <1>4, <2>2 DEF ArmSlot, CbInv, CbType, SetupOk, CallbackOk, NoSetup, Subscription
  <2>3. CASE UseSlot /\ j = setup.at
    BY <1>1, <1>4, <2>3, ReadersApart
       DEF UseSlot, CbInv, CbType, SetupOk, CallbackOk, NoSetup, Subscription, Poppable
  <2>4. CASE DropSlot /\ j = setup.at
    BY <1>1, <1>4, <2>4, ReadersApart
       DEF DropSlot, CbInv, CbType, SetupOk, CallbackOk, NoSetup
  <2>5. CASE v_bus_unsubscribe_cb(j)
    BY <1>1, <1>3, <1>4, <2>5
       DEF v_bus_unsubscribe_cb, CbInv, CbType, SetupOk, CallbackOk, NoSetup, NoSub, Poppable
  <2>6. QED
    BY <1>0, <2>1, <2>2, <2>3, <2>4, <2>5
<1>6. ASSUME NEW i \in Callback PROVE CallbackOk(i)'
  <2>1. CASE i = j
    BY <1>5, <2>1
  <2>2. CASE i # j
    BY <1>1, <1>2, <2>2, ReadersApart DEF CbInv, CallbackOk, Poppable, Coming, NoSetup
  <2>3. QED
    BY <2>1, <2>2
<1>7. SnapOk' /\ \A h \in BusHandle : HandleOk(h)'
  BY <1>1, <1>2, OthersKeep, ReadersApart
<1>8. QED
  BY <1>5, <1>6, <1>7 DEF CbInv

\* The steps of the worker: a slot it leaves has nothing for it, or a signal.
LEMMA WorkerKeeps ==
    ASSUME Orderly, CbInv, v_bus_worker_step \/ WorkerTimeout \/ WorkerPop \/ WorkerCall
    PROVE  CbInv'
<1>1. /\ cb_slot' = cb_slot /\ setup' = setup /\ setup = NoSetup
      /\ handle' = handle /\ snap' = snap
  BY DEF v_bus_worker_step, WorkerTimeout, WorkerPop, WorkerCall, WorkerMayRun, Orderly,
         CbInv, SetupOk
<1>2. worker.at \in Callback /\ worker.at \in Reader
  BY ReadersApart DEF CbInv, CbType
<1>3. \A r \in Reader : sub'[r] = sub[r] \/ (r = worker.at /\ worker.pc = "walk" /\ Poppable(r)
                                          /\ worker'.pc = "call" /\ sub'[r] = Popped(r))
  BY <1>2 DEF v_bus_worker_step, WorkerTimeout, WorkerPop, WorkerCall, CbInv, CbType
<1>4. CbType'
  <2>1. sub' \in [Reader -> Subscription]
    <3>1. CASE sub' = sub
      BY <3>1 DEF CbInv, CbType
    <3>2. CASE sub' = [sub EXCEPT ![worker.at] = Popped(worker.at)] /\ Poppable(worker.at)
      BY <1>2, <3>2, PoppedMeans DEF CbInv, CbType
    <3>3. QED
      BY <3>1, <3>2 DEF v_bus_worker_step, WorkerTimeout, WorkerPop, WorkerCall
  <2>2. bus_cb_sem' \in {0, 1}
    BY DEF v_bus_worker_step, WorkerTimeout, WorkerPop, WorkerCall, CbInv, CbType
  <2>3. worker' \in [pc : {"idle", "asleep", "walk", "call"}, at : Callback]
    <3>1. worker \in [pc : {"idle", "asleep", "walk", "call"}, at : Callback] /\ 0 \in Callback
      BY ReadersApart DEF CbInv, CbType
    <3>2. worker.pc = "call" => cb_slot[worker.at].cb
      BY <1>2 DEF CbInv, CallbackOk
    <3>3. QED
      BY <3>1, <3>2 DEF v_bus_worker_step, WorkerTimeout, WorkerPop, WorkerCall, AfterSlot
  <2>4. QED
    BY <1>1, <2>1, <2>2, <2>3 DEF CbInv, CbType
<1>5. SetupOk'
  BY <1>1 DEF SetupOk, NoSetup
<1>6. ASSUME NEW i \in Callback PROVE CallbackOk(i)'
  <2>1. CallbackOk(i) /\ i \in Nat /\ worker.at \in Nat /\ i \in Reader
    BY <1>2, ReadersApart DEF CbInv
  <2>2. /\ cb_slot[i].used => cb_slot[i].cb
        /\ cb_slot[i].used => sub[i].joined /\ sub[i].armed
    BY <1>1, <2>1 DEF CallbackOk, NoSetup
  <2>3. sub'[i].joined = sub[i].joined /\ sub'[i].armed = sub[i].armed
    BY <1>3, <2>1, PoppedMeans DEF CbInv
  <2>4. worker'.pc = "call" /\ worker'.at = i => cb_slot[i].cb
    BY <1>2, <2>1, <2>2 DEF v_bus_worker_step, WorkerTimeout, WorkerPop, WorkerCall, AfterSlot, CbInv, CbType
  <2>5. ASSUME cb_slot[i].used, Poppable(i)' PROVE Coming(i)'
    <3>1. CASE v_bus_worker_step
      BY <2>1, <2>5, <3>1 DEF v_bus_worker_step, CallbackOk, Coming, Poppable, CbInv, CbType
    <3>2. CASE WorkerTimeout
      BY <2>1, <2>5, <3>2 DEF WorkerTimeout, CallbackOk, Coming, Poppable, CbInv, CbType
    <3>3. CASE WorkerPop
      <4>1. worker.pc = "walk" /\ bus_cb_sem' = bus_cb_sem
        BY <3>3 DEF WorkerPop
      <4>2. CASE cb_slot[worker.at].used /\ Poppable(worker.at)
        <5>1. worker'.at = worker.at /\ worker'.pc = "call"
          BY <3>3, <4>2 DEF WorkerPop, CbInv, CbType
        <5>2. i # worker.at => Poppable(i)
          BY <1>3, <2>1, <2>5 DEF Poppable
        <5>3. QED
          BY <2>1, <2>5, <4>1, <5>1, <5>2 DEF CallbackOk, Coming
      <4>3. CASE ~(cb_slot[worker.at].used /\ Poppable(worker.at))
        <5>1. worker' = AfterSlot(worker.at) /\ sub' = sub
          BY <3>3, <4>3 DEF WorkerPop
        <5>2. i # worker.at /\ Poppable(i)
          BY <2>5, <4>3, <5>1 DEF Poppable
        <5>3. bus_cb_sem = 1 \/ worker.at < i
          BY <2>1, <2>5, <4>1, <5>2 DEF CallbackOk, Coming
        <5>4. worker.at < i => worker.at + 1 \in Callback
          BY <1>2, <2>1 DEF Orderly, CbBounds
        <5>5. QED
          BY <2>1, <4>1, <5>1, <5>3, <5>4 DEF AfterSlot, Coming
      <4>4. QED
        BY <4>2, <4>3
    <3>4. CASE WorkerCall
      BY <2>1, <2>4, <2>5, <3>4 DEF WorkerCall, CallbackOk, Coming, Poppable, CbInv, CbType
    <3>5. QED
      BY <3>1, <3>2, <3>3, <3>4
  <2>6. QED
    BY <1>1, <2>2, <2>3, <2>4, <2>5 DEF CallbackOk
<1>7. SnapOk' /\ \A h \in BusHandle : HandleOk(h)'
  <2>1. \A r \in BusHandle \cup {Snap} : sub'[r] = sub[r]
    BY <1>2, <1>3, ReadersApart
  <2>2. QED
    BY <1>1, <2>1, OthersKeep
<1>8. QED
  BY <1>4, <1>5, <1>6, <1>7 DEF CbInv

HandleStep(h) ==
    \/ \E b \in BOOLEAN : v_bus_open(h, b) \/ OpenSubscribe(h, b) \/ OpenFd(h, b)
    \/ bus_fd_close(h) \/ v_bus_recv(h) \/ HandleWait(h) \/ WaitTimeout(h)

\* The calls on a handle: its subscription lives and dies with it.
LEMMA HandlesKeep ==
    ASSUME Orderly, CbInv, NEW h \in BusHandle, HandleStep(h)
    PROVE  CbInv'
<1> DEFINE HandleType == [used : BOOLEAN, rd : BOOLEAN, fd : BOOLEAN, sem : {0, 1}, waits : BOOLEAN]
<1>1. UNCHANGED <<bus_cb_sem, cb_slot, worker, setup, snap>>
  BY DEF HandleStep, v_bus_open, OpenSubscribe, OpenFd, bus_fd_close, v_bus_recv, HandleWait,
         WaitTimeout
<1>2. h \in Reader /\ sub[h] \in Subscription /\ handle[h] \in HandleType /\ HandleOk(h)
  BY ReadersApart DEF CbInv, CbType
<1>3. /\ sub' = sub \/ sub' = [sub EXCEPT ![h] = sub'[h]]
      /\ handle' = handle \/ handle' = [handle EXCEPT ![h] = handle'[h]]
      /\ sub'[h] \in Subscription /\ handle'[h] \in HandleType /\ HandleOk(h)'
  <2>1. CASE \E b \in BOOLEAN : v_bus_open(h, b)
    <3>1. PICK b \in BOOLEAN : v_bus_open(h, b)
      BY <2>1
    <3>2. handle' = [handle EXCEPT ![h] = [NoHandle EXCEPT !.used = TRUE, !.rd = b]] /\ sub' = sub
          /\ ~handle[h].used
      BY <3>1 DEF v_bus_open
    <3>3. handle'[h] = [used |-> TRUE, rd |-> b, fd |-> FALSE, sem |-> 0, waits |-> FALSE]
      BY <1>2, <3>2 DEF CbInv, CbType, NoHandle
    <3>4. handle'[h] \in HandleType /\ ~handle'[h].fd /\ ~handle'[h].waits
      BY <3>3
    <3>5. ~sub[h].joined /\ ~sub[h].armed
      BY <1>2, <3>2 DEF HandleOk
    <3>6. sub'[h] = sub[h] /\ ~sub'[h].joined /\ ~sub'[h].armed
      BY <3>2, <3>5
    <3>7. HandleOk(h)'
      BY <3>4, <3>6 DEF HandleOk
    <3>8. QED
      BY <1>2, <3>2, <3>3, <3>4, <3>6, <3>7
  <2>2. CASE \E b \in BOOLEAN : OpenSubscribe(h, b)
    <3>1. PICK b \in BOOLEAN : OpenSubscribe(h, b)
      BY <2>2
    <3>2. CASE b
      BY <1>2, <3>1, <3>2, NewSubs DEF OpenSubscribe, HandleOk, NoHandle, CbInv, CbType
    <3>3. CASE ~b
      <4>1. /\ [Joined EXCEPT !.armed = TRUE] \in Subscription
            /\ [Joined EXCEPT !.armed = TRUE].joined /\ [Joined EXCEPT !.armed = TRUE].armed
        BY NewSubs DEF Subscription
      <4>2. sub' = [sub EXCEPT ![h] = [Joined EXCEPT !.armed = TRUE]]
            /\ handle' = [handle EXCEPT ![h].sem = 0]
            /\ handle[h].used /\ handle[h].rd /\ ~handle[h].fd
        BY <3>1, <3>3 DEF OpenSubscribe
      <4>3. sub'[h] = [Joined EXCEPT !.armed = TRUE] /\ handle'[h] = [handle[h] EXCEPT !.sem = 0]
        BY <1>2, <4>2 DEF CbInv, CbType
      <4>4. /\ handle'[h] \in HandleType /\ handle'[h].used /\ handle'[h].rd
            /\ handle'[h].fd = handle[h].fd /\ handle'[h].waits = handle[h].waits
            /\ ~handle[h].fd /\ ~handle[h].waits
        BY <1>2, <4>2, <4>3 DEF HandleOk
      <4>5. sub'[h] \in Subscription /\ sub'[h].joined /\ sub'[h].armed
        BY <4>1, <4>3
      <4>6. HandleOk(h)'
        BY <4>4, <4>5 DEF HandleOk
      <4>7. QED
        BY <4>2, <4>3, <4>4, <4>5, <4>6
    <3>4. QED
      BY <3>2, <3>3
  <2>3. CASE \E b \in BOOLEAN : OpenFd(h, b)
    <3>1. PICK b \in BOOLEAN : OpenFd(h, b)
      BY <2>3
    <3>2. CASE b
      BY <1>2, <3>1, <3>2, NewSubs DEF OpenFd, Closed, HandleOk, NoHandle, CbInv, CbType
    <3>3. CASE ~b
      BY <1>2, <3>1, <3>3 DEF OpenFd, HandleOk, CbInv, CbType
    <3>4. QED
      BY <3>2, <3>3
  <2>4. CASE bus_fd_close(h)
    BY <1>2, <2>4, NewSubs DEF bus_fd_close, Closed, HandleOk, NoHandle, CbInv, CbType
  <2>5. CASE v_bus_recv(h)
    <3>1. sub' = [sub EXCEPT ![h] = Popped(h)] /\ handle' = handle /\ ~handle[h].waits
          /\ Poppable(h)
      BY <2>5 DEF v_bus_recv
    <3>2. sub'[h] = Popped(h) /\ Popped(h) \in Subscription
          /\ Popped(h).joined = sub[h].joined /\ Popped(h).armed = sub[h].armed
      BY <1>2, <3>1, PoppedMeans DEF CbInv, CbType
    <3>3. QED
      BY <1>2, <3>1, <3>2 DEF HandleOk
  <2>6. CASE HandleWait(h)
    <3>1. handle' = [handle EXCEPT ![h].sem = 0, ![h].waits = (handle[h].sem = 0)] /\ sub' = sub
          /\ handle[h].fd /\ handle[h].rd /\ sub[h].unread = <<>>
      BY <2>6 DEF HandleWait, rd_ready
    <3>2. handle'[h] = [handle[h] EXCEPT !.sem = 0, !.waits = (handle[h].sem = 0)]
      BY <1>2, <3>1 DEF CbInv, CbType
    <3>3. /\ handle'[h] \in HandleType
          /\ handle'[h].used = handle[h].used /\ handle'[h].rd = handle[h].rd
          /\ handle'[h].fd = handle[h].fd
      BY <1>2, <3>2
    <3>4. sub'[h] = sub[h] /\ handle' = [handle EXCEPT ![h] = handle'[h]]
      BY <3>1, <3>2
    <3>5. HandleOk(h)'
      BY <1>2, <3>1, <3>3, <3>4 DEF HandleOk
    <3>6. QED
      BY <1>2, <3>1, <3>3, <3>4, <3>5
  <2>7. CASE WaitTimeout(h)
    BY <1>2, <2>7 DEF WaitTimeout, HandleOk, CbInv, CbType
  <2>8. QED
    BY <2>1, <2>2, <2>3, <2>4, <2>5, <2>6, <2>7 DEF HandleStep
<1>4. /\ \A r \in Reader : r # h => sub'[r] = sub[r]
      /\ \A g \in BusHandle : g # h => handle'[g] = handle[g]
  BY <1>2, <1>3 DEF CbInv, CbType
<1>5. CbType'
  <2>1. sub' \in [Reader -> Subscription]
    BY <1>2, <1>3 DEF CbInv, CbType
  <2>2. handle' \in [BusHandle -> HandleType]
    BY <1>2, <1>3 DEF CbInv, CbType
  <2>3. QED
    BY <1>1, <2>1, <2>2 DEF CbInv, CbType
<1>6. SetupOk' /\ \A i \in Callback : CallbackOk(i)'
  BY <1>1, <1>4, OthersKeep, ReadersApart
<1>7. SnapOk'
  BY <1>1, <1>4, OthersKeep, ReadersApart
<1>8. ASSUME NEW g \in BusHandle PROVE HandleOk(g)'
  <2>1. CASE g = h
    BY <1>3, <2>1
  <2>2. CASE g # h
    BY <1>4, <2>2, ReadersApart DEF HandleOk, CbInv
  <2>3. QED
    BY <2>1, <2>2
<1>9. QED
  BY <1>5, <1>6, <1>7, <1>8 DEF CbInv

\* The recorder: what it takes it counts.
LEMMA SnapKeeps ==
    ASSUME Orderly, CbInv, \/ v_bus_snapshot_start \/ v_bus_snapshot_stop
                           \/ \E f \in BOOLEAN : v_bus_snapshot_pump(f)
    PROVE  CbInv'
<1> DEFINE SnapType == [on : BOOLEAN, written : Nat, failed : Nat, missed : Nat, offered : Nat]
<1>1. UNCHANGED <<bus_cb_sem, cb_slot, worker, setup, handle>>
  BY DEF v_bus_snapshot_start, v_bus_snapshot_stop, v_bus_snapshot_pump
<1>2. Snap \in Reader /\ sub[Snap] \in Subscription /\ snap \in SnapType /\ SnapOk
  BY ReadersApart DEF CbInv, CbType
<1>3. /\ sub' = [sub EXCEPT ![Snap] = sub'[Snap]]
      /\ sub'[Snap] \in Subscription /\ snap' \in SnapType /\ SnapOk'
  <2>1. CASE v_bus_snapshot_start
    <3>1. sub' = [sub EXCEPT ![Snap] = Joined] /\ snap' = [snap EXCEPT !.on = TRUE]
          /\ ~snap.on /\ snap.offered = 0
      BY <2>1 DEF v_bus_snapshot_start
    <3>2. sub'[Snap] = Joined
      BY <1>2, <3>1 DEF CbInv, CbType
    <3>3. snap.written = 0 /\ snap.failed = 0 /\ snap.missed = 0
      BY <1>2, <3>1 DEF SnapOk
    <3>4. /\ snap' \in SnapType /\ snap'.on /\ snap'.offered = 0
          /\ snap'.written = 0 /\ snap'.failed = 0 /\ snap'.missed = 0
      BY <1>2, <3>1, <3>3
    <3>5. sub'[Snap].joined /\ sub'[Snap].lost = 0 /\ sub'[Snap].unread = <<>>
      BY <3>2, NewSubs
    <3>6. SnapOk'
      BY <3>4, <3>5 DEF SnapOk, SnapAccounts, AllFit
    <3>7. QED
      BY <3>1, <3>2, <3>4, <3>6, NewSubs
  <2>2. CASE v_bus_snapshot_stop
    <3>1. sub' = [sub EXCEPT ![Snap] = NoSub] /\ snap' = [snap EXCEPT !.on = FALSE] /\ snap.on
      BY <2>2 DEF v_bus_snapshot_stop
    <3>2. sub'[Snap] = NoSub
      BY <1>2, <3>1 DEF CbInv, CbType
    <3>3. snap.offered = 0 => snap.written + snap.failed + snap.missed = 0
      BY <1>2, <3>1 DEF SnapOk, SnapAccounts, Subscription
    <3>4. QED
      BY <1>2, <3>1, <3>2, <3>3, NewSubs DEF SnapOk, SnapAccounts
  <2>3. ASSUME NEW f \in BOOLEAN, v_bus_snapshot_pump(f)
        PROVE  /\ sub' = [sub EXCEPT ![Snap] = sub'[Snap]]
               /\ sub'[Snap] \in Subscription /\ snap' \in SnapType /\ SnapOk'
    <3>1. Poppable(Snap)
      <4>1. snap.on /\ sub[Snap].joined /\ sub[Snap].unread # <<>> /\ AllFit(sub[Snap].unread)
        BY <1>2, <2>3 DEF v_bus_snapshot_pump, SnapOk
      <4>2. sub[Snap].unread \in Seq(Size)
        BY <1>2 DEF Subscription
      <4>3. QED
        BY <4>1, <4>2 DEF Poppable, AllFit
    <3>2. /\ sub' = [sub EXCEPT ![Snap] = Popped(Snap)] /\ snap.on
          /\ snap'.on = snap.on /\ snap'.offered = snap.offered
          /\ snap'.missed = snap.missed + sub[Snap].lost
          /\ snap'.written = IF f THEN snap.written ELSE snap.written + 1
          /\ snap'.failed = IF f THEN snap.failed + 1 ELSE snap.failed
          /\ snap' \in SnapType
      <4>1. /\ sub' = [sub EXCEPT ![Snap] = Popped(Snap)] /\ snap.on
            /\ snap' = [snap EXCEPT !.missed = @ + sub[Snap].lost,
                                    !.written = IF f THEN @ ELSE @ + 1,
                                    !.failed = IF f THEN @ + 1 ELSE @]
        BY <2>3, <3>1 DEF v_bus_snapshot_pump, MissedBy
      <4>2. sub[Snap].lost \in Nat
        BY <1>2 DEF Subscription
      <4>3. CASE f
        <5>1. snap' = [snap EXCEPT !.missed = @ + sub[Snap].lost, !.failed = @ + 1]
          BY <1>2, <4>1, <4>3
        <5>2. snap = [on |-> snap.on, written |-> snap.written, failed |-> snap.failed,
                      missed |-> snap.missed, offered |-> snap.offered]
          BY <1>2
        <5>3. snap' = [on |-> snap.on, written |-> snap.written, failed |-> snap.failed + 1,
                       missed |-> snap.missed + sub[Snap].lost, offered |-> snap.offered]
          BY <5>1, <5>2
        <5>4. snap' \in SnapType
          BY <1>2, <4>2, <5>3
        <5>5. QED
          BY <4>1, <4>3, <5>3, <5>4
      <4>4. CASE ~f
        <5>1. snap' = [snap EXCEPT !.missed = @ + sub[Snap].lost, !.written = @ + 1]
          BY <1>2, <4>1, <4>4
        <5>2. snap = [on |-> snap.on, written |-> snap.written, failed |-> snap.failed,
                      missed |-> snap.missed, offered |-> snap.offered]
          BY <1>2
        <5>3. snap' = [on |-> snap.on, written |-> snap.written + 1, failed |-> snap.failed,
                       missed |-> snap.missed + sub[Snap].lost, offered |-> snap.offered]
          BY <5>1, <5>2
        <5>4. snap' \in SnapType
          BY <1>2, <4>2, <5>3
        <5>5. QED
          BY <4>1, <4>4, <5>3, <5>4
      <4>5. QED
        BY <4>3, <4>4
    <3>3. sub'[Snap] = Popped(Snap) /\ Popped(Snap) \in Subscription
      BY <1>2, <3>1, <3>2, PoppedMeans DEF CbInv, CbType
    <3>4. /\ sub'[Snap].joined /\ AllFit(sub'[Snap].unread) /\ sub'[Snap].lost = 0
          /\ Len(sub'[Snap].unread) = Len(sub[Snap].unread) - 1
      BY <1>2, <3>1, <3>2, <3>3, PoppedMeans DEF CbInv, SnapOk
    <3>5. PICK w \in Nat, l \in Nat, m \in Nat, k \in Nat, n \in Nat :
            /\ w = snap.written /\ l = snap.failed /\ m = snap.missed
            /\ k = sub[Snap].lost /\ n = Len(sub[Snap].unread)
      BY <1>2 DEF Subscription
    <3>6. snap.offered = w + l + m + k + n
      BY <1>2, <3>2, <3>5 DEF SnapOk, SnapAccounts
    <3>7. w \in Nat /\ l \in Nat /\ m \in Nat /\ k \in Nat /\ n \in Nat
      BY <3>5
    <3>8. /\ w + l + m + k + n = w + (l + 1) + (m + k) + 0 + (n - 1)
          /\ w + l + m + k + n = (w + 1) + l + (m + k) + 0 + (n - 1)
      BY <3>7
    <3>9. SnapAccounts'
      BY <3>2, <3>4, <3>5, <3>6, <3>8 DEF SnapAccounts
    <3>10. QED
      BY <3>2, <3>3, <3>4, <3>9 DEF SnapOk
  <2>4. QED
    BY <2>1, <2>2, <2>3
<1>4. \A r \in Reader : r # Snap => sub'[r] = sub[r]
  BY <1>3 DEF CbInv, CbType
<1>5. CbType'
  <2>1. sub' \in [Reader -> Subscription]
    BY <1>2, <1>3 DEF CbInv, CbType
  <2>2. QED
    BY <1>1, <1>3, <2>1 DEF CbInv, CbType
<1>6. SetupOk' /\ \A i \in Callback : CallbackOk(i)'
  BY <1>1, <1>4, OthersKeep, ReadersApart
<1>7. \A h \in BusHandle : HandleOk(h)'
  BY <1>1, <1>4, OthersKeep, ReadersApart
<1>8. QED
  BY <1>3, <1>5, <1>6, <1>7 DEF CbInv

LEMMA CbSteps == ASSUME Orderly PROVE CbInv /\ [CbNext]_bw_vars => CbInv'
<1> SUFFICES ASSUME CbInv, [CbNext]_bw_vars PROVE CbInv'
  OBVIOUS
<1>1. CASE \E size \in {"fits", "wide"} : PublishAll(size)
  BY <1>1, PublishKeeps DEF Size
<1>2. CASE \/ v_bus_subscribe_cb \/ ArmSlot \/ UseSlot \/ DropSlot
           \/ \E i \in Callback : v_bus_unsubscribe_cb(i)
  BY <1>2, SetupKeeps
<1>3. CASE v_bus_worker_step \/ WorkerTimeout \/ WorkerPop \/ WorkerCall
  BY <1>3, WorkerKeeps
<1>4. CASE \E h \in BusHandle : HandleStep(h)
  BY <1>4, HandlesKeep
<1>5. CASE \/ v_bus_snapshot_start \/ v_bus_snapshot_stop
           \/ \E f \in BOOLEAN : v_bus_snapshot_pump(f)
  BY <1>5, SnapKeeps
<1>6. CASE UNCHANGED bw_vars
  <2>1. CbType'
    BY <1>6 DEF bw_vars, CbInv, CbType
  <2>2. UNCHANGED <<bus_cb_sem, cb_slot, worker, setup, handle, snap>> /\ sub' = sub
    BY <1>6 DEF bw_vars
  <2>3. QED
    BY <2>1, <2>2, OthersKeep DEF CbInv
<1>7. QED
  BY <1>1, <1>2, <1>3, <1>4, <1>5, <1>6 DEF CbNext, HandleStep

\* Nobody who consumes a topic is forgotten, for any number of callbacks and handles and
\* any depth: the worker sleeps on no message it could hand over, though one signal stands
\* for any number of publishes (v_bus_worker_step); no task sleeps in v_bus_wait with one
\* to read; a subscription belongs to a handle in use, whatever failed in v_bus_open; and
\* the recorder counts each message once (v_bus_snapshot_pump).  Callbacks come and go
\* while the worker rests, and recorded messages fit the buffer.
THEOREM ConsumersSafe ==
    ASSUME Orderly
    PROVE  CbSpec => []ConsumersServed
<1>1. CbInv => ConsumersServed
  <2> SUFFICES ASSUME CbInv PROVE ConsumersServed
    OBVIOUS
  <2>1. WorkerDrains
    BY DEF CbInv, WorkerDrains, CallbackOk, Coming
  <2>2. WaiterHasNothing /\ ClaimsOwned
    BY DEF CbInv, WaiterHasNothing, ClaimsOwned, HandleOk
  <2>3. QED
    BY <2>1, <2>2 DEF ConsumersServed, CbInv, SnapOk
<1>2. QED
  BY <1>1, CbStarts, CbSteps, PTL DEF CbSpec
=============================================================================

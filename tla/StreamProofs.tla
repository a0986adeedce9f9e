----------------------------- MODULE StreamProofs -----------------------------
(***************************************************************************)
(* The queues by which bytes and elements go from one side to another.     *)
(* First the single-producer single-consumer fifo, for any capacity: with  *)
(* no lock, and both sides in the middle of their copies, it is a bounded  *)
(* channel.  Then the byte streams of the devices, for any sizes.          *)
(***************************************************************************)
EXTENDS Spsc, Stream, ListLemmas
-------------------------------------------------------------------------------
(* The one-to-one fifo *)

Item == 0..(Items - 1)
Cells == 0..(capacity - 1)

\* One slot stays empty, so there are at least two (spsc_init).
Sizes == capacity \in Nat /\ capacity >= 2 /\ Items \in Nat \ {0}

TypeInv ==
    /\ overwriting \in BOOLEAN
    /\ buffer \in [Cells -> Item] /\ head \in Cells /\ tail \in Cells
    /\ prod \in [at : {"idle", "store", "skip"}, n : Cells, i : Nat]
    /\ cons \in [at : {"idle", "load"}, n : Nat, from : Cells, copy : Seq(Item)]
    /\ next \in Item /\ content \in Seq(Item) /\ got \in Seq(Item)

\* A write fits in front of the tail and has stored its first elements; one that has to
\* skip first will fit then, and reads nothing the consumer is in the middle of.
ProdInv ==
    /\ prod.at = "store" =>
         /\ prod.n <= Space /\ prod.i <= prod.n
         /\ \A k \in 0..(prod.i - 1) : buffer[Wrap(head + k)] = Value(k)
    /\ prod.at = "skip" => overwriting /\ cons.at = "idle" /\ prod.n - Space <= prod.i

\* A read takes elements that are there, from where they are.
ConsInv ==
    /\ cons.at = "load" =>
         /\ cons.from = tail /\ cons.n \in 1..Available /\ Len(cons.copy) <= cons.n
         /\ \A k \in 1..Len(cons.copy) : cons.copy[k] = content[k]
    /\ cons.at = "idle" => cons.copy = <<>>

\* The inductive invariant.
IInv == TypeInv /\ FifoExact /\ ProdInv /\ ConsInv
-------------------------------------------------------------------------------
(* The ring's arithmetic *)

\* How far h is ahead of t, as spsc_available counts.
Gap(h, t) == IF h >= t THEN h - t ELSE capacity - t + h

\* Positions add up before or after they wrap.
LEMMA WrapWrap ==
    ASSUME Sizes, NEW a \in Int, NEW b \in Int
    PROVE  Wrap(a) \in Cells /\ Wrap(Wrap(a) + b) = Wrap(a + b)
<1>1. capacity \in Nat \ {0}
  BY DEF Sizes
<1>2. a % capacity \in Cells /\ ((a % capacity) + b) % capacity = (a + b) % capacity
  BY <1>1, ModAdd DEF Cells
<1>3. QED
  BY <1>2 DEF Wrap

\* Two positions of the ring are different slots.
LEMMA Apart ==
    ASSUME Sizes, NEW t \in Cells, NEW i \in Cells, NEW j \in Cells, i # j
    PROVE  Wrap(t + i) # Wrap(t + j)
<1>1. capacity \in Nat \ {0} /\ t \in Int
  BY DEF Sizes, Cells
<1>2. (t + i) % capacity # (t + j) % capacity
  BY <1>1, ModDistinct DEF Cells
<1>3. QED
  BY <1>2 DEF Wrap

\* An index that is d ahead is seen d ahead.
LEMMA GapOf ==
    ASSUME Sizes, NEW t \in Cells, NEW d \in Cells
    PROVE  Wrap(t + d) \in Cells /\ Gap(Wrap(t + d), t) = d
<1>1. CASE t + d < capacity
  <2>1. Wrap(t + d) = t + d
    BY <1>1 DEF Wrap, Cells, Sizes
  <2>2. QED
    BY <1>1, <2>1 DEF Gap, Cells, Sizes
<1>2. CASE t + d >= capacity
  <2>1. /\ capacity \in Nat \ {0} /\ t + d - capacity \in 0..(capacity - 1)
        /\ capacity * 1 + (t + d - capacity) = t + d
    BY <1>2 DEF Cells, Sizes
  <2>2. (capacity * 1 + (t + d - capacity)) % capacity = t + d - capacity
    BY <2>1, ModUnique
  <2>3. Wrap(t + d) = t + d - capacity
    BY <2>1, <2>2 DEF Wrap
  <2>4. QED
    BY <1>2, <2>3 DEF Gap, Cells, Sizes
<1>3. QED
  BY <1>1, <1>2 DEF Cells, Sizes

\* An index is as far ahead as it is seen.
LEMMA GapIs ==
    ASSUME Sizes, NEW t \in Cells, NEW h \in Cells
    PROVE  Gap(h, t) \in Cells /\ h = Wrap(t + Gap(h, t))
<1>1. CASE h >= t
  <2>1. Gap(h, t) = h - t /\ t + (h - t) = h
    BY <1>1 DEF Gap, Cells, Sizes
  <2>2. h % capacity = h
    BY DEF Cells, Sizes
  <2>3. QED
    BY <1>1, <2>1, <2>2 DEF Wrap, Cells, Sizes
<1>2. CASE h < t
  <2>1. /\ capacity \in Nat \ {0} /\ h \in 0..(capacity - 1)
        /\ t + (capacity - t + h) = capacity * 1 + h
        /\ Gap(h, t) = capacity - t + h /\ Gap(h, t) \in Cells
    BY <1>2 DEF Gap, Cells, Sizes
  <2>2. (capacity * 1 + h) % capacity = h
    BY <2>1, ModUnique
  <2>3. QED
    BY <2>1, <2>2 DEF Wrap
<1>3. QED
  BY <1>1, <1>2 DEF Cells

\* What is there, what fits, and where head is, counted from tail.
LEMMA RoomLeft ==
    ASSUME Sizes, head \in Cells, tail \in Cells
    PROVE  /\ Available \in Cells /\ Space = capacity - 1 - Available
           /\ head = Wrap(tail + Available)
           /\ WriteRun <= Space /\ ReadRun <= Available
           /\ WriteRun \in Int /\ ReadRun \in Int
<1>1. Available = Gap(head, tail)
  BY DEF Available, Gap
<1>2. Available \in Cells /\ head = Wrap(tail + Available)
  BY <1>1, GapIs
<1>3. Space = capacity - 1 - Available
  BY DEF Available, Space, Cells, Sizes
<1>4. WriteRun <= Space /\ WriteRun \in Int
  BY DEF WriteRun, Space, Cells, Sizes
<1>5. ReadRun <= Available /\ ReadRun \in Int
  BY DEF ReadRun, Available, Cells, Sizes
<1>6. QED
  BY <1>2, <1>3, <1>4, <1>5

\* The slots behind head, as positions counted from tail.
LEMMA Ahead ==
    ASSUME Sizes, head \in Cells, tail \in Cells, NEW k \in Int
    PROVE  Wrap(head + k) = Wrap(tail + (Available + k)) /\ Wrap(head + k) \in Cells
<1>1. Available \in Int /\ head = Wrap(tail + Available) /\ tail \in Int
  BY RoomLeft DEF Cells, Sizes
<1>2. tail + Available \in Int /\ (tail + Available) + k = tail + (Available + k)
  BY <1>1
<1>3. Wrap(head + k) = Wrap((tail + Available) + k)
  BY <1>1, <1>2, WrapWrap
<1>4. tail + (Available + k) \in Int
  BY <1>1
<1>5. Wrap(tail + (Available + k)) \in Cells
  BY <1>4, WrapWrap
<1>6. QED
  BY <1>2, <1>3, <1>5

\* The tail moves up by k elements, and they are gone from the front of the fifo.
LEMMA TailMoves ==
    ASSUME Sizes, TypeInv, FifoExact, NEW k \in 0..Available,
           tail' = Wrap(tail + k), content' = SubSeq(content, k + 1, Len(content)),
           head' = head, buffer' = buffer
    PROVE  /\ tail' \in Cells /\ content' \in Seq(Item) /\ FifoExact'
           /\ Available' = Available - k /\ Space' = Space + k
<1>1. /\ Available \in Cells /\ head = Wrap(tail + Available) /\ head \in Cells
      /\ Space = capacity - 1 - Available /\ tail \in Cells /\ content \in Seq(Item)
      /\ Len(content) = Available
  BY RoomLeft DEF TypeInv, FifoExact
<1>2. tail \in Int /\ Available \in Nat /\ k \in Nat /\ Available - k \in Cells /\ tail + k \in Int
  BY <1>1 DEF Cells, Sizes
<1>3. tail' \in Cells
  BY <1>2, WrapWrap
<1>4. head = Wrap(tail' + (Available - k))
  <2>1. Wrap(Wrap(tail + k) + (Available - k)) = Wrap((tail + k) + (Available - k))
    BY <1>2, WrapWrap
  <2>2. (tail + k) + (Available - k) = tail + Available
    BY <1>2
  <2>3. QED
    BY <1>1, <2>1, <2>2
<1>5. Available' = Available - k
  <2>1. Gap(head, tail') = Available - k
    BY <1>2, <1>3, <1>4, GapOf
  <2>2. Available' = Gap(head, tail')
    BY DEF Available, Gap
  <2>3. QED
    BY <2>1, <2>2
<1>6. Space' = Space + k
  <2>1. Space' = capacity - 1 - Available'
    <3>1. head' \in Int /\ tail' \in Int /\ capacity \in Int
      BY <1>1, <1>3 DEF Cells, Sizes
    <3>2. QED
      BY SMTT(40), <3>1 DEF Available, Space
  <2>2. QED
    BY <1>1, <1>2, <1>5, <2>1 DEF Sizes
<1>7. /\ content' \in Seq(Item) /\ Len(content') = Available - k
      /\ \A i \in 1..(Available - k) : content'[i] = content[i + k]
  <2>1. /\ Len(content) \in Nat /\ k + 1 \in 1..(Len(content) + 1)
        /\ Len(content) \in k..Len(content)
    BY <1>1, <1>2
  <2>2. content' \in Seq(Item) /\ Len(content') = Len(content) - k
    BY <1>1, <2>1, SubSeqProperties
  <2>3. ASSUME NEW i \in 1..(Available - k) PROVE content'[i] = content[i + k]
    BY <1>1, <1>2, <2>1, SubSeqProperties
  <2>4. QED
    BY <1>1, <2>2, <2>3
<1>8. ASSUME NEW i \in 1..(Available - k) PROVE buffer[Wrap(tail' + i - 1)] = content'[i]
  <2>1. i + k \in 1..Len(content) /\ i - 1 \in Int
    BY <1>1, <1>2
  <2>2. buffer[Wrap(tail + (i + k) - 1)] = content[i + k]
    BY <2>1 DEF FifoExact
  <2>3. Wrap(Wrap(tail + k) + (i - 1)) = Wrap((tail + k) + (i - 1))
    BY <1>2, <2>1, WrapWrap
  <2>4. (tail + k) + (i - 1) = tail + (i + k) - 1
    BY <1>2
  <2>5. tail' + i - 1 = tail' + (i - 1)
    BY <1>3 DEF Cells
  <2>6. QED
    BY <1>7, <2>2, <2>3, <2>4, <2>5
<1>9. FifoExact'
  BY <1>5, <1>7, <1>8 DEF FifoExact
<1>10. QED
  BY <1>3, <1>5, <1>6, <1>7, <1>9

\* The head moves up by n elements that are in place, and they join the fifo at its end.
LEMMA HeadMoves ==
    ASSUME Sizes, TypeInv, FifoExact, NEW n \in Nat, n <= Space,
           NEW s \in Seq(Item), Len(s) = n,
           \A k \in 1..n : buffer[Wrap(head + (k - 1))] = s[k],
           head' = Wrap(head + n), content' = content \o s, tail' = tail, buffer' = buffer
    PROVE  /\ head' \in Cells /\ content' \in Seq(Item) /\ FifoExact'
           /\ Available' = Available + n
           /\ Len(content') = Len(content) + n /\ Len(content') <= capacity - 1
           /\ \A i \in 1..Len(content) : content'[i] = content[i]
<1>1. /\ Available \in Cells /\ head \in Cells
      /\ Space = capacity - 1 - Available /\ tail \in Cells /\ content \in Seq(Item)
      /\ Len(content) = Available
  BY RoomLeft DEF TypeInv, FifoExact
<1>2. head \in Int /\ tail \in Int /\ Available \in Nat /\ Available + n \in Cells
  BY <1>1 DEF Cells, Sizes
<1>3. head' \in Cells /\ head' = Wrap(tail + (Available + n))
  BY <1>1, Ahead
<1>4. Available' = Available + n
  <2>1. Gap(head', tail) = Available + n
    BY <1>1, <1>2, <1>3, GapOf
  <2>2. Available' = Gap(head', tail)
    BY DEF Available, Gap
  <2>3. QED
    BY <2>1, <2>2
<1>5. /\ content' \in Seq(Item) /\ Len(content') = Available + n
      /\ \A i \in 1..(Available + n) :
           content'[i] = IF i <= Available THEN content[i] ELSE s[i - Available]
  BY <1>1, ConcatProperties, ZenonT(30)
<1>6. ASSUME NEW i \in 1..(Available + n) PROVE buffer[Wrap(tail + i - 1)] = content'[i]
  <2>1. CASE i <= Available
    BY <1>1, <1>2, <1>5, <2>1 DEF FifoExact
  <2>2. CASE i > Available
    <3>1. i - Available \in 1..n /\ i - Available - 1 \in Int
      BY <1>2, <2>2
    <3>2. buffer[Wrap(head + (i - Available - 1))] = s[i - Available]
      BY <3>1
    <3>3. Wrap(head + (i - Available - 1)) = Wrap(tail + (Available + (i - Available - 1)))
      BY <1>1, <3>1, Ahead
    <3>4. tail + (Available + (i - Available - 1)) = tail + i - 1
      BY <1>2
    <3>5. QED
      BY <1>2, <1>5, <2>2, <3>2, <3>3, <3>4
  <2>3. i <= Available \/ i > Available
    BY <1>2
  <2>4. QED
    BY <2>1, <2>2, <2>3
<1>7. FifoExact'
  BY <1>4, <1>5, <1>6 DEF FifoExact
<1>8. Len(content') <= capacity - 1
  BY <1>2, <1>5 DEF Cells, Sizes
<1>9. QED
  BY <1>1, <1>2, <1>3, <1>4, <1>5, <1>7, <1>8
-------------------------------------------------------------------------------
(* The steps *)

\* The fifo is as it is seen while nobody moves an index.
LEMMA SameRoom ==
    ASSUME UNCHANGED <<head, tail>>
    PROVE  Available' = Available /\ Space' = Space
BY DEF Available, Space

\* A step of the producer that moves no index and stores nothing.
LEMMA ProducerOnly ==
    ASSUME IInv, UNCHANGED <<overwriting, buffer, head, tail, cons, next, content, got>>,
           prod' \in [at : {"idle", "store", "skip"}, n : Cells, i : Nat], ProdInv'
    PROVE  IInv' /\ FifoStep
<1>1. Available' = Available
  BY SameRoom
<1>2. TypeInv'
  BY DEF IInv, TypeInv
<1>3. FifoExact'
  BY <1>1 DEF IInv, FifoExact, Wrap
<1>4. ConsInv'
  BY <1>1 DEF IInv, ConsInv
<1>5. QED
  BY <1>2, <1>3, <1>4 DEF IInv, FifoStep

\* A write that begins fits, or will when it has skipped.
LEMMA BeginWriteSafe ==
    ASSUME Sizes, ~Races, IInv, NEW n \in 1..capacity, BeginWrite(n) \/ BeginWriteRun(n)
    PROVE  IInv' /\ FifoStep
<1>1. /\ Available \in Cells /\ Space = capacity - 1 - Available /\ Space \in Cells
      /\ WriteRun <= Space /\ WriteRun \in Int
  <2>1. head \in Cells /\ tail \in Cells
    BY DEF IInv, TypeInv
  <2>2. /\ Available \in Cells /\ Space = capacity - 1 - Available
        /\ WriteRun <= Space /\ WriteRun \in Int
    BY <2>1, RoomLeft
  <2>3. Space \in Cells
    BY <2>2 DEF Cells, Sizes
  <2>4. QED
    BY <2>2, <2>3
<1>2. UNCHANGED <<overwriting, buffer, head, tail, cons, next, content, got>> /\ Space' = Space
  BY SameRoom DEF BeginWrite, BeginWriteRun
<1>3. ASSUME NEW m \in 0..Space, prod' = [at |-> "store", n |-> m, i |-> 0]
      PROVE  IInv' /\ FifoStep
  <2>1. m \in Cells
    BY <1>1 DEF Cells, Sizes
  <2>2. ProdInv'
    BY <1>2, <1>3, <2>1 DEF ProdInv, Cells
  <2>3. prod' \in [at : {"idle", "store", "skip"}, n : Cells, i : Nat]
    BY <1>3, <2>1
  <2>4. QED
    BY <1>2, <2>2, <2>3, ProducerOnly
<1>4. ASSUME n > Space, overwriting, ConsumerQuiet,
             prod' = [at |-> "skip", n |-> Usable(n), i |-> Usable(n - Space)]
      PROVE  IInv' /\ FifoStep
  <2>1. Usable(n) \in Cells /\ Usable(n - Space) \in Nat /\ Usable(n) - Space <= Usable(n - Space)
    BY <1>1, <1>4 DEF Usable, Cells, Sizes
  <2>2. ProdInv'
    BY <1>2, <1>4, <2>1 DEF ProdInv, ConsumerQuiet
  <2>3. prod' \in [at : {"idle", "store", "skip"}, n : Cells, i : Nat]
    BY <1>4, <2>1
  <2>4. QED
    BY <1>2, <2>2, <2>3, ProducerOnly
<1>5. CASE BeginWriteRun(n)
  <2>1. n \in 0..Space
    BY <1>1, <1>5 DEF BeginWriteRun, Cells, Sizes
  <2>2. QED
    BY <1>3, <1>5, <2>1 DEF BeginWriteRun
<1>6. CASE BeginWrite(n)
  <2>1. (IF n > Space THEN Space ELSE n) \in 0..Space
    BY <1>1 DEF Cells, Sizes
  <2>2. QED
    BY <1>3, <1>4, <1>6, <2>1 DEF BeginWrite
<1>7. QED
  BY <1>5, <1>6

\* What is skipped makes room for the write.
LEMMA SkipOldestSafe ==
    ASSUME Sizes, IInv, SkipOldest
    PROVE  IInv' /\ FifoStep
<1> DEFINE k == IF prod.i > Available THEN Available ELSE prod.i
<1>1. /\ prod.at = "skip" /\ tail' = Wrap(tail + k)
      /\ content' = SubSeq(content, k + 1, Len(content))
      /\ prod' = [prod EXCEPT !.at = "store", !.i = 0]
      /\ UNCHANGED <<overwriting, buffer, head, cons, next, got>>
  BY DEF SkipOldest
<1>2. /\ Available \in Cells /\ Space = capacity - 1 - Available /\ prod.n \in Cells
      /\ prod.i \in Nat
  BY RoomLeft DEF IInv, TypeInv
<1>3. k \in 0..Available
  BY <1>2 DEF Cells, Sizes
<1> HIDE DEF k
<1>4. /\ tail' \in Cells /\ content' \in Seq(Item) /\ FifoExact'
      /\ Space' = Space + k
  BY <1>1, <1>3, TailMoves DEF IInv
<1>5. overwriting /\ cons.at = "idle" /\ prod.n - Space <= prod.i
  BY <1>1 DEF IInv, ProdInv
<1>6. prod.n <= Space'
  BY <1>2, <1>4, <1>5 DEF k, Cells, Sizes
<1>7. /\ prod'.at = "store" /\ prod'.n = prod.n /\ prod'.i = 0
      /\ prod' \in [at : {"idle", "store", "skip"}, n : Cells, i : Nat]
  BY <1>1 DEF IInv, TypeInv
<1>8. TypeInv'
  BY <1>1, <1>4, <1>7 DEF IInv, TypeInv
<1>9. ProdInv'
  BY <1>2, <1>6, <1>7 DEF ProdInv, Cells
<1>10. ConsInv'
  BY <1>1, <1>5 DEF IInv, ConsInv
<1>11. FifoStep
  BY <1>5 DEF FifoStep
<1>12. QED
  BY <1>4, <1>8, <1>9, <1>10, <1>11 DEF IInv

\* An element is stored outside what is in the fifo and what was stored before it.
LEMMA StoreSafe ==
    ASSUME Sizes, IInv, Store
    PROVE  IInv' /\ FifoStep
<1>1. /\ prod.at = "store" /\ prod.i < prod.n
      /\ buffer' = [buffer EXCEPT ![Wrap(head + prod.i)] = Value(prod.i)]
      /\ prod' = [prod EXCEPT !.i = @ + 1]
      /\ UNCHANGED <<overwriting, head, tail, cons, next, content, got>>
  BY DEF Store
<1>2. /\ Available \in Cells /\ Space = capacity - 1 - Available
      /\ head \in Cells /\ tail \in Cells /\ prod.n \in Cells /\ prod.i \in Nat
      /\ Available' = Available /\ Space' = Space /\ Len(content) = Available
      /\ prod.n <= Space /\ buffer \in [Cells -> Item] /\ next \in Item
  BY <1>1, RoomLeft, SameRoom DEF IInv, TypeInv, ProdInv, FifoExact
<1>22. /\ Available \in Nat /\ prod.n \in Nat /\ prod.i \in Nat /\ prod.i < prod.n
      /\ prod.n <= capacity - 1 - Available /\ capacity \in Nat
  <2>1. Cells = 0..(capacity - 1) /\ capacity \in Nat
    BY DEF Cells, Sizes
  <2>2. QED
    BY <1>1, <1>2, <2>1
<1>3. Value(prod.i) \in Item
  <2>1. Items \in Nat \ {0} /\ next + prod.i \in Int
    BY <1>2 DEF Sizes, Item
  <2>2. (next + prod.i) % Items \in 0..(Items - 1)
    BY <2>1, ModAdd
  <2>3. QED
    BY <2>2 DEF Value, Item
<1> DEFINE new == Wrap(tail + (Available + prod.i))
<1>4. Wrap(head + prod.i) = new /\ new \in Cells /\ Available + prod.i \in Cells
  <2>1. prod.i \in Int /\ Available + prod.i \in Cells
    BY <1>22 DEF Cells
  <2>2. QED
    BY <1>2, <2>1, Ahead
<1>5. ASSUME NEW d \in Cells, d # Available + prod.i
      PROVE  buffer'[Wrap(tail + d)] = buffer[Wrap(tail + d)] /\ Wrap(tail + d) \in Cells
  <2>1. Wrap(tail + d) \in Cells /\ Wrap(tail + d) # new
    BY <1>2, <1>4, <1>5, Apart, GapOf
  <2>2. QED
    BY <1>1, <1>2, <1>4, <2>1
<1>6. FifoExact'
  <2>1. ASSUME NEW k \in 1..Len(content)
        PROVE  buffer'[Wrap(tail + k - 1)] = content[k]
    <3>1. k - 1 \in Cells /\ k - 1 # Available + prod.i /\ tail + (k - 1) = tail + k - 1
      BY <1>2 DEF Cells, Sizes
    <3>2. buffer'[Wrap(tail + (k - 1))] = buffer[Wrap(tail + (k - 1))]
      BY <1>5, <3>1
    <3>3. buffer[Wrap(tail + k - 1)] = content[k]
      BY DEF IInv, FifoExact
    <3>4. QED
      BY <3>1, <3>2, <3>3
  <2>2. QED
    BY <1>1, <1>2, <2>1 DEF FifoExact, Wrap
<1>7. /\ prod'.at = "store" /\ prod'.n = prod.n /\ prod'.i = prod.i + 1
      /\ prod' \in [at : {"idle", "store", "skip"}, n : Cells, i : Nat]
  BY SMTT(40), <1>1, <1>2 DEF IInv, TypeInv
<1>8. ASSUME NEW k \in 0..prod.i PROVE buffer'[Wrap(head + k)] = Value(k)
  <2>1. k \in Int /\ Available + k \in Cells
    BY <1>22 DEF Cells
  <2>2. Wrap(head + k) = Wrap(tail + (Available + k))
    BY <1>2, <2>1, Ahead
  <2>3. CASE k = prod.i
    BY <1>1, <1>2, <1>4, <2>3
  <2>4. CASE k # prod.i
    <3>0. k \in 0..(prod.i - 1) /\ Available + k # Available + prod.i
      BY <1>22, <2>4
    <3>1. buffer[Wrap(head + k)] = Value(k)
      BY <1>1, <3>0 DEF IInv, ProdInv
    <3>2. buffer'[Wrap(tail + (Available + k))] = buffer[Wrap(tail + (Available + k))]
      BY <1>5, <2>1, <3>0
    <3>3. QED
      BY <2>2, <3>1, <3>2
  <2>5. QED
    BY <2>3, <2>4
<1>9. ProdInv'
  <2>1. prod'.i - 1 = prod.i /\ prod'.n <= Space' /\ prod'.i <= prod'.n
    BY <1>1, <1>2, <1>7 DEF Cells
  <2>2. \A k \in 0..(prod'.i - 1) : buffer'[Wrap(head' + k)] = Value(k)'
    BY <1>1, <1>8, <2>1, Zenon DEF Value
  <2>3. prod'.at # "skip"
    BY <1>7
  <2>4. QED
    BY <2>1, <2>2, <2>3, Zenon DEF ProdInv, Wrap, Value
<1>10. TypeInv'
  <2>1. buffer' \in [Cells -> Item]
    BY <1>1, <1>2, <1>3
  <2>2. QED
    BY <1>1, <1>7, <2>1 DEF IInv, TypeInv
<1>11. ConsInv'
  BY <1>1, <1>2 DEF IInv, ConsInv
<1>12. FifoStep
  BY <1>1 DEF FifoStep
<1>13. QED
  BY <1>6, <1>9, <1>10, <1>11, <1>12 DEF IInv

\* The elements that are in place join the fifo, behind those a read is copying.
LEMMA CommitWriteSafe ==
    ASSUME Sizes, IInv, CommitWrite
    PROVE  IInv' /\ FifoStep
<1> DEFINE n == prod.n
           s == [k \in 1..n |-> Value(k - 1)]
<1>1. /\ prod.at = "store" /\ prod.i = n /\ head' = Wrap(head + n) /\ content' = content \o s
      /\ next' = Value(n) /\ prod' = [at |-> "idle", n |-> 0, i |-> 0]
      /\ UNCHANGED <<overwriting, buffer, tail, cons, got>>
  BY DEF CommitWrite, Published
<1>2. /\ n \in Nat /\ n <= Space /\ next \in Item /\ Available \in Cells
      /\ Len(content) = Available /\ content \in Seq(Item) /\ 0 \in Cells
  <2>1. n \in Cells /\ n <= Space /\ next \in Item /\ Available \in Cells
        /\ Len(content) = Available /\ content \in Seq(Item)
    BY <1>1, RoomLeft DEF IInv, TypeInv, ProdInv, FifoExact
  <2>2. QED
    BY <2>1 DEF Cells, Sizes
<1>3. ASSUME NEW k \in Nat PROVE Value(k) \in Item
  BY <1>2 DEF Value, Item, Sizes
<1>4. s \in Seq(Item) /\ Len(s) = n
  <2>1. s \in [1..n -> Item]
    BY <1>2, <1>3
  <2>2. QED
    BY <1>2, <2>1, FcnIsSeq
<1>5. ASSUME NEW k \in 1..n PROVE buffer[Wrap(head + (k - 1))] = s[k]
  <2>1. k - 1 \in 0..(prod.i - 1)
    BY <1>1, <1>2
  <2>2. buffer[Wrap(head + (k - 1))] = Value(k - 1)
    BY <1>1, <2>1 DEF IInv, ProdInv
  <2>3. QED
    BY <2>2
<1> HIDE DEF n, s
<1>6. /\ head' \in Cells /\ content' \in Seq(Item) /\ FifoExact'
      /\ Available' = Available + n
      /\ Len(content') = Len(content) + n /\ Len(content') <= capacity - 1
      /\ \A i \in 1..Len(content) : content'[i] = content[i]
  BY <1>1, <1>2, <1>4, <1>5, HeadMoves DEF IInv
<1>7. TypeInv'
  BY <1>1, <1>2, <1>3, <1>6 DEF IInv, TypeInv
<1>8. ProdInv'
  BY <1>1 DEF ProdInv
<1>9. ConsInv'
  <2>1. cons.at = "idle" => cons.copy = <<>>
    BY DEF IInv, ConsInv
  <2>2. ASSUME cons.at = "load"
        PROVE  /\ cons.from = tail /\ cons.n \in 1..Available' /\ Len(cons.copy) <= cons.n
               /\ \A k \in 1..Len(cons.copy) : cons.copy[k] = content'[k]
    <3>1. /\ cons.from = tail /\ cons.n \in 1..Available /\ Len(cons.copy) <= cons.n
          /\ \A k \in 1..Len(cons.copy) : cons.copy[k] = content[k]
      BY <2>2 DEF IInv, ConsInv
    <3>2. Len(cons.copy) \in Nat /\ Available \in Nat
      BY <1>2, LenProperties DEF IInv, TypeInv, Cells, Sizes
    <3>3. cons.n \in 1..Available'
      BY <1>2, <1>6, <3>1, <3>2
    <3>4. ASSUME NEW k \in 1..Len(cons.copy) PROVE cons.copy[k] = content'[k]
      <4>1. k \in 1..Len(content)
        BY <1>2, <3>1, <3>2
      <4>2. QED
        BY <1>6, <3>1, <4>1
    <3>5. QED
      BY <3>1, <3>3, <3>4
  <2>3. QED
    BY <1>1, <2>1, <2>2 DEF ConsInv
<1>10. FifoStep
  <2>1. CASE n = 0
    <3>1. content' = content
      BY <1>2, <1>6, <2>1, SeqEqual
    <3>2. QED
      BY <1>1, <3>1 DEF FifoStep
  <2>2. CASE n # 0
    <3>1. Len(content') > Len(content)
      BY <1>2, <1>6, <2>2, LenProperties
    <3>2. SubSeq(content', 1, Len(content)) = content
      <4>1. /\ Len(content) \in Nat /\ 1 \in 1..(Len(content') + 1)
            /\ Len(content) \in 0..Len(content')
        BY <1>2, <1>6, LenProperties
      <4>2. /\ SubSeq(content', 1, Len(content)) \in Seq(Item)
            /\ Len(SubSeq(content', 1, Len(content))) = Len(content)
            /\ \A i \in 1..Len(content) : SubSeq(content', 1, Len(content))[i] = content'[i]
        BY <1>6, <4>1, SubSeqProperties
      <4>3. QED
        BY <1>2, <1>6, <4>2, SeqEqual
    <3>3. \A i \in DOMAIN content' : content'[i] \in Item
      BY <1>6, LenProperties, ElementOfSeq
    <3>4. F!Put
      BY <1>1, <1>6, <3>1, <3>2, <3>3 DEF F!Put, Item
    <3>5. QED
      BY <3>4 DEF FifoStep
  <2>3. QED
    BY <2>1, <2>2
<1>11. QED
  BY <1>6, <1>7, <1>8, <1>9, <1>10 DEF IInv

\* A step of the consumer that moves no index.
LEMMA ConsumerOnly ==
    ASSUME IInv, UNCHANGED <<overwriting, buffer, head, tail, prod, next, content, got>>,
           cons' \in [at : {"idle", "load"}, n : Nat, from : Cells, copy : Seq(Item)],
           ConsInv', prod.at # "skip" \/ cons'.at = "idle"
    PROVE  IInv' /\ FifoStep
<1>1. Available' = Available /\ Space' = Space
  BY SameRoom
<1>2. TypeInv'
  BY DEF IInv, TypeInv
<1>3. FifoExact'
  BY <1>1 DEF IInv, FifoExact, Wrap
<1>4. ProdInv'
  BY <1>1, Zenon DEF IInv, ProdInv, Wrap, Value
<1>5. QED
  BY <1>2, <1>3, <1>4 DEF IInv, FifoStep

\* A read that begins takes no more than is there.
LEMMA BeginReadSafe ==
    ASSUME Sizes, ~Races, IInv, NEW n \in 1..capacity,
           BeginRead(n, Available) \/ BeginRead(n, ReadRun)
    PROVE  IInv' /\ FifoStep
<1>1. PICK limit \in {Available, ReadRun} : BeginRead(n, limit)
  OBVIOUS
<1>2. /\ ProducerQuiet /\ limit > 0
      /\ cons' = [at |-> "load", n |-> IF n > limit THEN limit ELSE n, from |-> tail, copy |-> <<>>]
      /\ UNCHANGED <<overwriting, buffer, head, tail, prod, next, content, got>>
  BY <1>1 DEF BeginRead
<1>3. Available \in Nat /\ limit \in Int /\ limit <= Available /\ tail \in Cells
  <2>1. head \in Cells /\ tail \in Cells
    BY DEF IInv, TypeInv
  <2>2. /\ Available \in Cells /\ Space = capacity - 1 - Available
        /\ ReadRun <= Available /\ ReadRun \in Int
    BY <2>1, RoomLeft
  <2>3. Available \in Nat
    BY <2>2 DEF Cells
  <2>4. QED
    BY <1>1, <2>1, <2>2, <2>3
<1> DEFINE m == IF n > limit THEN limit ELSE n
<1>4. m \in 1..Available
  BY <1>2, <1>3
<1> HIDE DEF m
<1>5. /\ cons'.at = "load" /\ cons'.n = m /\ cons'.from = tail /\ cons'.copy = <<>>
      /\ cons' \in [at : {"idle", "load"}, n : Nat, from : Cells, copy : Seq(Item)]
  <2>1. m \in Nat /\ <<>> \in Seq(Item)
    BY <1>3, <1>4
  <2>2. QED
    BY <1>2, <1>3, <2>1 DEF m
<1>6. ConsInv'
  <2>1. Available' = Available
    BY <1>2, SameRoom
  <2>2. Len(<<>>) = 0 /\ 1..0 = {}
    OBVIOUS
  <2>3. QED
    BY <1>2, <1>3, <1>4, <1>5, <2>1, <2>2 DEF ConsInv
<1>7. prod.at # "skip"
  BY <1>2 DEF ProducerQuiet, IInv, ProdInv
<1>8. QED
  BY <1>2, <1>5, <1>6, <1>7, ConsumerOnly

\* An element is copied from where it still is.
LEMMA LoadSafe ==
    ASSUME Sizes, IInv, Load
    PROVE  IInv' /\ FifoStep
<1> DEFINE c == Len(cons.copy)
           x == buffer[Wrap(cons.from + c)]
<1>1. /\ cons.at = "load" /\ c < cons.n /\ cons' = [cons EXCEPT !.copy = Append(cons.copy, x)]
      /\ UNCHANGED <<overwriting, buffer, head, tail, prod, next, content, got>>
  BY DEF Load
<1>2. /\ cons.from = tail /\ cons.n \in 1..Available /\ cons.copy \in Seq(Item)
      /\ \A k \in 1..c : cons.copy[k] = content[k]
      /\ Available \in Cells /\ Len(content) = Available /\ content \in Seq(Item)
      /\ prod.at # "skip" /\ tail \in Cells
  BY <1>1, RoomLeft DEF IInv, ConsInv, ProdInv, FifoExact, TypeInv
<1>3. c \in Nat /\ c + 1 \in 1..Len(content) /\ Available \in Nat /\ tail \in Int
  BY <1>1, <1>2, LenProperties, SMTT(30) DEF Cells, Sizes
<1>4. x = content[c + 1] /\ x \in Item
  <2>1. tail + (c + 1) - 1 = tail + c
    BY <1>3
  <2>2. buffer[Wrap(tail + (c + 1) - 1)] = content[c + 1]
    BY <1>3 DEF IInv, FifoExact
  <2>3. content[c + 1] \in Item
    BY <1>2, <1>3, ElementOfSeq
  <2>4. QED
    BY <1>2, <2>1, <2>2, <2>3
<1> HIDE DEF x
<1>5. /\ Append(cons.copy, x) \in Seq(Item) /\ Len(Append(cons.copy, x)) = c + 1
      /\ \A k \in 1..(c + 1) : Append(cons.copy, x)[k] = content[k]
  <2>1. /\ Append(cons.copy, x) \in Seq(Item) /\ Len(Append(cons.copy, x)) = c + 1
        /\ \A k \in 1..c : Append(cons.copy, x)[k] = cons.copy[k]
        /\ Append(cons.copy, x)[c + 1] = x
    BY <1>2, <1>4, AppendProperties
  <2>2. ASSUME NEW k \in 1..(c + 1) PROVE k = c + 1 \/ k \in 1..c
    BY <1>3
  <2>3. QED
    BY <1>2, <1>4, <2>1, <2>2
<1>6. /\ cons'.at = "load" /\ cons'.n = cons.n /\ cons'.from = tail
      /\ cons'.copy = Append(cons.copy, x)
      /\ cons' \in [at : {"idle", "load"}, n : Nat, from : Cells, copy : Seq(Item)]
  BY <1>1, <1>2, <1>5 DEF IInv, TypeInv
<1>7. ConsInv'
  <2>1. Available' = Available
    BY <1>1, SameRoom
  <2>2. c + 1 <= cons.n
    BY <1>1, <1>2, <1>3
  <2> HIDE DEF c
  <2>3. QED
    BY <1>1, <1>2, <1>5, <1>6, <2>1, <2>2 DEF ConsInv
<1>8. QED
  BY <1>1, <1>2, <1>6, <1>7, ConsumerOnly

\* The tail moves up: room for the producer, and the read is what the channel delivers.
LEMMA ReadEnds ==
    ASSUME Sizes, IInv, NEW n \in 1..Available,
           tail' = Wrap(tail + n), content' = SubSeq(content, n + 1, Len(content)),
           got' = SubSeq(content, 1, n), UNCHANGED <<overwriting, buffer, head, prod, next>>,
           cons' \in [at : {"idle", "load"}, n : Nat, from : Cells, copy : Seq(Item)],
           cons'.at = "idle", cons'.copy = <<>>, prod.at # "skip"
    PROVE  IInv' /\ FifoStep
<1>1. /\ Available \in Cells /\ Len(content) = Available /\ content \in Seq(Item)
      /\ Space \in Int /\ head \in Cells /\ Available \in Nat
  BY RoomLeft DEF IInv, TypeInv, FifoExact, Cells, Sizes
<1>2. n \in 0..Available /\ n \in Nat
  BY <1>1
<1>3. /\ tail' \in Cells /\ content' \in Seq(Item) /\ FifoExact' /\ Space' = Space + n
  BY <1>2, TailMoves DEF IInv
<1>4. got' \in Seq(Item)
  <2>1. 1 \in 1..(Len(content) + 1) /\ n \in 0..Len(content)
    BY <1>1, <1>2
  <2>2. QED
    BY <1>1, <2>1, SubSeqProperties
<1>5. TypeInv'
  BY <1>3, <1>4 DEF IInv, TypeInv
<1>6. ProdInv'
  <2>1. prod.at = "store" => prod.n <= Space'
    BY <1>1, <1>2, <1>3, SMTT(30) DEF IInv, ProdInv, TypeInv, Cells, Sizes
  <2>2. QED
    BY <2>1, Zenon DEF IInv, ProdInv, Wrap, Value
<1>7. ConsInv'
  BY DEF ConsInv
<1>8. F!Get
  BY <1>1 DEF F!Get
<1>9. QED
  BY <1>3, <1>5, <1>6, <1>7, <1>8 DEF IInv, FifoStep

\* A read delivers the elements it copied.
LEMMA CommitReadSafe ==
    ASSUME Sizes, IInv, CommitRead
    PROVE  IInv' /\ FifoStep
<1>1. /\ cons.at = "load" /\ Len(cons.copy) = cons.n /\ tail' = Wrap(cons.from + cons.n)
      /\ got' = cons.copy /\ content' = SubSeq(content, cons.n + 1, Len(content))
      /\ cons' = [at |-> "idle", n |-> 0, from |-> 0, copy |-> <<>>]
      /\ UNCHANGED <<overwriting, buffer, head, prod, next>>
  BY DEF CommitRead, Copied
<1>2. /\ cons.from = tail /\ cons.n \in 1..Available /\ cons.copy \in Seq(Item)
      /\ \A k \in 1..Len(cons.copy) : cons.copy[k] = content[k]
      /\ Available \in Cells /\ Len(content) = Available /\ content \in Seq(Item)
      /\ prod.at # "skip"
  BY <1>1, RoomLeft DEF IInv, ConsInv, ProdInv, FifoExact, TypeInv
<1>3. cons.copy = SubSeq(content, 1, cons.n)
  <2>1. 1 \in 1..(Len(content) + 1) /\ cons.n \in 0..Len(content)
    BY <1>2 DEF Cells, Sizes
  <2>2. /\ SubSeq(content, 1, cons.n) \in Seq(Item) /\ Len(SubSeq(content, 1, cons.n)) = cons.n
        /\ \A k \in 1..cons.n : SubSeq(content, 1, cons.n)[k] = content[k]
    BY <1>2, <2>1, SubSeqProperties
  <2>3. QED
    BY <1>1, <1>2, <2>2, SeqEqual
<1>4. /\ cons' \in [at : {"idle", "load"}, n : Nat, from : Cells, copy : Seq(Item)]
      /\ cons'.at = "idle" /\ cons'.copy = <<>>
  BY <1>1 DEF Cells, Sizes
<1>5. QED
  BY <1>1, <1>2, <1>3, <1>4, ReadEnds

\* A skip takes elements as a read does.
LEMMA SkipReadSafe ==
    ASSUME Sizes, ~Races, IInv, NEW n \in 1..capacity, SkipRead(n)
    PROVE  IInv' /\ FifoStep
<1>1. /\ n \in 1..Available /\ prod.at # "skip"
      /\ cons.at = "idle" /\ cons.copy = <<>>
      /\ cons \in [at : {"idle", "load"}, n : Nat, from : Cells, copy : Seq(Item)]
  BY RoomLeft DEF IInv, TypeInv, ConsInv, ProdInv, SkipRead, ProducerQuiet, Cells, Sizes
<1>2. QED
  BY <1>1, ReadEnds DEF SkipRead

\* A peek leaves the fifo as it was.
LEMMA EndPeekSafe ==
    ASSUME Sizes, IInv, EndPeek
    PROVE  IInv' /\ FifoStep
<1>1. cons' = [at |-> "idle", n |-> 0, from |-> 0, copy |-> <<>>]
  BY DEF EndPeek
<1>2. cons' \in [at : {"idle", "load"}, n : Nat, from : Cells, copy : Seq(Item)]
  BY <1>1 DEF Cells, Sizes
<1>3. ConsInv' /\ cons'.at = "idle"
  BY <1>1 DEF ConsInv
<1>4. QED
  BY <1>2, <1>3, ConsumerOnly DEF EndPeek

\* A new fifo is empty.
LEMMA InitSafe ==
    ASSUME Sizes, Init
    PROVE  IInv
<1>1. 0 \in Cells /\ 0 \in Item /\ <<>> \in Seq(Item) /\ Len(<<>>) = 0
  BY DEF Cells, Item, Sizes
<1>2. TypeInv
  <2>1. buffer \in [Cells -> Item]
    BY <1>1 DEF Init, Cells
  <2>2. overwriting \in BOOLEAN
    BY DEF Init
  <2>3. prod \in [at : {"idle", "store", "skip"}, n : Cells, i : Nat]
    BY <1>1 DEF Init
  <2>4. cons \in [at : {"idle", "load"}, n : Nat, from : Cells, copy : Seq(Item)]
    BY <1>1 DEF Init
  <2>5. QED
    BY <1>1, <2>1, <2>2, <2>3, <2>4 DEF Init, TypeInv
<1>3. FifoExact
  BY <1>1 DEF Init, FifoExact, Available
<1>4. ProdInv /\ ConsInv
  BY DEF Init, ProdInv, ConsInv
<1>5. QED
  BY <1>2, <1>3, <1>4 DEF IInv

\* Every step keeps the invariant and is one of the channel's or none.
LEMMA StepSafe ==
    ASSUME Sizes, ~Races, IInv, [Next]_fifo_vars
    PROVE  IInv' /\ [FifoStep]_fifo_vars
<1>1. CASE Next
  BY <1>1, BeginWriteSafe, SkipOldestSafe, StoreSafe, CommitWriteSafe, BeginReadSafe, LoadSafe,
     CommitReadSafe, EndPeekSafe, SkipReadSafe DEF Next
<1>2. CASE UNCHANGED fifo_vars
  <2>1. UNCHANGED <<overwriting, buffer, head, tail, cons, next, content, got, prod>>
    BY <1>2 DEF fifo_vars
  <2>2. ProdInv'
    <3>1. Space' = Space
      BY <2>1, SameRoom
    <3>2. QED
      BY <2>1, <3>1, Zenon DEF IInv, ProdInv, Wrap, Value
  <2>3. prod' \in [at : {"idle", "store", "skip"}, n : Cells, i : Nat]
    BY <2>1 DEF IInv, TypeInv
  <2>4. QED
    BY <1>2, <2>1, <2>2, <2>3, ProducerOnly
<1>3. QED
  BY <1>1, <1>2

\* What a read has copied is the front of the fifo.
LEMMA CopyRight ==
    ASSUME Sizes, IInv
    PROVE  CopyIsFront
<1>1. /\ Len(content) = Available /\ content \in Seq(Item) /\ Available \in Nat
      /\ cons.copy \in Seq(Item) /\ Len(cons.copy) \in Nat
  BY RoomLeft, LenProperties DEF IInv, TypeInv, FifoExact, Cells, Sizes
<1>2. /\ Len(cons.copy) <= Available
      /\ \A k \in 1..Len(cons.copy) : cons.copy[k] = content[k]
  <2>1. CASE cons.at = "load"
    BY <1>1, <2>1 DEF IInv, ConsInv
  <2>2. CASE cons.at = "idle"
    <3>1. cons.copy = <<>> /\ Len(cons.copy) = 0
      BY <2>2 DEF IInv, ConsInv
    <3>2. QED
      BY <1>1, <3>1
  <2>3. QED
    BY <2>1, <2>2 DEF IInv, TypeInv
<1>3. 1 \in 1..(Len(content) + 1) /\ Len(cons.copy) \in 0..Len(content)
  BY <1>1, <1>2
<1> DEFINE r == SubSeq(content, 1, Len(cons.copy))
<1>4. r \in Seq(Item) /\ Len(r) = Len(cons.copy) /\ \A k \in 1..Len(cons.copy) : r[k] = content[k]
  BY <1>1, <1>3, SubSeqProperties
<1>5. cons.copy = r
  BY <1>1, <1>2, <1>4, SeqEqual
<1>6. QED
  BY <1>1, <1>2, <1>5 DEF CopyIsFront

\* Whatever the capacity, the fifo holds what was written and not yet read, the copy a read
\* is making is not stored over, and each load, store and move of an index is a put, a get
\* or no step of the bounded channel (spsc_write, spsc_read, spsc_skip, spsc_commit_write,
\* spsc_commit_read), as long as no overwriting write runs into a read.
THEOREM SpscImplementsFifo ==
    ASSUME Sizes, ~Races
    PROVE  Spec => SpscIsFifo
<1>1. Init => IInv
  BY InitSafe
<1>2. IInv /\ [Next]_fifo_vars => IInv' /\ [FifoStep]_fifo_vars
  BY StepSafe
<1>3. IInv => FifoExact /\ CopyIsFront
  BY CopyRight DEF IInv
<1>4. QED
  BY <1>1, <1>2, <1>3, PTL DEF Spec, SpscIsFifo, DropIsFifo
------------------------------------------------------------------------------
(* Byte streams *)

\* A transfer ends before its sender stops waiting for it, and a reader takes all there is.
Timely == StreamBounds /\ ~LateDone /\ ~PartialReads

Index == 0..(TX - 1)
Bytes == 0..TX

\* Positions of the queue before or after they wrap, and how far its head is ahead.
Around(a) == IF a < TX THEN a ELSE a - TX
Taken == IF tx_head >= tx_tail THEN tx_head - tx_tail ELSE tx_head - tx_tail + TX

StreamType ==
    /\ backend \in {"cdc", "uart"} /\ txq \in [Index -> Bytes]
    /\ tx_head \in Index /\ tx_tail \in Index
    /\ rx_head \in 0..(RX - 1) /\ rx_tail \in 0..(RX - 1)
    /\ tx_kick \in {0, 1} /\ rx_ready \in {0, 1} /\ tx_done \in {0, 1}
    /\ sender \in [at : {"look", "take", "asleep", "run", "tx", "free"}, n : Nat]
    /\ tx_dma \in SUBSET Index /\ listener \in {"awake", "asleep"}
    /\ queued \in Seq(Bytes) /\ flight \in Seq(Bytes) /\ last_byte \in Bytes

\* What was taken is the run that is being sent and the queue behind it.
SendingOk ==
    /\ Len(queued) + sender.n = Taken
    /\ tx_tail + sender.n <= TX
    /\ sender.at \in {"tx", "free"} => sender.n > 0
    /\ sender.at \notin {"tx", "free"} => sender.n = 0
    /\ flight # <<>> => Len(flight) = sender.n
    /\ sender.at # "tx" => tx_dma = {} /\ tx_done = 0
    /\ tx_done = 1 \/ backend = "cdc" => tx_dma = {}
    /\ tx_dma # {} => tx_dma = {i \in Index : tx_tail <= i /\ i < tx_tail + sender.n}

ContentOk ==
    /\ \A k \in 1..Len(flight) : txq[tx_tail + k - 1] = flight[k]
    /\ \A k \in 1..Len(queued) : txq[Around(tx_tail + sender.n + k - 1)] = queued[k]

\* Who sleeps has no work; who is about to has none or a signal.
SleepOk ==
    /\ sender.at = "asleep" => tx_head = tx_tail
    /\ sender.at = "take" /\ tx_head # tx_tail => tx_kick = 1
    /\ listener = "asleep" => rx_head = rx_tail

StreamInv == StreamType /\ SendingOk /\ ContentOk /\ SleepOk

\* Positions wrap at most once.
LEMMA WrapsOnce ==
    ASSUME StreamBounds, NEW a \in 0..(2 * TX - 1)
    PROVE  a % TX = Around(a) /\ Around(a) \in Index
<1>1. TX \in Nat \ {0} /\ a \in Int
  BY DEF StreamBounds
<1>2. CASE a < TX
  <2>1. a \in 0..(TX - 1)
    BY <1>1, <1>2
  <2>2. QED
    BY <1>1, <1>2, <2>1, ModSmall DEF Around, Index
<1>3. CASE a >= TX
  <2>1. a - TX \in 0..(TX - 1)
    BY <1>1, <1>3
  <2>2. PICK b \in Int : b = a - TX
    BY <1>1
  <2>3. \A k \in Int : (b + TX * k) % TX = b % TX
    BY <1>1, ModShift
  <2>4. b + TX * 1 = a /\ b % TX = b
    BY <1>1, <2>1, <2>2, ModSmall
  <2>5. QED
    BY <1>1, <1>3, <2>1, <2>2, <2>3, <2>4 DEF Around, Index
<1>4. QED
  BY <1>1, <1>2, <1>3

\* What the code calls the room is what is left but one slot.
LEMMA RoomIs ==
    ASSUME StreamBounds, StreamType
    PROVE  Room = TX - 1 - Taken /\ Taken \in Index
<1>1. TX \in Nat /\ TX >= 2 /\ tx_head \in 0..(TX - 1) /\ tx_tail \in 0..(TX - 1)
  BY DEF StreamBounds, StreamType, Index
<1>2. tx_tail + TX - tx_head - 1 \in 0..(2 * TX - 1)
  BY <1>1
<1>3. Room = Around(tx_tail + TX - tx_head - 1)
  BY <1>2, WrapsOnce DEF Room
<1>4. QED
  BY <1>1, <1>3 DEF Around, Taken, Index

\* The slots from a position on are those at its offsets.
LEMMA SlotsAre ==
    ASSUME StreamBounds, NEW a \in Index, NEW n \in 0..TX
    PROVE  Slots(a, n) = {Around(a + i) : i \in 0..(n - 1)} /\ Slots(a, n) \in SUBSET Index
<1>1. TX \in Nat /\ TX >= 2 /\ a \in 0..(TX - 1)
  BY DEF StreamBounds, Index
<1>2. \A i \in 0..(n - 1) : (a + i) % TX = Around(a + i) /\ Around(a + i) \in Index
  <2> TAKE i \in 0..(n - 1)
  <2>1. a + i \in 0..(2 * TX - 1)
    BY <1>1
  <2>2. QED
    BY <2>1, WrapsOnce
<1>3. QED
  BY <1>2 DEF Slots

\* The run is contiguous, nonempty when something is queued, and no more than that.
LEMMA RunIs ==
    ASSUME StreamBounds, StreamType
    PROVE  Run \in 0..Taken /\ tx_tail + Run <= TX /\ (Taken > 0 => Run > 0)
BY DEF StreamBounds, StreamType, Index, Run, Taken

\* stream_write: the bytes go behind the queue, into slots that were free.
LEMMA WriteKeeps ==
    ASSUME Timely, StreamInv, NEW len \in 1..Burst, stream_write(len)
    PROVE  StreamInv'
<1>0. PICK n : n = IF len < Room THEN len ELSE Room
  OBVIOUS
<1> DEFINE new == [k \in 1..n |-> Byte(k)]
<1>1. /\ TX \in Nat /\ TX >= 2 /\ len \in Nat /\ len > 0 /\ StreamBounds
      /\ tx_head \in 0..(TX - 1) /\ tx_tail \in 0..(TX - 1) /\ last_byte \in Nat
      /\ queued \in Seq(Bytes) /\ flight \in Seq(Bytes) /\ Len(queued) \in Nat
      /\ Len(flight) \in Nat /\ sender.n \in Nat /\ txq \in [Index -> Bytes]
  BY DEF Timely, StreamBounds, StreamInv, StreamType, Index, Bytes
<1>2. /\ n > 0 /\ n \in Nat /\ Taken \in Nat /\ Taken + n <= TX - 1 /\ n <= TX
  BY SMTT(40), <1>0, <1>1, RoomIs DEF stream_write, StreamInv, Index
<1>3. /\ tx_head' = Around(tx_head + n)
      /\ queued' = queued \o new
      /\ last_byte' = Byte(n)
      /\ txq' = [i \in Index |-> IF i \in Slots(tx_head, n)
                                 THEN Byte(1 + ((i - tx_head + TX) % TX)) ELSE txq[i]]
      /\ UNCHANGED <<backend, tx_tail, tx_done, tx_dma, flight, rx_head, rx_tail, rx_ready, listener>>
  <2>1. tx_head + n \in 0..(2 * TX - 1)
    BY <1>1, <1>2
  <2>2. (tx_head + n) % TX = Around(tx_head + n)
    BY <1>1, <2>1, WrapsOnce
  <2>3. QED
    BY <1>0, <2>2 DEF stream_write, Index, RXV
<1>4. GiveKick
  BY DEF stream_write
<1>5. \A k \in Nat : Byte(k) \in Bytes
  BY <1>1 DEF Byte, Bytes
<1>6. new \in Seq(Bytes) /\ Len(new) = n
  <2>1. new \in [1..n -> Bytes]
    BY <1>2, <1>5
  <2>2. QED
    BY <1>2, <2>1, FcnIsSeq
<1>7. /\ queued' \in Seq(Bytes) /\ Len(queued') = Len(queued) + n
      /\ \A k \in 1..Len(queued) : queued'[k] = queued[k]
      /\ \A k \in 1..n : queued'[Len(queued) + k] = Byte(k)
  <2>1. PICK w \in Seq(Bytes) : w = new /\ Len(w) = n /\ \A k \in 1..n : w[k] = Byte(k)
    BY <1>2, <1>6
  <2>2. queued' = queued \o w
    BY <1>3, <2>1
  <2>3. \A k \in 1..n : (queued \o w)[Len(queued) + k] = w[k]
    BY <1>1, <1>2, <2>1
  <2>4. QED
    BY <1>1, <1>2, <2>1, <2>2, <2>3
<1>8. sender'.n = sender.n /\ sender' \in [at : {"look", "take", "asleep", "run", "tx", "free"}, n : Nat]
      /\ tx_kick' \in {0, 1}
      /\ (sender.at = "asleep" => sender'.at = "run")
      /\ (sender.at # "asleep" => sender' = sender /\ tx_kick' = 1)
  BY <1>4 DEF GiveKick, StreamInv, StreamType
<1>9. Taken' = Taken + n /\ tx_head' \in Index
  BY <1>1, <1>2, <1>3 DEF Taken, Around, Index
<1>10. StreamType'
  <2>1. \A i \in Index : Byte(1 + ((i - tx_head + TX) % TX)) \in Bytes
    <3> TAKE i \in Index
    <3>1. i - tx_head + TX \in 0..(2 * TX - 1)
      BY <1>1 DEF Index
    <3>2. (i - tx_head + TX) % TX \in Nat
      BY <1>1, <3>1, WrapsOnce DEF Index
    <3>3. QED
      BY <1>5, <3>2
  <2>2. txq' \in [Index -> Bytes]
    BY <1>1, <1>3, <2>1
  <2>3. last_byte' \in Bytes
    BY <1>2, <1>3, <1>5
  <2>4. QED
    BY <1>3, <1>7, <1>8, <1>9, <2>2, <2>3 DEF StreamInv, StreamType
<1>11. SendingOk'
  <2>1. /\ Len(queued) + sender.n = Taken /\ tx_tail + sender.n <= TX
        /\ (flight # <<>> => Len(flight) = sender.n)
        /\ (tx_done = 1 \/ backend = "cdc" => tx_dma = {})
        /\ (tx_dma # {} => tx_dma = {i \in Index : tx_tail <= i /\ i < tx_tail + sender.n})
        /\ (sender.at # "tx" => tx_dma = {} /\ tx_done = 0)
        /\ (sender.at \in {"tx", "free"} => sender.n > 0)
        /\ (sender.at \notin {"tx", "free"} => sender.n = 0)
    BY DEF StreamInv, SendingOk
  <2>2. Len(queued') + sender'.n = Taken'
    <3>1. PICK c \in Nat, s \in Nat, g \in Nat : c = Len(queued) /\ s = sender.n /\ g = Taken
      BY <1>1, <1>2
    <3>2. c \in Nat /\ s \in Nat /\ g \in Nat /\ n \in Nat /\ c + s = g
      BY <1>2, <2>1, <3>1
    <3>3. c + n + s = g + n
      BY <3>2
    <3>4. QED
      BY <1>7, <1>8, <1>9, <3>1, <3>3
  <2>3. /\ sender.at = "tx" <=> sender'.at = "tx"
        /\ sender.at \in {"tx", "free"} <=> sender'.at \in {"tx", "free"}
    BY <1>8
  <2>4. QED
    BY <1>3, <1>8, <2>1, <2>2, <2>3 DEF SendingOk
<1>12. ContentOk'
  <2>1. Slots(tx_head, n) = {Around(tx_head + i) : i \in 0..(n - 1)}
    BY <1>1, <1>2, SlotsAre, n \in 0..TX, tx_head \in Index DEF Index
  <2>2. Len(queued) + sender.n = Taken /\ tx_tail + sender.n <= TX
        /\ (flight # <<>> => Len(flight) = sender.n)
    BY DEF StreamInv, SendingOk
  <2>3. \A o \in 0..(Taken - 1) : Around(tx_tail + o) \in Index
                                  /\ Around(tx_tail + o) \notin Slots(tx_head, n)
    BY <1>1, <1>2, <2>1 DEF Around, Taken, Index
  <2>4. ASSUME NEW k \in 1..Len(flight) PROVE txq'[tx_tail + k - 1] = flight[k]
    <3>1. k - 1 \in 0..(Taken - 1) /\ Around(tx_tail + (k - 1)) = tx_tail + k - 1
      BY <1>1, <1>2, <2>2, <2>4 DEF Around
    <3>2. tx_tail + k - 1 \in Index /\ tx_tail + k - 1 \notin Slots(tx_head, n)
      BY <2>3, <3>1
    <3>3. QED
      BY <1>3, <3>2 DEF StreamInv, ContentOk
  <2>5. ASSUME NEW k \in 1..Len(queued)
        PROVE  txq'[Around(tx_tail + sender.n + k - 1)] = queued[k]
    <3>1. sender.n + k - 1 \in 0..(Taken - 1)
          /\ tx_tail + (sender.n + k - 1) = tx_tail + sender.n + k - 1
      <4>1. PICK c \in Nat, s \in Nat, g \in Nat : c = Len(queued) /\ s = sender.n /\ g = Taken
        BY <1>1, <1>2
      <4>2. /\ c \in Nat /\ s \in Nat /\ g \in Nat /\ c + s = g
            /\ k \in Nat /\ 1 <= k /\ k <= c /\ tx_tail \in Nat
        BY <1>1, <1>2, <2>2, <2>5, <4>1
      <4>3. s + k - 1 \in 0..(g - 1) /\ tx_tail + (s + k - 1) = tx_tail + s + k - 1
        BY <4>2
      <4>4. QED
        BY <4>1, <4>3
    <3>2. Around(tx_tail + sender.n + k - 1) \in Index \ Slots(tx_head, n)
      BY <2>3, <3>1
    <3>3. QED
      BY <1>3, <3>2 DEF StreamInv, ContentOk
  <2>6. ASSUME NEW j \in 1..n
        PROVE  txq'[Around(tx_tail + sender.n + (Len(queued) + j) - 1)] = Byte(j)
    <3> DEFINE i == Around(tx_head + (j - 1))
    <3>1. Around(tx_tail + sender.n + (Len(queued) + j) - 1) = i /\ i \in Index
      <4>1. tx_tail + sender.n + (Len(queued) + j) - 1 = tx_tail + Taken + (j - 1)
        <5>1. PICK c \in Nat, s \in Nat, g \in Nat : c = Len(queued) /\ s = sender.n /\ g = Taken
          BY <1>1, <1>2
        <5>2. c \in Nat /\ s \in Nat /\ g \in Nat /\ j \in Nat /\ tx_tail \in Nat /\ c + s = g
          BY <1>1, <1>2, <2>2, <2>6, <5>1
        <5>3. tx_tail + s + (c + j) - 1 = tx_tail + g + (j - 1)
          BY <5>2
        <5>4. QED
          BY <5>1, <5>3
      <4>2. Around(tx_tail + Taken + (j - 1)) = i /\ i \in Index
        BY <1>1, <1>2, <2>6 DEF Around, Taken, Index
      <4>3. QED
        BY <4>1, <4>2
    <3>2. i \in Slots(tx_head, n)
      BY <1>2, <2>1
    <3>3. (i - tx_head + TX) % TX = j - 1
      <4>1. i - tx_head + TX \in 0..(2 * TX - 1) /\ Around(i - tx_head + TX) = j - 1
        BY <1>1, <1>2 DEF Around
      <4>2. QED
        BY <1>1, <4>1, WrapsOnce
    <3>4. 1 + (j - 1) = j
      BY <1>2
    <3>5. QED
      BY <1>3, <3>1, <3>2, <3>3, <3>4
  <2>7. ASSUME NEW k \in 1..Len(queued')
        PROVE  txq'[Around(tx_tail + sender.n + k - 1)] = queued'[k]
    <3>1. CASE k <= Len(queued)
      BY SMTT(40), <1>1, <1>7, <2>5, <3>1
    <3>2. CASE k > Len(queued)
      <4>1. PICK j \in 1..n : k = Len(queued) + j
        <5>1. k - Len(queued) \in 1..n /\ k = Len(queued) + (k - Len(queued))
          BY SMTT(40), <1>1, <1>2, <1>7, <3>2
        <5>2. QED
          BY <5>1
      <4>2. QED
        BY <1>7, <2>6, <4>1
    <3>3. QED
      BY <1>1, <1>7, <3>1, <3>2
  <2>8. QED
    BY <1>3, <1>8, <2>4, <2>7 DEF ContentOk
<1>13. SleepOk'
  BY <1>3, <1>8 DEF StreamInv, SleepOk, StreamType
<1>14. QED
  BY <1>10, <1>11, <1>12, <1>13 DEF StreamInv

\* v_stream_writer_step takes a run out of the queue: the bytes stay where they are.
LEMMA StartKeeps ==
    ASSUME Timely, StreamInv, SenderStarts
    PROVE  StreamInv'
<1> DEFINE n == Run
<1>1. /\ TX \in Nat /\ TX >= 2 /\ StreamBounds
      /\ tx_head \in 0..(TX - 1) /\ tx_tail \in 0..(TX - 1)
      /\ queued \in Seq(Bytes) /\ Len(queued) \in Nat /\ txq \in [Index -> Bytes]
  BY DEF Timely, StreamBounds, StreamInv, StreamType, Index, Bytes
<1>2. /\ n \in 0..Taken /\ n \in Nat /\ tx_tail + n <= TX /\ Taken \in Nat
  BY <1>1, RunIs, RoomIs DEF StreamInv, Index
<1>3. /\ sender.at = "run" /\ sender.n = 0 /\ flight = <<>> /\ tx_dma = {} /\ tx_done = 0
      /\ Len(queued) = Taken
  <2>1. sender.at = "run" /\ sender.n = 0 /\ tx_dma = {} /\ tx_done = 0 /\ Len(queued) + sender.n = Taken
        /\ (flight # <<>> => Len(flight) = 0) /\ flight \in Seq(Bytes)
    BY DEF StreamInv, StreamType, SendingOk, SenderStarts
  <2>2. QED
    BY <1>1, <2>1
<1>4. UNCHANGED <<backend, txq, tx_head, tx_tail, tx_kick, tx_done, last_byte, rx_head, rx_tail, rx_ready, listener>>
  BY DEF SenderStarts, RXV
<1>5. Taken' = Taken
  BY <1>4 DEF Taken
<1>6. CASE n = 0
  <2>1. sender' = [sender EXCEPT !.at = "look"] /\ UNCHANGED <<tx_dma, queued, flight>>
    BY <1>6 DEF SenderStarts
  <2>2. sender' \in [at : {"look", "take", "asleep", "run", "tx", "free"}, n : Nat]
        /\ sender'.at = "look" /\ sender'.n = 0
    BY <1>3, <2>1 DEF StreamInv, StreamType
  <2>3. StreamType' /\ SleepOk'
    BY <1>4, <2>1, <2>2 DEF StreamInv, StreamType, SleepOk
  <2>4. SendingOk'
    BY <1>1, <1>2, <1>3, <1>4, <1>5, <2>1, <2>2 DEF StreamInv, SendingOk
  <2>5. ContentOk'
    BY <1>3, <1>4, <2>1, <2>2 DEF StreamInv, ContentOk
  <2>6. QED
    BY <2>3, <2>4, <2>5 DEF StreamInv
<1>7. CASE n > 0
  <2>1. /\ queued' = SubSeq(queued, n + 1, Len(queued))
        /\ \/ sender' = [at |-> "free", n |-> n] /\ UNCHANGED <<tx_dma, flight>>
           \/ /\ sender' = [at |-> "tx", n |-> n]
              /\ flight' = SubSeq(queued, 1, n)
              /\ tx_dma' = IF backend = "uart" THEN Slots(tx_tail, n) ELSE tx_dma
    BY <1>2, <1>7 DEF SenderStarts
  <2>2. /\ queued' \in Seq(Bytes) /\ Len(queued') = Len(queued) - n
        /\ \A k \in 1..(Len(queued) - n) : queued'[k] = queued[k + n]
    <3>1. n + 1 \in 1..(Len(queued) + 1)
      BY <1>1, <1>2, <1>3
    <3>2. SubSeq(queued, n + 1, Len(queued)) \in Seq(Bytes)
      BY <1>1, <3>1
    <3>3. Len(SubSeq(queued, n + 1, Len(queued))) = Len(queued) - n
      BY <1>1, <1>2, <1>3
    <3>4. \A k \in 1..(Len(queued) - n) : SubSeq(queued, n + 1, Len(queued))[k] = queued[k + n]
      BY <1>1, <1>2, <1>3
    <3>5. QED
      BY <2>1, <3>2, <3>3, <3>4
  <2>3. SubSeq(queued, 1, n) \in Seq(Bytes) /\ Len(SubSeq(queued, 1, n)) = n
        /\ \A k \in 1..n : SubSeq(queued, 1, n)[k] = queued[k]
    BY <1>1, <1>2, <1>3
  <2>4. /\ sender' \in [at : {"look", "take", "asleep", "run", "tx", "free"}, n : Nat]
        /\ sender'.at \in {"tx", "free"} /\ sender'.n = n
    BY <1>2, <2>1
  <2>5. /\ flight' \in Seq(Bytes) /\ (flight' # <<>> => Len(flight') = n)
        /\ \A k \in 1..Len(flight') : flight'[k] = queued[k]
    <3>1. CASE flight' = <<>>
      BY <3>1
    <3>2. CASE flight' # <<>>
      BY <1>3, <2>1, <2>3, <3>2
    <3>3. QED
      BY <3>1, <3>2
  <2>6. Slots(tx_tail, n) = {i \in Index : tx_tail <= i /\ i < tx_tail + n}
    <3>1. Slots(tx_tail, n) = {Around(tx_tail + i) : i \in 0..(n - 1)}
      BY <1>1, <1>2, SlotsAre, n \in 0..TX, tx_tail \in Index DEF Index
    <3>2. \A i \in 0..(n - 1) : Around(tx_tail + i) = tx_tail + i
      BY <1>1, <1>2 DEF Around
    <3>3. \A i \in Index : tx_tail <= i /\ i < tx_tail + n => i - tx_tail \in 0..(n - 1) /\ tx_tail + (i - tx_tail) = i
      BY <1>1, <1>2 DEF Index
    <3>4. \A i \in 0..(n - 1) : tx_tail + i \in Index /\ tx_tail <= tx_tail + i /\ tx_tail + i < tx_tail + n
      BY <1>1, <1>2 DEF Index
    <3>5. \A i \in Slots(tx_tail, n) : i \in Index /\ tx_tail <= i /\ i < tx_tail + n
      BY <3>1, <3>2, <3>4
    <3>6. \A i \in Index : tx_tail <= i /\ i < tx_tail + n => i \in Slots(tx_tail, n)
      BY <3>1, <3>2, <3>3
    <3>7. QED
      BY <3>5, <3>6
  <2>7. /\ tx_dma' # {} => tx_dma' = {i \in Index : tx_tail <= i /\ i < tx_tail + n}
        /\ tx_dma' \in SUBSET Index
        /\ backend = "cdc" => tx_dma' = {}
        /\ sender'.at # "tx" => tx_dma' = {}
    BY <1>3, <2>1, <2>6 DEF StreamInv, StreamType
  <2>8. StreamType'
    BY <1>4, <2>2, <2>4, <2>5, <2>7 DEF StreamInv, StreamType
  <2>9. SendingOk'
    BY <1>1, <1>2, <1>3, <1>4, <1>5, <1>7, <2>2, <2>4, <2>5, <2>7 DEF SendingOk
  <2>10. \A k \in 1..Len(queued) : txq[Around(tx_tail + 0 + k - 1)] = queued[k]
    BY <1>3 DEF StreamInv, ContentOk
  <2>11. \A k \in 1..Len(queued) : tx_tail + 0 + k - 1 = tx_tail + k - 1
    BY <1>1
  <2>12. \A k \in 1..Len(flight') : txq[tx_tail + k - 1] = flight'[k]
    <3> TAKE k \in 1..Len(flight')
    <3>1. k \in 1..n /\ k \in 1..Len(queued)
      BY <1>1, <1>2, <1>3, <2>5
    <3>2. Around(tx_tail + k - 1) = tx_tail + k - 1
      BY <1>1, <1>2, <3>1 DEF Around
    <3>3. QED
      BY <2>5, <2>10, <2>11, <3>1, <3>2
  <2>13. \A k \in 1..Len(queued') : txq[Around(tx_tail + n + k - 1)] = queued'[k]
    <3> TAKE k \in 1..Len(queued')
    <3>1. k + n \in 1..Len(queued) /\ tx_tail + (k + n) - 1 = tx_tail + n + k - 1
          /\ k \in 1..(Len(queued) - n)
      BY <1>1, <1>2, <2>2
    <3>2. QED
      BY <2>2, <2>10, <2>11, <3>1
  <2>14. ContentOk'
    BY <1>4, <2>4, <2>12, <2>13 DEF ContentOk
  <2>15. SleepOk'
    BY <1>4, <2>4 DEF StreamInv, SleepOk
  <2>16. QED
    BY <2>8, <2>9, <2>14, <2>15 DEF StreamInv
<1>8. QED
  BY <1>2, <1>6, <1>7

\* v_stream_writer_step gives the space of a run back.
LEMMA FreeKeeps ==
    ASSUME Timely, StreamInv, SenderFrees
    PROVE  StreamInv'
<1>1. /\ TX \in Nat /\ TX >= 2 /\ StreamBounds /\ sender.n \in Nat
      /\ tx_head \in 0..(TX - 1) /\ tx_tail \in 0..(TX - 1)
      /\ queued \in Seq(Bytes) /\ Len(queued) \in Nat
  BY DEF Timely, StreamBounds, StreamInv, StreamType, Index
<1>2. Taken \in 0..(TX - 1)
  BY <1>1, RoomIs DEF StreamInv, Index
<1>3. /\ Len(queued) + sender.n = Taken /\ tx_tail + sender.n <= TX
      /\ sender.at = "free" /\ tx_dma = {} /\ tx_done = 0
  BY DEF StreamInv, SendingOk, SenderFrees
<1>4. /\ tx_tail' = Around(tx_tail + sender.n) /\ flight' = <<>> /\ sender' = [at |-> "look", n |-> 0]
      /\ UNCHANGED <<backend, txq, tx_head, tx_kick, tx_done, tx_dma, queued, last_byte, rx_head,
                     rx_tail, rx_ready, listener>>
  <2>1. tx_tail + sender.n \in 0..(2 * TX - 1)
    BY <1>1, <1>3
  <2>2. QED
    BY <1>1, <2>1, WrapsOnce DEF SenderFrees, RXV
<1>5. tx_tail' \in Index
  BY <1>1, <1>3, <1>4 DEF Around, Index
<1>6. Taken' = Taken - sender.n
  <2>1. PICK c \in Nat, s \in Nat : c = Len(queued) /\ s = sender.n
    BY <1>1
  <2>2. c \in Nat /\ s \in Nat /\ c + s = Taken /\ tx_tail + s <= TX
    BY <1>1, <1>3, <2>1
  <2>3. tx_tail' = IF tx_tail + s < TX THEN tx_tail + s ELSE tx_tail + s - TX
    BY <1>1, <1>4, <2>1, <2>2 DEF Around
  <2>4. Taken' = Taken - s
    BY <1>1, <1>4, <2>2, <2>3 DEF Taken
  <2>5. QED
    BY <2>1, <2>4
<1>7. Len(queued) + 0 = Taken'
  BY <1>1, <1>2, <1>3, <1>6
<1>8. StreamType'
  BY <1>4, <1>5 DEF StreamInv, StreamType
<1>9. SendingOk'
  <2>1. tx_tail' + 0 <= TX
    <3>1. PICK a \in 0..(TX - 1) : a = tx_tail'
      BY <1>5 DEF Index
    <3>2. a \in 0..(TX - 1)
      BY <3>1
    <3>3. a \in Int /\ a + 0 <= TX
      BY <1>1, <3>2
    <3>4. QED
      BY <3>1, <3>3
  <2>2. QED
    BY <1>3, <1>4, <1>7, <2>1 DEF SendingOk
<1>10. ContentOk'
  <2>1. ASSUME NEW k \in 1..Len(queued) PROVE txq[Around(tx_tail' + 0 + k - 1)] = queued[k]
    <3>1. PICK c \in Nat, s \in Nat : c = Len(queued) /\ s = sender.n
      BY <1>1
    <3>2. c \in Nat /\ s \in Nat /\ c + s <= TX - 1 /\ tx_tail + s <= TX /\ k \in 1..c
      BY <1>1, <1>2, <1>3, <2>1, <3>1
    <3>3. tx_tail' = IF tx_tail + s < TX THEN tx_tail + s ELSE tx_tail + s - TX
      BY <1>1, <1>4, <3>1, <3>2 DEF Around
    <3>4. Around(tx_tail' + 0 + k - 1) = Around(tx_tail + s + k - 1)
      BY <1>1, <3>2, <3>3 DEF Around
    <3>5. QED
      BY <2>1, <3>1, <3>4 DEF StreamInv, ContentOk
  <2>2. QED
    BY <1>4, <2>1 DEF ContentOk
<1>11. SleepOk'
  BY <1>4 DEF StreamInv, SleepOk
<1>12. QED
  BY <1>8, <1>9, <1>10, <1>11 DEF StreamInv

\* The other steps of the writer, its waits and the end of a transfer: the bytes stay.
LEMMA SenderKeeps ==
    ASSUME Timely, StreamInv,
           \/ SenderLooks \/ SenderTakes \/ SenderTimesOut \/ SenderEnds
           \/ \E irq \in BOOLEAN : DmaDone(irq)
    PROVE  StreamInv'
<1>1. /\ sender' \in [at : {"look", "take", "asleep", "run", "tx", "free"}, n : Nat]
      /\ sender'.n = sender.n
      /\ tx_kick' \in {0, 1} /\ tx_done' \in {0, 1} /\ tx_dma' \in {{}, tx_dma}
  BY DEF StreamInv, StreamType, SenderLooks, SenderTakes, SenderTimesOut, SenderEnds, DmaDone
<1>2. UNCHANGED <<backend, txq, tx_head, tx_tail, queued, flight, last_byte, rx_head, rx_tail,
                  rx_ready, listener>>
  BY DEF SenderLooks, SenderTakes, SenderTimesOut, SenderEnds, DmaDone, RXV
<1>3. /\ sender'.at \in {"tx", "free"} <=> sender.at \in {"tx", "free"}
      /\ sender'.at # "tx" => tx_dma' = {} /\ tx_done' = 0
      /\ tx_done' = 1 \/ backend = "cdc" => tx_dma' = {}
      /\ sender'.at = "asleep" => tx_head = tx_tail
      /\ sender'.at = "take" /\ tx_head # tx_tail => tx_kick' = 1
  <2> DEFINE Goal == /\ sender'.at \in {"tx", "free"} <=> sender.at \in {"tx", "free"}
                     /\ sender'.at # "tx" => tx_dma' = {} /\ tx_done' = 0
                     /\ tx_done' = 1 \/ backend = "cdc" => tx_dma' = {}
                     /\ sender'.at = "asleep" => tx_head = tx_tail
                     /\ sender'.at = "take" /\ tx_head # tx_tail => tx_kick' = 1
  <2>1. CASE SenderLooks
    BY <2>1 DEF StreamInv, StreamType, SendingOk, SleepOk, SenderLooks
  <2>2. CASE SenderTakes
    BY <2>2 DEF StreamInv, StreamType, SendingOk, SleepOk, SenderTakes
  <2>3. CASE SenderTimesOut
    BY <2>3 DEF StreamInv, StreamType, SendingOk, SleepOk, SenderTimesOut
  <2>4. CASE SenderEnds
    BY <2>4 DEF StreamInv, StreamType, SendingOk, SleepOk, SenderEnds, TxReturns, Timely
  <2>5. CASE \E irq \in BOOLEAN : DmaDone(irq)
    BY <2>5 DEF StreamInv, StreamType, SendingOk, SleepOk, DmaDone, Timely
  <2>6. QED
    BY <2>1, <2>2, <2>3, <2>4, <2>5
<1>4. Taken' = Taken
  BY <1>2 DEF Taken
<1>5. StreamType'
  BY <1>1, <1>2 DEF StreamInv, StreamType
<1>6. SendingOk'
  BY <1>1, <1>2, <1>3, <1>4 DEF StreamInv, SendingOk
<1>7. ContentOk' /\ SleepOk'
  BY <1>1, <1>2, <1>3 DEF StreamInv, ContentOk, SleepOk
<1>8. QED
  BY <1>5, <1>6, <1>7 DEF StreamInv

\* The far end comes and goes, and input is not output.
LEMMA InputKeeps ==
    ASSUME Timely, StreamInv,
           \/ Plug \/ stream_wait \/ WaitTimesOut
           \/ (\E n \in 1..Burst : RxPush(n) \/ RxDma(n)) \/ (\E n \in 1..RX : stream_read(n))
    PROVE  StreamInv'
<1>1. /\ RX \in Nat /\ RX >= 2 /\ Burst \in Nat /\ RX \in Nat \ {0}
      /\ rx_head \in 0..(RX - 1) /\ rx_tail \in 0..(RX - 1)
      /\ rx_ready \in {0, 1} /\ listener \in {"awake", "asleep"} /\ backend \in {"cdc", "uart"}
  BY DEF Timely, StreamBounds, StreamInv, StreamType
<1>2. UNCHANGED <<backend, TXV>>
  BY DEF Plug, stream_wait, WaitTimesOut, RxPush, RxDma, stream_read
<1>3. Held \in 0..(RX - 1) /\ (Held = 0 => rx_head = rx_tail)
  <2>1. rx_head - rx_tail \in Int /\ (rx_head - rx_tail + RX * 1) % RX = (rx_head - rx_tail) % RX
    <3>1. PICK b \in Int : b = rx_head - rx_tail
      BY <1>1
    <3>2. \A k \in Int : (b + RX * k) % RX = b % RX
      BY <1>1, ModShift
    <3>3. QED
      BY <1>1, <3>1, <3>2
  <2>2. (rx_head - rx_tail) % RX = IF rx_head >= rx_tail THEN rx_head - rx_tail
                                   ELSE rx_head - rx_tail + RX
    BY <1>1, CounterDiff
  <2>3. Held = (rx_head - rx_tail) % RX
    BY <1>1, <2>1 DEF Held
  <2>4. QED
    BY <1>1, <2>2, <2>3
<1>4. /\ rx_head' \in 0..(RX - 1) /\ rx_tail' \in 0..(RX - 1)
      /\ rx_ready' \in {0, 1} /\ listener' \in {"awake", "asleep"}
      /\ listener' = "asleep" => rx_head' = rx_tail'
  <2>1. \A k \in Int : k % RX \in 0..(RX - 1)
    BY <1>1
  <2>2. CASE Plug
    BY <1>1, <2>2 DEF Plug, RXV, StreamInv, SleepOk
  <2>3. CASE stream_wait
    <3>1. rx_head' = rx_head /\ rx_tail' = rx_tail
      BY <2>3 DEF stream_wait
    <3>2. backend = "cdc" => rx_head = rx_tail
      BY <2>3 DEF stream_wait, Waiting
    <3>3. backend = "uart" /\ rx_ready = 0 => rx_head = rx_tail
      BY <1>3, <2>3 DEF stream_wait, Timely
    <3>4. /\ rx_ready' \in {0, 1} /\ listener' \in {"awake", "asleep"}
          /\ listener' = "asleep" => rx_ready = 0
      BY <1>1, <2>3 DEF stream_wait
    <3>5. QED
      BY <1>1, <3>1, <3>2, <3>3, <3>4
  <2>4. CASE WaitTimesOut
    BY <1>1, <2>4 DEF WaitTimesOut
  <2>5. ASSUME NEW n \in 1..Burst, RxPush(n) \/ RxDma(n)
        PROVE  /\ rx_head' \in 0..(RX - 1) /\ rx_tail' \in 0..(RX - 1)
               /\ rx_ready' \in {0, 1} /\ listener' \in {"awake", "asleep"}
               /\ listener' = "asleep" => rx_head' = rx_tail'
    <3>1. Signal /\ rx_tail' = rx_tail
      BY <2>5 DEF RxPush, RxDma
    <3>2. listener' = "awake" /\ rx_ready' \in {0, 1}
      BY <1>1, <3>1 DEF Signal
    <3>3. rx_head' \in 0..(RX - 1)
      <4>1. CASE RxPush(n)
        <5>1. PICK k : /\ k = IF n > RX - 1 - Held THEN RX - 1 - Held ELSE n
                       /\ rx_head' = (rx_head + k) % RX
          BY <4>1 DEF RxPush
        <5>2. rx_head + k \in Int
          BY <1>1, <1>3, <2>5, <5>1
        <5>3. QED
          BY <2>1, <5>1, <5>2
      <4>2. CASE RxDma(n)
        <5>1. rx_head + n \in Int
          BY <1>1, <2>5
        <5>2. QED
          BY <2>1, <4>2, <5>1 DEF RxDma
      <4>3. QED
        BY <2>5, <4>1, <4>2
    <3>4. QED
      BY <1>1, <3>1, <3>2, <3>3
  <2>6. ASSUME NEW n \in 1..RX, stream_read(n)
        PROVE  /\ rx_head' \in 0..(RX - 1) /\ rx_tail' \in 0..(RX - 1)
               /\ rx_ready' \in {0, 1} /\ listener' \in {"awake", "asleep"}
               /\ listener' = "asleep" => rx_head' = rx_tail'
    <3>1. UNCHANGED <<rx_head, rx_ready, listener>> /\ listener = "awake"
      BY <2>6 DEF stream_read
    <3>2. rx_tail' \in 0..(RX - 1)
      <4>1. PICK k : k = (IF n > Held THEN Held ELSE n) /\ rx_tail' = (rx_tail + k) % RX
        BY <2>6 DEF stream_read
      <4>2. rx_tail + k \in Int
        BY <1>1, <1>3, <2>6, <4>1
      <4>3. QED
        BY <2>1, <4>1, <4>2
    <3>3. QED
      BY <1>1, <3>1, <3>2
  <2>7. QED
    BY <2>2, <2>3, <2>4, <2>5, <2>6
<1>5. UNCHANGED <<backend, txq, tx_head, tx_tail, tx_kick, tx_done, sender, tx_dma, queued, flight,
                  last_byte>>
  BY <1>2 DEF TXV
<1>6. Taken' = Taken
  BY <1>5 DEF Taken
<1>7. StreamType' /\ SendingOk' /\ ContentOk' /\ SleepOk'
  BY <1>4, <1>5, <1>6 DEF StreamInv, StreamType, SendingOk, ContentOk, SleepOk
<1>8. QED
  BY <1>7 DEF StreamInv

LEMMA StreamSteps == ASSUME Timely PROVE StreamInv /\ [StreamNext]_stream_vars => StreamInv'
<1> SUFFICES ASSUME StreamInv, [StreamNext]_stream_vars PROVE StreamInv'
  OBVIOUS
<1>1. CASE \E n \in 1..Burst : stream_write(n)
  BY <1>1, WriteKeeps
<1>2. CASE SenderStarts
  BY <1>2, StartKeeps
<1>3. CASE SenderFrees
  BY <1>3, FreeKeeps
<1>4. CASE SenderLooks \/ SenderTakes \/ SenderTimesOut \/ SenderEnds \/ \E irq \in BOOLEAN : DmaDone(irq)
  BY <1>4, SenderKeeps
<1>5. CASE \/ Plug \/ stream_wait \/ WaitTimesOut
           \/ (\E n \in 1..Burst : RxPush(n) \/ RxDma(n)) \/ (\E n \in 1..RX : stream_read(n))
  BY <1>5, InputKeeps
<1>6. CASE UNCHANGED stream_vars
  <2>1. UNCHANGED <<backend, txq, tx_head, tx_tail, rx_head, rx_tail, tx_kick, rx_ready, tx_done,
                    sender, tx_dma, listener, queued, flight, last_byte>>
    BY <1>6 DEF stream_vars
  <2>2. Taken' = Taken
    BY <2>1 DEF Taken
  <2>3. QED
    BY <2>1, <2>2 DEF StreamInv, StreamType, SendingOk, ContentOk, SleepOk
<1>7. QED
  BY <1>1, <1>2, <1>3, <1>4, <1>5, <1>6 DEF StreamNext

LEMMA StreamStarts == ASSUME Timely PROVE StreamInit => StreamInv
<1> SUFFICES ASSUME StreamInit PROVE StreamInv
  OBVIOUS
<1>1. TX \in Nat /\ TX >= 2 /\ RX \in Nat /\ RX >= 2
  BY DEF Timely, StreamBounds
<1>2. Taken = 0
  BY <1>1 DEF StreamInit, Taken
<1>3. <<>> \in Seq(Bytes) /\ Len(<<>>) = 0
  OBVIOUS
<1>4. txq \in [Index -> Bytes]
  BY <1>1 DEF StreamInit, Index, Bytes
<1>5. StreamType
  BY <1>1, <1>3, <1>4 DEF StreamInit, StreamType, Index, Bytes
<1>6. SendingOk /\ ContentOk /\ SleepOk
  BY <1>1, <1>2, <1>3 DEF StreamInit, SendingOk, ContentOk, SleepOk
<1>7. QED
  BY <1>5, <1>6 DEF StreamInv

\* Bytes leave a stream as they were taken, for any sizes of its queue and its ring and any
\* bytes: those of a transfer stay in place until it is over while writers go on behind
\* them (stream_write, v_stream_writer_step), the DMA reads one run of what is still queued
\* (uart_tx), the writer does not sleep on a full queue though its signal is given between
\* its look and its wait, and the reader not on input (stream_wait).  A transfer ends
\* within the 100 ticks of uart_tx and a UART's reader takes all there is.
THEOREM StreamSafe ==
    ASSUME Timely
    PROVE  StreamSpec => []StreamSound
<1>1. StreamInv => StreamSound
  <2> SUFFICES ASSUME StreamInv PROVE StreamSound
    OBVIOUS
  <2>1. /\ TX \in Nat /\ TX >= 2 /\ StreamBounds /\ sender.n \in Nat
        /\ tx_head \in 0..(TX - 1) /\ tx_tail \in 0..(TX - 1)
        /\ queued \in Seq(Bytes) /\ Len(queued) \in Nat /\ flight \in Seq(Bytes)
        /\ Len(flight) \in Nat /\ tx_dma \in SUBSET Index
    BY DEF Timely, StreamBounds, StreamInv, StreamType, Index
  <2>2. Taken \in 0..(TX - 1) /\ Room = TX - 1 - Taken
    BY <2>1, RoomIs DEF StreamInv, Index
  <2>3. /\ Len(queued) + sender.n = Taken /\ tx_tail + sender.n <= TX
        /\ flight # <<>> => Len(flight) = sender.n
    BY DEF StreamInv, SendingOk
  <2>4. PICK c \in Nat, s \in Nat : c = Len(queued) /\ s = sender.n
    BY <2>1
  <2>5. c \in Nat /\ s \in Nat /\ c + s = Taken /\ tx_tail + s <= TX
    BY <2>1, <2>3, <2>4
  <2>6. ASSUME NEW k \in 1..Len(flight) PROVE txq[(tx_tail + k - 1) % TX] = flight[k]
    <3>1. k \in 1..s
      BY <2>1, <2>3, <2>4, <2>6
    <3>2. tx_tail + k - 1 \in 0..(TX - 1)
      BY <2>1, <2>5, <3>1
    <3>3. (tx_tail + k - 1) % TX = tx_tail + k - 1
      <4>1. PICK a \in 0..(TX - 1) : a = tx_tail + k - 1
        BY <3>2
      <4>2. a \in 0..(TX - 1) /\ TX \in Nat \ {0}
        BY <2>1, <4>1
      <4>3. a % TX = a
        BY <4>2, ModSmall
      <4>4. QED
        BY <4>1, <4>3
    <3>4. QED
      BY <2>6, <3>3 DEF StreamInv, ContentOk
  <2>7. ASSUME NEW k \in 1..Len(queued)
        PROVE  txq[(tx_head - Len(queued) + k - 1 + TX) % TX] = queued[k]
    <3>1. k \in 1..c
      BY <2>1, <2>4, <2>7
    <3>2. tx_head - c + k - 1 + TX \in 0..(2 * TX - 1)
          /\ Around(tx_head - c + k - 1 + TX) = Around(tx_tail + s + k - 1)
      BY <2>1, <2>2, <2>5, <3>1 DEF Around, Taken
    <3>3. (tx_head - c + k - 1 + TX) % TX = Around(tx_tail + s + k - 1)
      BY <2>1, <3>2, WrapsOnce
    <3>4. QED
      BY <2>4, <2>7, <3>3 DEF StreamInv, ContentOk
  <2>8. DmaWithin
    <3> SUFFICES ASSUME tx_dma # {}
                 PROVE  /\ \A i \in tx_dma : i < TX /\ (i = tx_tail \/ i - 1 \in tx_dma)
                        /\ tx_dma \cap Slots(tx_head, Room) = {}
      BY DEF DmaWithin
    <3>1. tx_dma = {i \in Index : tx_tail <= i /\ i < tx_tail + s}
      BY <2>4 DEF StreamInv, SendingOk
    <3>2. \A i \in tx_dma : i < TX /\ (i = tx_tail \/ i - 1 \in tx_dma)
      BY <2>1, <3>1 DEF Index
    <3>3. Slots(tx_head, Room) = {Around(tx_head + i) : i \in 0..(Room - 1)}
      <4>1. Room \in 0..TX /\ tx_head \in Index
        BY <2>1, <2>2 DEF Index
      <4>2. QED
        BY <2>1, <4>1, SlotsAre
    <3>4. \A i \in 0..(Room - 1) : Around(tx_head + i) < tx_tail \/ Around(tx_head + i) >= tx_tail + s
      BY <2>1, <2>2, <2>5 DEF Around, Taken
    <3>5. QED
      BY SMTT(40), <2>1, <3>1, <3>2, <3>3, <3>4 DEF Index
  <2>9. QED
    BY <2>6, <2>7, <2>8 DEF StreamSound, InPlace, NoSleepOnBytes, StreamInv, SleepOk
<1>2. QED
  BY <1>1, StreamStarts, StreamSteps, PTL DEF StreamSpec
==============================================================================

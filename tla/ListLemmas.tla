----------------------------- MODULE ListLemmas ------------------------------
(* What the list operations keep: the elements, their number of occurrences, *)
(* and the type of the list; and the arithmetic of ring positions.           *)
EXTENDS Lists, SequenceTheorems, FiniteSetTheorems, TLAPS

\* Cutting a node out (remove_task) leaves the others, in order.
LEMMA RemoveAtElem ==
    ASSUME NEW S, NEW q \in Seq(S), NEW i \in 1..Len(q)
    PROVE  /\ RemoveAt(q, i) \in Seq(S)
           /\ Len(RemoveAt(q, i)) = Len(q) - 1
           /\ \A k \in 1..(Len(q) - 1) :
                RemoveAt(q, i)[k] = IF k < i THEN q[k] ELSE q[k + 1]
<1> DEFINE a == SubSeq(q, 1, i - 1)
           b == SubSeq(q, i + 1, Len(q))
<1>1. a \in Seq(S) /\ Len(a) = i - 1 /\ \A k \in 1..(i - 1) : a[k] = q[k]
  BY SubSeqProperties
<1>2. b \in Seq(S) /\ Len(b) = Len(q) - i /\ \A k \in 1..(Len(q) - i) : b[k] = q[i + k]
  BY SubSeqProperties
<1>3. RemoveAt(q, i) = a \o b
  BY DEF RemoveAt
<1>4. Len(q) \in Nat /\ i \in Nat
  BY LenProperties
<1> HIDE DEF a, b
<1>5. /\ a \o b \in Seq(S)
      /\ Len(a \o b) = Len(a) + Len(b)
      /\ \A k \in 1..(Len(a) + Len(b)) :
           (a \o b)[k] = IF k <= Len(a) THEN a[k] ELSE b[k - Len(a)]
  BY <1>1, <1>2, ConcatProperties
<1>6. ASSUME NEW k \in 1..(Len(q) - 1)
      PROVE  (a \o b)[k] = IF k < i THEN q[k] ELSE q[k + 1]
  <2>1. k \in Nat /\ k \in 1..(Len(a) + Len(b))
    BY <1>1, <1>2, <1>4
  <2>2. CASE k < i
    BY <2>1, <2>2, <1>1, <1>4, <1>5
  <2>3. CASE ~(k < i)
    <3>1. k - (i - 1) \in 1..(Len(q) - i) /\ i + (k - (i - 1)) = k + 1
      BY <2>1, <2>3, <1>4
    <3>2. (a \o b)[k] = b[k - (i - 1)]
      BY <2>1, <2>3, <1>1, <1>4, <1>5
    <3>3. QED
      BY <3>1, <3>2, <2>3, <1>2
  <2>4. QED
    BY <2>2, <2>3
<1>7. QED
  BY <1>1, <1>2, <1>3, <1>4, <1>5, <1>6

\* Splicing a node in (wait_q_enqueue, add_to_delayed_list).
LEMMA InsertAtElem ==
    ASSUME NEW S, NEW q \in Seq(S), NEW x \in S, NEW i \in 1..(Len(q) + 1)
    PROVE  /\ InsertAt(q, i, x) \in Seq(S)
           /\ Len(InsertAt(q, i, x)) = Len(q) + 1
           /\ \A k \in 1..(Len(q) + 1) :
                InsertAt(q, i, x)[k] =
                  IF k < i THEN q[k] ELSE IF k = i THEN x ELSE q[k - 1]
<1> DEFINE a == SubSeq(q, 1, i - 1)
           b == SubSeq(q, i, Len(q))
           ax == a \o <<x>>
<1>1. a \in Seq(S) /\ Len(a) = i - 1 /\ \A k \in 1..(i - 1) : a[k] = q[k]
  BY SubSeqProperties
<1>2. /\ b \in Seq(S) /\ Len(b) = Len(q) - i + 1
      /\ \A k \in 1..(Len(q) - i + 1) : b[k] = q[i + k - 1]
  BY SubSeqProperties
<1>3. InsertAt(q, i, x) = ax \o b
  BY DEF InsertAt
<1>4. Len(q) \in Nat /\ i \in Nat
  BY LenProperties
<1>5. <<x>> \in Seq(S) /\ Len(<<x>>) = 1 /\ <<x>>[1] = x
  OBVIOUS
<1> HIDE DEF a, b
<1>6. /\ ax \in Seq(S) /\ Len(ax) = i
      /\ \A k \in 1..i : ax[k] = IF k < i THEN q[k] ELSE x
  <2>1. /\ ax \in Seq(S) /\ Len(ax) = Len(a) + 1
        /\ \A k \in 1..(Len(a) + 1) :
             ax[k] = IF k <= Len(a) THEN a[k] ELSE <<x>>[k - Len(a)]
    BY <1>1, <1>5, ConcatProperties
  <2>2. ASSUME NEW k \in 1..i PROVE ax[k] = IF k < i THEN q[k] ELSE x
    <3>1. CASE k < i
      BY <3>1, <2>1, <1>1, <1>4
    <3>2. CASE k = i
      BY <3>2, <2>1, <1>1, <1>4, <1>5
    <3>3. k < i \/ k = i
      BY <1>4
    <3>4. QED
      BY <3>1, <3>2, <3>3
  <2>3. QED
    BY <2>1, <2>2, <1>1, <1>4
<1> HIDE DEF ax
<1>7. /\ ax \o b \in Seq(S) /\ Len(ax \o b) = i + Len(b)
      /\ \A k \in 1..(i + Len(b)) :
           (ax \o b)[k] = IF k <= i THEN ax[k] ELSE b[k - i]
  BY <1>6, <1>2, ConcatProperties
<1>8. ASSUME NEW k \in 1..(Len(q) + 1)
      PROVE  (ax \o b)[k] = IF k < i THEN q[k] ELSE IF k = i THEN x ELSE q[k - 1]
  <2>1. CASE k <= i
    BY <2>1, <1>7, <1>6, <1>2, <1>4
  <2>2. CASE k > i
    <3>1. k - i \in 1..(Len(q) - i + 1) /\ i + (k - i) - 1 = k - 1
      BY <2>2, <1>4
    <3>2. (ax \o b)[k] = b[k - i]
      BY <2>2, <1>7, <1>2, <1>4
    <3>3. b[k - i] = q[i + (k - i) - 1]
      BY <3>1, <1>2
    <3>4. QED
      BY <2>2, <3>1, <3>2, <3>3, <1>4, SMTT(30)
  <2>3. k <= i \/ k > i
    BY <1>4
  <2>4. QED
    BY <2>1, <2>2, <2>3
<1>9. QED
  BY <1>2, <1>3, <1>4, <1>7, <1>8

\* The list without x is a list of the same type, shorter if x was on it.
LEMMA UnlinkType ==
    ASSUME NEW S, NEW q \in Seq(S), NEW x
    PROVE  Unlink(q, x) \in Seq(S) /\ (Unlink(q, x) # <<>> => q # <<>>)
<1>1. CASE x \in ToSet(q)
  <2> DEFINE i == CHOOSE j \in DOMAIN q : q[j] = x
  <2>1. i \in DOMAIN q
    BY <1>1 DEF ToSet
  <2>2. i \in 1..Len(q)
    BY <2>1, LenProperties
  <2>3. Unlink(q, x) = RemoveAt(q, i)
    BY <1>1 DEF Unlink
  <2> HIDE DEF i
  <2>4. q # <<>>
    BY <2>2
  <2>5. QED
    BY <2>2, <2>3, <2>4, RemoveAtElem
<1>2. CASE x \notin ToSet(q)
  BY <1>2 DEF Unlink
<1>3. QED
  BY <1>1, <1>2

\* Unlinking x from a list without duplicates removes x and nothing else.
LEMMA UnlinkRange ==
    ASSUME NEW S, NEW q \in Seq(S), NEW x, NoDup(q)
    PROVE  NoDup(Unlink(q, x)) /\ ToSet(Unlink(q, x)) = ToSet(q) \ {x}
<1>1. CASE x \in ToSet(q)
  <2> DEFINE i == CHOOSE j \in DOMAIN q : q[j] = x
             r == RemoveAt(q, i)
  <2>1. i \in DOMAIN q /\ q[i] = x
    BY <1>1 DEF ToSet
  <2>2. i \in 1..Len(q) /\ Len(q) \in Nat /\ DOMAIN q = 1..Len(q)
    BY <2>1, LenProperties
  <2>3. Unlink(q, x) = r
    BY <1>1 DEF Unlink
  <2> HIDE DEF i
  <2>4. /\ r \in Seq(S) /\ Len(r) = Len(q) - 1
        /\ \A k \in 1..(Len(q) - 1) : r[k] = IF k < i THEN q[k] ELSE q[k + 1]
    BY <2>2, RemoveAtElem
  <2>5. DOMAIN r = 1..(Len(q) - 1)
    BY <2>4, LenProperties
  <2> HIDE DEF r
  <2>6. \A j, k \in 1..Len(q) : q[j] = q[k] => j = k
    BY <2>2 DEF NoDup
  <2>7. NoDup(r)
    <3> SUFFICES ASSUME NEW j \in 1..(Len(q) - 1), NEW k \in 1..(Len(q) - 1), r[j] = r[k]
                 PROVE  j = k
      BY <2>5 DEF NoDup
    <3> DEFINE old(n) == IF n < i THEN n ELSE n + 1
    <3>1. old(j) \in 1..Len(q) /\ old(k) \in 1..Len(q)
      BY <2>2
    <3>2. r[j] = q[old(j)] /\ r[k] = q[old(k)]
      BY <2>4
    <3>3. old(j) = old(k)
      BY <3>1, <3>2, <2>6
    <3>4. QED
      BY <3>3, <2>2
  <2>8. ASSUME NEW y \in ToSet(r) PROVE y \in ToSet(q) \ {x}
    <3>1. PICK k \in 1..(Len(q) - 1) : y = r[k]
      BY <2>5 DEF ToSet
    <3>2. \E j \in 1..Len(q) : j # i /\ y = q[j]
      BY <3>1, <2>2, <2>4
    <3>3. QED
      BY <3>2, <2>1, <2>2, <2>6 DEF ToSet
  <2>9. ASSUME NEW y \in ToSet(q) \ {x} PROVE y \in ToSet(r)
    <3>1. PICK j \in 1..Len(q) : y = q[j]
      BY <2>2 DEF ToSet
    <3>2. j # i
      BY <3>1, <2>1
    <3>3. CASE j < i
      BY <3>1, <3>3, <2>2, <2>4, <2>5, SMTT(30) DEF ToSet
    <3>4. CASE j > i
      <4>1. j - 1 \in 1..(Len(q) - 1) /\ ~(j - 1 < i) /\ (j - 1) + 1 = j
        BY <3>4, <2>2
      <4>2. r[j - 1] = y
        BY <4>1, <3>1, <2>4
      <4>3. QED
        BY <4>1, <4>2, <2>5 DEF ToSet
    <3>5. QED
      BY <3>2, <3>3, <3>4, <2>2
  <2>10. QED
    BY <2>3, <2>7, <2>8, <2>9
<1>2. CASE x \notin ToSet(q)
  BY <1>2 DEF Unlink
<1>3. QED
  BY <1>1, <1>2

\* Splicing in a new x adds x and nothing else.
LEMMA InsertAtRange ==
    ASSUME NEW S, NEW q \in Seq(S), NEW x \in S, NEW i \in 1..(Len(q) + 1)
    PROVE  /\ ToSet(InsertAt(q, i, x)) = ToSet(q) \cup {x}
           /\ NoDup(q) /\ x \notin ToSet(q) => NoDup(InsertAt(q, i, x))
<1> DEFINE r == InsertAt(q, i, x)
<1>1. /\ r \in Seq(S) /\ Len(r) = Len(q) + 1
      /\ \A k \in 1..(Len(q) + 1) :
           r[k] = IF k < i THEN q[k] ELSE IF k = i THEN x ELSE q[k - 1]
  BY InsertAtElem
<1>2. DOMAIN r = 1..(Len(q) + 1) /\ DOMAIN q = 1..Len(q) /\ Len(q) \in Nat
  BY <1>1, LenProperties
<1> HIDE DEF r
<1>3. ASSUME NEW y \in ToSet(r) PROVE y \in ToSet(q) \cup {x}
  <2>1. PICK k \in 1..(Len(q) + 1) : y = r[k]
    BY <1>2 DEF ToSet
  <2>2. y = x \/ \E j \in 1..Len(q) : y = q[j]
    BY <2>1, <1>1, <1>2
  <2>3. QED
    BY <2>2, <1>2 DEF ToSet
<1>4. ASSUME NEW y \in ToSet(q) \cup {x} PROVE y \in ToSet(r)
  <2>1. CASE y = x
    <3>1. r[i] = x
      BY <1>1, <1>2
    <3>2. QED
      BY <2>1, <3>1, <1>2 DEF ToSet
  <2>2. CASE y \in ToSet(q)
    <3>1. PICK j \in 1..Len(q) : y = q[j]
      BY <2>2, <1>2 DEF ToSet
    <3>2. CASE j < i
      BY <3>1, <3>2, <1>1, <1>2 DEF ToSet
    <3>3. CASE j >= i
      <4>1. j + 1 \in 1..(Len(q) + 1) /\ ~(j + 1 < i) /\ j + 1 # i /\ (j + 1) - 1 = j
        BY <3>3, <1>2
      <4>2. r[j + 1] = y
        BY <4>1, <3>1, <1>1
      <4>3. QED
        BY <4>1, <4>2, <1>2 DEF ToSet
    <3>4. QED
      BY <3>2, <3>3, <1>2
  <2>3. QED
    BY <2>1, <2>2
<1>5. ASSUME NoDup(q), x \notin ToSet(q) PROVE NoDup(r)
  <2>1. \A j, k \in 1..Len(q) : q[j] = q[k] => j = k
    BY <1>5, <1>2 DEF NoDup
  <2>2. \A j \in 1..Len(q) : q[j] # x
    BY <1>5, <1>2 DEF ToSet
  <2> SUFFICES ASSUME NEW j \in 1..(Len(q) + 1), NEW k \in 1..(Len(q) + 1), r[j] = r[k]
               PROVE  j = k
    BY <1>2 DEF NoDup
  <2> DEFINE old(n) == IF n < i THEN n ELSE n - 1
  <2>3. ASSUME NEW n \in 1..(Len(q) + 1), n # i
        PROVE  old(n) \in 1..Len(q) /\ r[n] = q[old(n)] /\ r[n] # x
    <3>1. old(n) \in 1..Len(q)
      BY <2>3, <1>2
    <3>2. r[n] = q[old(n)]
      BY <2>3, <1>1, <1>2
    <3>3. QED
      BY <3>1, <3>2, <2>2
  <2>4. r[i] = x
    BY <1>1, <1>2
  <2>5. j = i <=> k = i
    BY <2>3, <2>4
  <2>6. CASE j # i
    <3>1. old(j) = old(k)
      BY <2>1, <2>3, <2>5, <2>6
    <3>2. QED
      BY <3>1, <2>5, <2>6, <1>2
  <2>7. QED
    BY <2>5, <2>6
<1>6. QED
  BY <1>3, <1>4, <1>5 DEF r

\* Appending a new x (add_to_blocked_list, rl_append).
LEMMA AppendRange ==
    ASSUME NEW S, NEW q \in Seq(S), NEW x \in S
    PROVE  /\ Append(q, x) \in Seq(S) /\ Append(q, x) # <<>>
           /\ ToSet(Append(q, x)) = ToSet(q) \cup {x}
           /\ NoDup(q) /\ x \notin ToSet(q) => NoDup(Append(q, x))
<1>1. /\ Append(q, x) \in Seq(S) /\ Append(q, x) # <<>>
      /\ DOMAIN Append(q, x) = 1..(Len(q) + 1)
      /\ \A k \in 1..Len(q) : Append(q, x)[k] = q[k]
      /\ Append(q, x)[Len(q) + 1] = x
      /\ DOMAIN q = 1..Len(q) /\ Len(q) \in Nat
  BY AppendProperties, LenProperties
<1>2. ToSet(Append(q, x)) = ToSet(q) \cup {x}
  BY <1>1 DEF ToSet
<1>3. NoDup(q) /\ x \notin ToSet(q) => NoDup(Append(q, x))
  BY <1>1 DEF ToSet, NoDup
<1>4. QED
  BY <1>1, <1>2, <1>3

\* Pushing a new x at the head (held_mutexes, observers).
LEMMA PushRange ==
    ASSUME NEW S, NEW q \in Seq(S), NEW x \in S
    PROVE  /\ <<x>> \o q \in Seq(S) /\ <<x>> \o q # <<>>
           /\ ToSet(<<x>> \o q) = ToSet(q) \cup {x}
           /\ NoDup(q) /\ x \notin ToSet(q) => NoDup(<<x>> \o q)
<1> DEFINE r == <<x>> \o q
<1>0. <<x>> \in Seq(S) /\ Len(<<x>>) = 1 /\ <<x>>[1] = x /\ Len(q) \in Nat /\ DOMAIN q = 1..Len(q)
  BY LenProperties
<1>1. r \in Seq(S) /\ Len(r) = 1 + Len(q)
      /\ \A k \in 1..(1 + Len(q)) : r[k] = IF k <= 1 THEN <<x>>[k] ELSE q[k - 1]
  BY <1>0, ConcatProperties
<1>2. DOMAIN r = 1..(1 + Len(q)) /\ r[1] = x /\ \A k \in 1..Len(q) : r[k + 1] = q[k]
  BY <1>0, <1>1, LenProperties
<1> HIDE DEF r
<1>3. r # <<>>
  BY <1>1, <1>0
<1>4. ASSUME NEW y \in ToSet(r) PROVE y \in ToSet(q) \cup {x}
  <2>1. PICK k \in 1..(1 + Len(q)) : y = r[k]
    BY <1>2 DEF ToSet
  <2>2. k = 1 \/ (k - 1 \in 1..Len(q) /\ (k - 1) + 1 = k)
    BY <1>0
  <2>3. QED
    BY <2>1, <2>2, <1>0, <1>2 DEF ToSet
<1>5. ASSUME NEW y \in ToSet(q) \cup {x} PROVE y \in ToSet(r)
  BY <1>0, <1>2 DEF ToSet
<1>6. ASSUME NoDup(q), x \notin ToSet(q) PROVE NoDup(r)
  <2>1. \A j, k \in 1..Len(q) : q[j] = q[k] => j = k
    BY <1>6, <1>0 DEF NoDup
  <2>2. \A j \in 1..Len(q) : q[j] # x
    BY <1>6, <1>0 DEF ToSet
  <2> SUFFICES ASSUME NEW j \in 1..(1 + Len(q)), NEW k \in 1..(1 + Len(q)), r[j] = r[k]
               PROVE  j = k
    BY <1>2 DEF NoDup
  <2>3. ASSUME NEW n \in 1..(1 + Len(q)), n # 1
        PROVE  n - 1 \in 1..Len(q) /\ r[n] = q[n - 1] /\ r[n] # x
    <3>1. n - 1 \in 1..Len(q) /\ ~(n <= 1)
      BY <2>3, <1>0
    <3>2. r[n] = q[n - 1]
      BY <3>1, <1>1
    <3>3. QED
      BY <3>1, <3>2, <2>2
  <2>4. j = 1 <=> k = 1
    BY <2>3, <1>2
  <2>5. CASE j # 1
    <3>1. j - 1 = k - 1
      BY <2>1, <2>3, <2>4, <2>5
    <3>2. QED
      BY <3>1, <1>0
  <2>6. QED
    BY <2>4, <2>5
<1>7. QED
  BY <1>1, <1>3, <1>4, <1>5, <1>6 DEF r

\* Popping the head (wait_q_dequeue, rl_pop_head).
LEMMA TailRange ==
    ASSUME NEW S, NEW q \in Seq(S), q # <<>>
    PROVE  /\ Head(q) \in S /\ Head(q) \in ToSet(q) /\ Tail(q) \in Seq(S)
           /\ NoDup(q) => NoDup(Tail(q)) /\ ToSet(Tail(q)) = ToSet(q) \ {Head(q)}
<1>1. /\ Head(q) \in S /\ Tail(q) \in Seq(S) /\ Head(q) = q[1]
      /\ Len(Tail(q)) = Len(q) - 1 /\ \A k \in 1..Len(Tail(q)) : Tail(q)[k] = q[k + 1]
      /\ Len(q) \in Nat \ {0} /\ DOMAIN q = 1..Len(q)
  BY HeadTailProperties, LenProperties, EmptySeq
<1>2. DOMAIN Tail(q) = 1..(Len(q) - 1)
  BY <1>1, LenProperties
<1>3. Head(q) \in ToSet(q)
  BY <1>1 DEF ToSet
<1>4. ASSUME NoDup(q) PROVE NoDup(Tail(q)) /\ ToSet(Tail(q)) = ToSet(q) \ {Head(q)}
  <2>1. \A j, k \in 1..Len(q) : q[j] = q[k] => j = k
    BY <1>4, <1>1 DEF NoDup
  <2>2. NoDup(Tail(q))
    BY <2>1, <1>1, <1>2 DEF NoDup
  <2>3. ASSUME NEW y \in ToSet(Tail(q)) PROVE y \in ToSet(q) \ {Head(q)}
    <3>1. PICK k \in 1..(Len(q) - 1) : y = q[k + 1]
      BY <1>1, <1>2 DEF ToSet
    <3>2. QED
      BY <3>1, <2>1, <1>1 DEF ToSet
  <2>4. ASSUME NEW y \in ToSet(q) \ {Head(q)} PROVE y \in ToSet(Tail(q))
    <3>1. PICK k \in 1..Len(q) : y = q[k]
      BY <1>1 DEF ToSet
    <3>2. k - 1 \in 1..(Len(q) - 1) /\ (k - 1) + 1 = k
      BY <3>1, <1>1
    <3>3. QED
      BY <3>1, <3>2, <1>1, <1>2 DEF ToSet
  <2>5. QED
    BY <2>2, <2>3, <2>4
<1>5. QED
  BY <1>1, <1>3, <1>4

\* The place wait_q_enqueue and add_to_delayed_list choose is on the list.
LEMMA PrefixLenBound ==
    ASSUME NEW S, NEW q \in Seq(S), NEW T
    PROVE  1 + PrefixLen(q, T) \in 1..(Len(q) + 1)
<1> DEFINE A == {i \in 1..Len(q) : \A j \in 1..i : q[j] \in T}
<1>1. Len(q) \in Nat
  BY LenProperties
<1>2. IsFiniteSet(1..Len(q)) /\ Cardinality(1..Len(q)) = Len(q)
  BY <1>1, FS_Interval, SMTT(30)
<1>3. A \subseteq 1..Len(q)
  OBVIOUS
<1> HIDE DEF A
<1>4. IsFiniteSet(A) /\ Cardinality(A) <= Len(q)
  BY <1>2, <1>3, FS_Subset
<1>5. Cardinality(A) \in Nat
  BY <1>4, FS_CardinalityType
<1>6. QED
  BY <1>1, <1>4, <1>5 DEF PrefixLen, A

\* The empty list.
LEMMA EmptyRange == ToSet(<<>>) = {} /\ NoDup(<<>>)
BY DEF ToSet, NoDup

\* A function on 1..k is a sequence.
LEMMA FcnIsSeq ==
    ASSUME NEW S, NEW k \in Nat, NEW f \in [1..k -> S]
    PROVE  f \in Seq(S) /\ Len(f) = k
BY SeqDef

\* A set of positions that has all those before each of its own is a prefix.
LEMMA PrefixSet ==
    ASSUME NEW L \in Nat, NEW S \in SUBSET (1..L),
           \A i \in S : \A k \in 1..i : k \in S
    PROVE  Cardinality(S) \in 0..L /\ S = 1..Cardinality(S)
<1> DEFINE c == Cardinality(S)
<1>1. IsFiniteSet(1..L) /\ Cardinality(1..L) = L
  BY FS_Interval
<1>2. IsFiniteSet(S) /\ c \in Nat /\ c <= L
  BY <1>1, FS_Subset, FS_CardinalityType, ZenonT(30)
<1>3. ASSUME NEW i \in S PROVE i <= c
  <2>1. IsFiniteSet(1..i) /\ Cardinality(1..i) = i /\ 1..i \in SUBSET S
    BY FS_Interval
  <2>2. QED
    BY <1>2, <2>1, FS_Subset
<1>4. ASSUME NEW i \in 1..L, i \notin S PROVE c < i
  <2>1. S \in SUBSET (1..(i - 1))
    <3> SUFFICES ASSUME NEW k \in S, k >= i PROVE FALSE
      OBVIOUS
    <3>1. i \in 1..k
      OBVIOUS
    <3>2. QED
      BY <3>1, <1>4
  <2>2. IsFiniteSet(1..(i - 1)) /\ Cardinality(1..(i - 1)) = i - 1
    BY FS_Interval
  <2>3. c <= i - 1
    BY <2>1, <2>2, FS_Subset
  <2>4. QED
    BY <1>2, <2>3
<1>5. S \subseteq 1..c
  BY <1>2, <1>3
<1>6. 1..c \subseteq S
  <2> SUFFICES ASSUME NEW i \in 1..c, i \notin S PROVE FALSE
    OBVIOUS
  <2>1. i \in 1..L
    BY <1>2
  <2>2. c < i
    BY <1>4, <2>1
  <2>3. QED
    BY <1>2, <2>2
<1>7. c \in 0..L
  BY <1>2
<1>8. S = 1..c
  BY <1>5, <1>6
<1>9. QED
  BY <1>7, <1>8

\* What the length of a prefix says: the elements before it are in T, the next is not.
LEMMA PrefixLenMeans ==
    ASSUME NEW S, NEW q \in Seq(S), NEW T
    PROVE  /\ PrefixLen(q, T) \in 0..Len(q)
           /\ \A i \in 1..PrefixLen(q, T) : q[i] \in T
           /\ PrefixLen(q, T) < Len(q) => q[PrefixLen(q, T) + 1] \notin T
<1> DEFINE A == {i \in 1..Len(q) : \A j \in 1..i : q[j] \in T}
           n == Cardinality(A)
<1>1. Len(q) \in Nat
  BY LenProperties
<1>2. A \in SUBSET (1..Len(q)) /\ \A i \in A : \A k \in 1..i : k \in A
  BY <1>1
<1>3. \A i \in 1..Len(q) : i \in A <=> \A j \in 1..i : q[j] \in T
  OBVIOUS
<1> HIDE DEF A
<1>4. n \in 0..Len(q) /\ A = 1..n
  BY <1>1, <1>2, PrefixSet
<1> HIDE DEF n
<1>5. \A i \in 1..n : q[i] \in T
  <2> SUFFICES ASSUME NEW i \in 1..n PROVE q[i] \in T
    OBVIOUS
  <2>1. i \in A /\ i \in 1..Len(q) /\ i \in 1..i
    BY <1>1, <1>4
  <2>2. QED
    BY <1>3, <2>1
<1>6. ASSUME n < Len(q) PROVE q[n + 1] \notin T
  <2>1. n + 1 \in 1..Len(q) /\ n + 1 \notin A
    BY <1>1, <1>4, <1>6
  <2>2. PICK j \in 1..(n + 1) : q[j] \notin T
    BY <1>3, <2>1
  <2>3. j = n + 1
    BY <1>4, <1>5, <2>2
  <2>4. QED
    BY <2>2, <2>3
<1>7. PrefixLen(q, T) = n
  BY DEF PrefixLen, n, A
<1>8. QED
  BY <1>4, <1>5, <1>6, <1>7

\* Every element of q is related by R to those after it.
InOrder(q, R) == \A i, j \in DOMAIN q : i < j => <<q[i], q[j]>> \in R

\* A list without one of its elements keeps its order.
LEMMA UnlinkInOrder ==
    ASSUME NEW S, NEW q \in Seq(S), NEW R, NEW x, InOrder(q, R)
    PROVE  InOrder(Unlink(q, x), R)
<1>1. CASE x \in ToSet(q)
  <2> DEFINE i == CHOOSE k \in DOMAIN q : q[k] = x
             r == RemoveAt(q, i)
  <2>1. i \in 1..Len(q) /\ DOMAIN q = 1..Len(q) /\ Len(q) \in Nat
    BY <1>1, LenProperties DEF ToSet
  <2>2. Unlink(q, x) = r
    BY <1>1 DEF Unlink
  <2> HIDE DEF i
  <2>3. /\ r \in Seq(S) /\ Len(r) = Len(q) - 1
        /\ \A k \in 1..(Len(q) - 1) : r[k] = IF k < i THEN q[k] ELSE q[k + 1]
    BY <2>1, RemoveAtElem
  <2> HIDE DEF r
  <2>4. DOMAIN r = 1..(Len(q) - 1)
    BY <2>3, LenProperties
  <2>5. \A y, z \in 1..Len(q) : y < z => <<q[y], q[z]>> \in R
    BY <2>1 DEF InOrder
  <2>6. ASSUME NEW y \in 1..(Len(q) - 1), NEW z \in 1..(Len(q) - 1), y < z
        PROVE  <<r[y], r[z]>> \in R
    <3> DEFINE u == IF y < i THEN y ELSE y + 1
               v == IF z < i THEN z ELSE z + 1
    <3>1. r[y] = q[u] /\ r[z] = q[v]
      BY <2>3
    <3>2. u \in 1..Len(q) /\ v \in 1..Len(q) /\ u < v
      BY <2>1, <2>6
    <3> HIDE DEF u, v
    <3>3. QED
      BY <2>5, <3>1, <3>2
  <2>7. QED
    BY <2>2, <2>4, <2>6 DEF InOrder
<1>2. CASE x \notin ToSet(q)
  BY <1>2 DEF Unlink
<1>3. QED
  BY <1>1, <1>2

\* So does a list without its head, which is related to the rest.
LEMMA TailInOrder ==
    ASSUME NEW S, NEW q \in Seq(S), NEW R, q # <<>>, InOrder(q, R)
    PROVE  /\ InOrder(Tail(q), R)
           /\ \A x \in ToSet(Tail(q)) : <<Head(q), x>> \in R
<1>1. /\ Tail(q) \in Seq(S) /\ Len(Tail(q)) = Len(q) - 1 /\ Head(q) = q[1]
      /\ \A k \in 1..Len(Tail(q)) : Tail(q)[k] = q[k + 1]
  BY HeadTailProperties
<1>2. DOMAIN q = 1..Len(q) /\ Len(q) \in Nat \ {0} /\ DOMAIN Tail(q) = 1..(Len(q) - 1)
  BY <1>1, LenProperties, EmptySeq
<1>3. InOrder(Tail(q), R)
  BY <1>1, <1>2 DEF InOrder
<1>4. ASSUME NEW k \in 1..(Len(q) - 1) PROVE <<Head(q), Tail(q)[k]>> \in R
  BY <1>1, <1>2 DEF InOrder
<1>5. QED
  BY <1>2, <1>3, <1>4 DEF ToSet

\* An element goes where the ones before are related to it, and it to the ones after.
LEMMA InsertInOrder ==
    ASSUME NEW S, NEW q \in Seq(S), NEW R, NEW x \in S, InOrder(q, R),
           NEW b \in 1..(Len(q) + 1),
           \A k \in 1..Len(q) : IF k < b THEN <<q[k], x>> \in R ELSE <<x, q[k]>> \in R
    PROVE  InOrder(InsertAt(q, b, x), R)
<1> DEFINE r == InsertAt(q, b, x)
<1>1. Len(q) \in Nat /\ DOMAIN q = 1..Len(q)
  BY LenProperties
<1>2. /\ r \in Seq(S) /\ Len(r) = Len(q) + 1
      /\ \A k \in 1..(Len(q) + 1) :
           r[k] = IF k < b THEN q[k] ELSE IF k = b THEN x ELSE q[k - 1]
  BY InsertAtElem
<1> HIDE DEF r
<1>3. DOMAIN r = 1..(Len(q) + 1)
  BY <1>2, LenProperties
<1>4. \A y, z \in 1..Len(q) : y < z => <<q[y], q[z]>> \in R
  BY <1>1 DEF InOrder
<1>5. ASSUME NEW i \in 1..(Len(q) + 1), NEW k \in 1..(Len(q) + 1), i < k
      PROVE  <<r[i], r[k]>> \in R
  <2>1. CASE k < b
    <3>1. r[i] = q[i] /\ r[k] = q[k] /\ i \in 1..Len(q) /\ k \in 1..Len(q)
      BY <1>1, <1>2, <1>5, <2>1
    <3>2. QED
      BY <1>4, <1>5, <3>1
  <2>2. CASE k = b
    <3>1. r[i] = q[i] /\ r[k] = x /\ i \in 1..Len(q) /\ i < b
      BY <1>1, <1>2, <1>5, <2>2
    <3>2. QED
      BY <3>1
  <2>3. CASE i < b /\ k > b
    <3>1. r[i] = q[i] /\ r[k] = q[k - 1] /\ i \in 1..Len(q) /\ k - 1 \in 1..Len(q) /\ i < k - 1
      BY <1>1, <1>2, <1>5, <2>3
    <3>2. QED
      BY <1>4, <3>1
  <2>4. CASE i = b
    <3>1. r[i] = x /\ r[k] = q[k - 1] /\ k - 1 \in 1..Len(q) /\ ~(k - 1 < b)
      BY <1>1, <1>2, <1>5, <2>4
    <3>2. QED
      BY <3>1
  <2>5. CASE i > b
    <3>1. /\ r[i] = q[i - 1] /\ r[k] = q[k - 1]
          /\ i - 1 \in 1..Len(q) /\ k - 1 \in 1..Len(q) /\ i - 1 < k - 1
      BY <1>1, <1>2, <1>5, <2>5
    <3>2. QED
      BY <1>4, <3>1
  <2>6. QED
    BY <1>1, <1>5, <2>1, <2>2, <2>3, <2>4, <2>5
<1>6. QED
  BY <1>3, <1>5 DEF InOrder, r

------------------------------------------------------------------------------
(* Positions of a ring: counters that run free, remainders that name slots *)

\* The quotient and the remainder are the only ones.
LEMMA ModUnique ==
    ASSUME NEW m \in Nat \ {0}, NEW q \in Int, NEW r \in 0..(m - 1)
    PROVE  (m * q + r) % m = r
<1> DEFINE a == m * q + r
           d == a \div m
           s == a % m
<1>1. a \in Int /\ d \in Int /\ s \in 0..(m - 1) /\ a = m * d + s
  OBVIOUS
<1>2. m * (q - d) = s - r
  BY <1>1
<1>3. CASE q - d >= 1
  <2>1. m * (q - d) >= m
    BY <1>1, <1>3
  <2>2. QED
    BY <1>1, <1>2, <2>1
<1>4. CASE q - d <= -1
  <2>1. m * (q - d) <= -m
    BY <1>1, <1>4
  <2>2. QED
    BY <1>1, <1>2, <2>1
<1>5. CASE q - d = 0
  BY <1>1, <1>2, <1>5
<1>6. QED
  BY <1>1, <1>3, <1>4, <1>5

\* A multiple of m more makes no difference.
LEMMA ModShift ==
    ASSUME NEW m \in Nat \ {0}, NEW a \in Int, NEW k \in Int
    PROVE  (a + m * k) % m = a % m
<1> DEFINE d == a \div m
           r == a % m
<1>1. d \in Int /\ r \in 0..(m - 1) /\ a = m * d + r
  OBVIOUS
<1>2. d + k \in Int /\ a + m * k = m * (d + k) + r
  BY <1>1
<1>3. (m * (d + k) + r) % m = r
  BY <1>1, <1>2, ModUnique
<1>4. QED
  BY <1>2, <1>3

\* What is below m is its own remainder.
LEMMA ModSmall ==
    ASSUME NEW m \in Nat \ {0}, NEW a \in 0..(m - 1)
    PROVE  a % m = a
OBVIOUS

\* Two positions less than a ring apart are different slots.
LEMMA ModApart ==
    ASSUME NEW m \in Nat \ {0}, NEW a \in Int, NEW d \in 1..(m - 1)
    PROVE  (a + d) % m # a % m
<1> DEFINE p == a \div m
           q == (a + d) \div m
           r == a % m
<1>1. p \in Int /\ r \in 0..(m - 1) /\ a = m * p + r
  OBVIOUS
<1>2. SUFFICES ASSUME (a + d) % m = r PROVE FALSE
  OBVIOUS
<1>3. q \in Int /\ a + d = m * q + r
  BY <1>2
<1>4. m * (q - p) = d
  BY <1>1, <1>3
<1>5. CASE q - p >= 1
  <2>1. m * (q - p) >= m
    BY <1>1, <1>3, <1>5
  <2>2. QED
    BY <1>4, <2>1
<1>6. CASE q - p <= 0
  <2>1. m * (q - p) <= 0
    BY <1>1, <1>3, <1>6
  <2>2. QED
    BY <1>4, <2>1
<1>7. QED
  BY <1>1, <1>3, <1>5, <1>6

\* Counters that wrap at a multiple of the ring's size name the same slot.
LEMMA ModOfMod ==
    ASSUME NEW m \in Nat \ {0}, NEW k \in Nat \ {0}, NEW a \in Int
    PROVE  (a % (m * k)) % m = a % m
<1> DEFINE M == m * k
           d == a \div M
           r == a % M
<1>1. M \in Nat \ {0}
  OBVIOUS
<1>2. d \in Int /\ r \in Int /\ a = M * d + r
  BY <1>1
<1>3. -(k * d) \in Int /\ r = a + m * (-(k * d))
  BY <1>2
<1>4. QED
  BY <1>3, ModShift

\* The next value of a counter, and the distance between two.
LEMMA CounterNext ==
    ASSUME NEW m \in Nat \ {0}, NEW x \in 0..(m - 1)
    PROVE  (x + 1) % m = IF x + 1 = m THEN 0 ELSE x + 1
<1>1. CASE x + 1 = m
  <2>1. (m * 1 + 0) % m = 0
    BY ModUnique
  <2>2. QED
    BY <1>1, <2>1
<1>2. CASE x + 1 # m
  BY <1>2, ModSmall
<1>3. QED
  BY <1>1, <1>2

\* The difference of two counters that wrap.
LEMMA CounterDiff ==
    ASSUME NEW m \in Nat \ {0}, NEW x \in 0..(m - 1), NEW y \in 0..(m - 1)
    PROVE  (x - y) % m = IF x >= y THEN x - y ELSE x - y + m
<1>1. CASE x >= y
  BY <1>1, ModSmall
<1>2. CASE x < y
  <2>1. (m * (-1) + (x - y + m)) % m = x - y + m
    BY <1>2, ModUnique
  <2>2. QED
    BY <1>2, <2>1
<1>3. QED
  BY <1>1, <1>2

\* Quotient and remainder.
LEMMA DivMod ==
    ASSUME NEW m \in Nat \ {0}, NEW a \in Int
    PROVE  a \div m \in Int /\ a % m \in 0..(m - 1) /\ a = m * (a \div m) + (a % m)
OBVIOUS

\* Positions add up before or after they wrap.
LEMMA ModAdd ==
    ASSUME NEW m \in Nat \ {0}, NEW a \in Int, NEW b \in Int
    PROVE  a % m \in 0..(m - 1) /\ ((a % m) + b) % m = (a + b) % m
<1> DEFINE d == a \div m
           r == a % m
<1>1. d \in Int /\ r \in 0..(m - 1) /\ a = m * d + r
  OBVIOUS
<1>2. r + b \in Int /\ a + b = (r + b) + m * d
  BY <1>1
<1> HIDE DEF d, r
<1>3. (a + b) % m = (r + b) % m
  BY <1>1, <1>2, ModShift, ZenonT(30)
<1>4. QED
  BY <1>1, <1>3 DEF r

\* Two positions of a ring are different slots.
LEMMA ModDistinct ==
    ASSUME NEW m \in Nat \ {0}, NEW t \in Int,
           NEW i \in 0..(m - 1), NEW j \in 0..(m - 1), i # j
    PROVE  (t + i) % m # (t + j) % m
<1>1. ASSUME NEW a \in 0..(m - 1), NEW b \in 0..(m - 1), a < b
      PROVE  (t + a) % m # (t + b) % m
  <2>1. t + a \in Int /\ b - a \in 1..(m - 1) /\ (t + a) + (b - a) = t + b
    BY <1>1
  <2>2. ((t + a) + (b - a)) % m # (t + a) % m
    BY <2>1, ModApart
  <2>3. QED
    BY <2>1, <2>2
<1>2. i < j \/ j < i
  OBVIOUS
<1>3. QED
  BY <1>1, <1>2
\* Cutting a list in two (v_bus_topic_declare, alloc_msg's fast path).
LEMMA CutRange ==
    ASSUME NEW S, NEW q \in Seq(S), NEW k \in 0..Len(q), NoDup(q)
    PROVE  LET a == SubSeq(q, 1, k)
               b == SubSeq(q, k + 1, Len(q))
           IN /\ a \in Seq(S) /\ Len(a) = k /\ NoDup(a)
              /\ b \in Seq(S) /\ Len(b) = Len(q) - k /\ NoDup(b)
              /\ ToSet(a) \cap ToSet(b) = {} /\ ToSet(a) \cup ToSet(b) = ToSet(q)
<1> DEFINE a == SubSeq(q, 1, k)
           b == SubSeq(q, k + 1, Len(q))
<1>1. Len(q) \in Nat /\ DOMAIN q = 1..Len(q) /\ k \in Nat /\ k <= Len(q)
  BY LenProperties
<1>2. a \in Seq(S) /\ Len(a) = k /\ \A i \in 1..k : a[i] = q[i]
  <2>1. \A i \in 1..k : q[i] \in S
    BY <1>1, ElementOfSeq
  <2>2. /\ a \in Seq(S) /\ Len(a) = IF 1 <= k THEN k - 1 + 1 ELSE 0
        /\ \A i \in 1..(k - 1 + 1) : a[i] = q[1 + i - 1]
    BY <1>1, <2>1, SubSeqProperties
  <2> HIDE DEF a, b
  <2>3. QED
    BY <1>1, <2>2
<1>3. b \in Seq(S) /\ Len(b) = Len(q) - k /\ \A i \in 1..(Len(q) - k) : b[i] = q[k + i]
  <2> DEFINE m == k + 1
             l == Len(q)
  <2>1. m \in Int /\ l \in Int /\ \A i \in m..l : q[i] \in S
    BY <1>1, ElementOfSeq
  <2>2. b = SubSeq(q, m, l)
    OBVIOUS
  <2> HIDE DEF a, b, m, l
  <2>3. /\ b \in Seq(S) /\ Len(b) = IF m <= l THEN l - m + 1 ELSE 0
        /\ \A i \in 1..(l - m + 1) : b[i] = q[m + i - 1]
    BY <2>1, <2>2, SubSeqProperties
  <2>4. m = k + 1 /\ l = Len(q)
    BY DEF m, l
  <2>5. Len(b) = l - k /\ l - m + 1 = l - k
    BY <1>1, <2>3, <2>4
  <2>6. ASSUME NEW i \in 1..(l - k) PROVE b[i] = q[k + i]
    <3>1. m + i - 1 = k + i
      BY <1>1, <2>4
    <3>2. i \in 1..(l - m + 1)
      BY <2>5
    <3>3. b[i] = q[m + i - 1]
      BY <2>3, <3>2
    <3>4. QED
      BY <3>1, <3>3
  <2>7. QED
    BY <2>3, <2>4, <2>5, <2>6
<1>4. DOMAIN a = 1..k /\ DOMAIN b = 1..(Len(q) - k)
  BY <1>2, <1>3, LenProperties
<1> HIDE DEF a, b
<1>5. \A i, j \in 1..Len(q) : q[i] = q[j] => i = j
  BY <1>1 DEF NoDup
<1>6. NoDup(a)
  BY <1>5, <1>1, <1>2, <1>4 DEF NoDup
<1>7. ASSUME NEW i \in 1..(Len(q) - k), NEW j \in 1..(Len(q) - k), b[i] = b[j] PROVE i = j
  <2>1. k + i \in 1..Len(q) /\ k + j \in 1..Len(q) /\ q[k + i] = q[k + j]
    BY <1>7, <1>1, <1>3
  <2>2. k + i = k + j
    BY <2>1, <1>5
  <2>3. QED
    BY <2>2, <1>1
<1>8. NoDup(b)
  BY <1>7, <1>4 DEF NoDup
<1>9. ASSUME NEW x \in ToSet(a), x \in ToSet(b) PROVE FALSE
  <2>1. PICK i \in 1..k : x = q[i]
    BY <1>2, <1>4 DEF ToSet
  <2>2. PICK j \in 1..(Len(q) - k) : x = q[k + j]
    BY <1>9, <1>3, <1>4 DEF ToSet
  <2>3. i \in 1..Len(q) /\ k + j \in 1..Len(q) /\ i # k + j
    BY <2>1, <2>2, <1>1
  <2>4. QED
    BY <2>1, <2>2, <2>3, <1>5
<1>10. ASSUME NEW x \in ToSet(q) PROVE x \in ToSet(a) \/ x \in ToSet(b)
  <2>1. PICK i \in 1..Len(q) : x = q[i]
    BY <1>1 DEF ToSet
  <2>2. CASE i <= k
    BY <2>1, <2>2, <1>1, <1>2, <1>4 DEF ToSet
  <2>3. CASE i > k
    <3>1. i - k \in 1..(Len(q) - k) /\ k + (i - k) = i
      BY <2>1, <2>3, <1>1
    <3>2. QED
      BY <2>1, <3>1, <1>3, <1>4 DEF ToSet
  <2>4. QED
    BY <2>1, <2>2, <2>3, <1>1
<1>11. ASSUME NEW x, x \in ToSet(a) \/ x \in ToSet(b) PROVE x \in ToSet(q)
  <2>1. CASE x \in ToSet(a)
    <3>1. PICK i \in 1..k : x = q[i]
      BY <2>1, <1>2, <1>4 DEF ToSet
    <3>2. i \in DOMAIN q
      BY <3>1, <1>1
    <3>3. QED
      BY <3>1, <3>2 DEF ToSet
  <2>2. CASE x \in ToSet(b)
    <3>1. PICK i \in 1..(Len(q) - k) : x = q[k + i]
      BY <2>2, <1>3, <1>4 DEF ToSet
    <3>2. k + i \in DOMAIN q
      BY <3>1, <1>1
    <3>3. QED
      BY <3>1, <3>2 DEF ToSet
  <2>3. QED
    BY <1>11, <2>1, <2>2
<1>12. QED
  BY <1>2, <1>3, <1>6, <1>8, <1>9, <1>10, <1>11 DEF a, b

\* Turning a list round (the order in which blocks are stacked).
LEMMA ReverseRange ==
    ASSUME NEW S, NEW q \in Seq(S), NoDup(q)
    PROVE  /\ Reverse(q) \in Seq(S) /\ Len(Reverse(q)) = Len(q)
           /\ NoDup(Reverse(q)) /\ ToSet(Reverse(q)) = ToSet(q)
<1> DEFINE n == Len(q)
           r == Reverse(q)
<1>1. n \in Nat /\ DOMAIN q = 1..n /\ \A i \in 1..n : q[i] \in S /\ (n - i) + 1 \in 1..n
  BY LenProperties, ElementOfSeq
<1>2. r = [i \in 1..n |-> q[(n - i) + 1]]
  BY DEF Reverse
<1> HIDE DEF n, r
<1>3. r \in [1..n -> S]
  BY <1>1, <1>2
<1>4. r \in Seq(S) /\ Len(r) = n
  BY <1>1, <1>3, FcnIsSeq
<1>5. DOMAIN r = 1..n /\ \A i \in 1..n : r[i] = q[(n - i) + 1]
  BY <1>2
<1>6. ASSUME NEW i \in 1..n, NEW j \in 1..n, r[i] = r[j] PROVE i = j
  <2>1. (n - i) + 1 \in DOMAIN q /\ (n - j) + 1 \in DOMAIN q /\ q[(n - i) + 1] = q[(n - j) + 1]
    BY <1>6, <1>5, <1>1
  <2>2. (n - i) + 1 = (n - j) + 1
    BY <2>1 DEF NoDup
  <2>3. QED
    BY <2>2, <1>1
<1>7. NoDup(r)
  BY <1>6, <1>5 DEF NoDup
<1>8. ASSUME NEW x \in ToSet(q) PROVE x \in ToSet(r)
  <2>1. PICK i \in 1..n : x = q[i]
    BY <1>1 DEF ToSet
  <2>2. (n - i) + 1 \in 1..n /\ (n - ((n - i) + 1)) + 1 = i
    BY <2>1, <1>1
  <2>3. QED
    BY <2>1, <2>2, <1>5 DEF ToSet
<1>9. ASSUME NEW x \in ToSet(r) PROVE x \in ToSet(q)
  BY <1>1, <1>5 DEF ToSet
<1>10. QED
  BY <1>4, <1>7, <1>8, <1>9 DEF n, r
==============================================================================

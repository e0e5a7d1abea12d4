------------------------- MODULE PacketQueueProofs -------------------------
(***************************************************************************)
(* Proofs about PacketQueue, for every set of streams and kinds of packets, *)
(* every order of calls and every bound: the count, the fast path and the   *)
(* schedule of the streams agree with the packets that wait, and the        *)
(* packets of one stream and priority leave in the order they came.         *)
(***************************************************************************)
EXTENDS PacketQueue, FiniteSetTheorems, SequenceTheorems, WellFoundedInduction, TLAPS

-----------------------------------------------------------------------------
(* The schedule as a sequence *)

IsSeq(q) == \E T : q \in Seq(T)

\* Stream x has an entry in the schedule q.
Listed(q, x) == \E i \in 1..Len(q) : q[i].ssrc = x

\* No stream has two entries.
Once(q) == \A i, j \in 1..Len(q) : q[i].ssrc = q[j].ssrc => i = j

\* RemoveAt leaves out one place and moves the later ones forward.
LEMMA Removing ==
  ASSUME NEW T, NEW q \in Seq(T), NEW k \in 1..Len(q)
  PROVE /\ RemoveAt(q, k) \in Seq(T) /\ Len(RemoveAt(q, k)) = Len(q) - 1
        /\ \A i \in 1..Len(q) - 1 : RemoveAt(q, k)[i] = IF i < k THEN q[i] ELSE q[i + 1]
<1> DEFINE a == SubSeq(q, 1, k - 1)
           b == SubSeq(q, k + 1, Len(q))
<1>0. Len(q) \in Nat /\ k \in Nat /\ k >= 1 /\ k <= Len(q)
  BY LenProperties
<1>1. a \in Seq(T) /\ Len(a) = k - 1 /\ \A i \in 1..k - 1 : a[i] = q[i]
  BY <1>0, SubSeqProperties
<1>2. b \in Seq(T) /\ Len(b) = Len(q) - k /\ \A i \in 1..Len(q) - k : b[i] = q[k + i]
  BY <1>0, SubSeqProperties
<1> HIDE DEF a, b
<1>3. /\ a \o b \in Seq(T) /\ Len(a \o b) = Len(a) + Len(b)
      /\ \A i \in 1..Len(a) + Len(b) : (a \o b)[i] = IF i <= Len(a) THEN a[i] ELSE b[i - Len(a)]
  BY <1>1, <1>2, ConcatProperties
<1>4. Len(a) + Len(b) = Len(q) - 1
  BY <1>0, <1>1, <1>2
<1>5. ASSUME NEW i \in 1..Len(q) - 1 PROVE (a \o b)[i] = IF i < k THEN q[i] ELSE q[i + 1]
  <2>1. CASE i < k
    BY <1>0, <1>1, <1>3, <1>4, <2>1
  <2>2. CASE ~(i < k)
    <3> DEFINE j == i - (k - 1)
    <3>1. j \in 1..Len(q) - k /\ k + j = i + 1 /\ ~(i <= k - 1)
      BY <1>0, <2>2
    <3>2. (a \o b)[i] = b[j]
      BY <1>1, <1>3, <1>4, <3>1
    <3> HIDE DEF j
    <3> QED
      BY <1>2, <2>2, <3>1, <3>2
  <2> QED
    BY <2>1, <2>2
<1> QED
  BY <1>3, <1>4, <1>5 DEF RemoveAt, a, b

\* InsertAt puts one entry in and moves the later ones back.
LEMMA Inserting ==
  ASSUME NEW T, NEW q \in Seq(T), NEW k \in 1..Len(q) + 1, NEW e \in T
  PROVE /\ InsertAt(q, k, e) \in Seq(T) /\ Len(InsertAt(q, k, e)) = Len(q) + 1
        /\ \A i \in 1..Len(q) + 1 : InsertAt(q, k, e)[i] = IF i < k THEN q[i] ELSE IF i = k THEN e ELSE q[i - 1]
<1> DEFINE a == SubSeq(q, 1, k - 1)
           b == SubSeq(q, k, Len(q))
           c == <<e>>
           ac == a \o c
<1>0. Len(q) \in Nat /\ k \in Nat /\ k >= 1 /\ k <= Len(q) + 1
  BY LenProperties
<1>1. a \in Seq(T) /\ Len(a) = k - 1 /\ \A i \in 1..k - 1 : a[i] = q[i]
  BY <1>0, SubSeqProperties
<1>2. b \in Seq(T) /\ Len(b) = Len(q) - k + 1 /\ \A i \in 1..Len(q) - k + 1 : b[i] = q[k + i - 1]
  BY <1>0, SubSeqProperties
<1>3. c \in Seq(T) /\ Len(c) = 1 /\ c[1] = e
  OBVIOUS
<1> HIDE DEF a, b, c
<1>4. /\ ac \in Seq(T) /\ Len(ac) = k
      /\ \A i \in 1..k : ac[i] = IF i <= k - 1 THEN a[i] ELSE c[i - (k - 1)]
  <2>1. /\ ac \in Seq(T) /\ Len(ac) = Len(a) + Len(c)
        /\ \A i \in 1..Len(a) + Len(c) : ac[i] = IF i <= Len(a) THEN a[i] ELSE c[i - Len(a)]
    BY <1>1, <1>3, ConcatProperties
  <2>2. Len(a) + Len(c) = k
    BY <1>0, <1>1, <1>3
  <2> QED
    BY <1>1, <2>1, <2>2
<1>5. (\A i \in 1..k : i < k => ac[i] = q[i]) /\ ac[k] = e
  BY <1>0, <1>1, <1>3, <1>4
<1> HIDE DEF ac
<1>6. /\ ac \o b \in Seq(T) /\ Len(ac \o b) = Len(ac) + Len(b)
      /\ \A i \in 1..Len(ac) + Len(b) : (ac \o b)[i] = IF i <= Len(ac) THEN ac[i] ELSE b[i - Len(ac)]
  BY <1>2, <1>4, ConcatProperties
<1>7. Len(ac) + Len(b) = Len(q) + 1
  BY <1>0, <1>2, <1>4
<1>8. ASSUME NEW i \in 1..Len(q) + 1
      PROVE (ac \o b)[i] = IF i < k THEN q[i] ELSE IF i = k THEN e ELSE q[i - 1]
  <2>1. CASE i <= k
    BY <1>0, <1>4, <1>5, <1>6, <1>7, <2>1
  <2>2. CASE ~(i <= k)
    <3> DEFINE j == i - k
    <3>1. j \in 1..Len(q) - k + 1 /\ k + j - 1 = i - 1 /\ ~(i < k) /\ i # k
      BY <1>0, <2>2
    <3>2. (ac \o b)[i] = b[j]
      BY <1>4, <1>6, <1>7, <2>2
    <3> HIDE DEF j
    <3> QED
      BY <1>2, <3>1, <3>2
  <2> QED
    BY <2>1, <2>2
<1> QED
  BY <1>6, <1>7, <1>8 DEF InsertAt, ac, a, b, c

\* The entry of stream x is taken out.
LEMMA UnscheduledList ==
  ASSUME NEW q, IsSeq(q), Once(q), NEW x
  PROVE /\ IsSeq(Unscheduled(q, x)) /\ Once(Unscheduled(q, x))
        /\ \A y : Listed(Unscheduled(q, x), y) <=> Listed(q, y) /\ y # x
<1>0. PICK T : q \in Seq(T)
  BY DEF IsSeq
<1>1. CASE ~Listed(q, x)
  <2>1. Unscheduled(q, x) = q
    BY <1>1 DEF Unscheduled, RemoveFirstMatch, Listed
  <2> QED
    BY <1>1, <2>1
<1>2. CASE Listed(q, x)
  <2>1. PICK k \in 1..Len(q) : q[k].ssrc = x
    BY <1>2 DEF Listed
  <2>2. {i \in 1..Len(q) : q[i].ssrc = x} = {k}
    BY <2>1 DEF Once
  <2>3. k \in Int
    BY <2>1
  <2>4. Min({k}) = k
    BY <2>3 DEF Min
  <2>5. SelectInSeq(q, LAMBDA e : e.ssrc = x) = k
    BY <2>2, <2>4 DEF SelectInSeq
  <2>6. Unscheduled(q, x) = RemoveAt(q, k)
    BY <2>1, <2>5 DEF Unscheduled, RemoveFirstMatch
  <2> DEFINE r == RemoveAt(q, k)
  <2>7. /\ r \in Seq(T) /\ Len(r) = Len(q) - 1
        /\ \A i \in 1..Len(q) - 1 : r[i] = IF i < k THEN q[i] ELSE q[i + 1]
    BY <1>0, Removing
  <2>8. Len(q) \in Nat /\ k \in 1..Len(q)
    BY <1>0, LenProperties
  <2> HIDE DEF r
  <2> DEFINE old(i) == IF i < k THEN i ELSE i + 1
  <2>9. \A i \in 1..Len(r) : old(i) \in 1..Len(q) /\ old(i) # k /\ r[i] = q[old(i)]
    BY <2>7, <2>8
  <2>10. \A i, j \in 1..Len(r) : old(i) = old(j) => i = j
    BY <2>7, <2>8
  <2>11. \A j \in 1..Len(q) : j # k => \E i \in 1..Len(r) : old(i) = j
    <3> SUFFICES ASSUME NEW j \in 1..Len(q), j # k PROVE \E i \in 1..Len(r) : old(i) = j
      OBVIOUS
    <3>1. CASE j < k
      <4>1. j \in 1..Len(r) /\ old(j) = j
        BY <2>7, <2>8, <3>1
      <4> QED
        BY <4>1
    <3>2. CASE ~(j < k)
      <4>1. j - 1 \in 1..Len(r) /\ old(j - 1) = j
        BY <2>7, <2>8, <3>2
      <4> QED
        BY <4>1
    <3> QED
      BY <3>1, <3>2
  <2> HIDE DEF old
  <2>12. Once(r)
    <3> SUFFICES ASSUME NEW i \in 1..Len(r), NEW j \in 1..Len(r), r[i].ssrc = r[j].ssrc PROVE i = j
      BY DEF Once
    <3>1. /\ old(i) \in 1..Len(q) /\ r[i] = q[old(i)]
          /\ old(j) \in 1..Len(q) /\ r[j] = q[old(j)]
      BY <2>9
    <3>2. old(i) = old(j)
      BY <3>1 DEF Once
    <3> QED
      BY <2>10, <3>2
  <2>13. ASSUME NEW y PROVE Listed(r, y) <=> Listed(q, y) /\ y # x
    <3>1. ASSUME NEW i \in 1..Len(r), r[i].ssrc = y PROVE Listed(q, y) /\ y # x
      BY <2>1, <2>8, <2>9, <3>1 DEF Listed, Once
    <3>2. ASSUME NEW j \in 1..Len(q), q[j].ssrc = y, y # x PROVE Listed(r, y)
      BY <2>1, <2>9, <2>11, <3>2 DEF Listed
    <3> QED
      BY <3>1, <3>2 DEF Listed
  <2> QED
    BY <2>6, <2>7, <2>12, <2>13 DEF IsSeq, r
<1> QED
  BY <1>1, <1>2

\* An entry for a stream without one is put in.
LEMMA InsertedList ==
  ASSUME NEW q, IsSeq(q), Once(q), NEW k \in 1..Len(q) + 1, NEW e, ~Listed(q, e.ssrc)
  PROVE /\ IsSeq(InsertAt(q, k, e)) /\ Once(InsertAt(q, k, e))
        /\ \A y : Listed(InsertAt(q, k, e), y) <=> Listed(q, y) \/ y = e.ssrc
<1>0. PICK S : q \in Seq(S)
  BY DEF IsSeq
<1> DEFINE T == S \cup {e}
           r == InsertAt(q, k, e)
<1>1. q \in Seq(T) /\ Len(q) \in Nat /\ k \in 1..Len(q) + 1
  BY <1>0, SeqMonotonic, LenProperties
<1>2. /\ r \in Seq(T) /\ Len(r) = Len(q) + 1
      /\ \A i \in 1..Len(q) + 1 : r[i] = IF i < k THEN q[i] ELSE IF i = k THEN e ELSE q[i - 1]
  BY <1>1, Inserting
<1> HIDE DEF T, r
<1> DEFINE old(i) == IF i < k THEN i ELSE i - 1
<1>3. k \in 1..Len(r) /\ r[k] = e
  BY <1>1, <1>2
<1>4. \A i \in 1..Len(r) : i # k => old(i) \in 1..Len(q) /\ r[i] = q[old(i)]
  BY <1>1, <1>2
<1>5. \A i, j \in 1..Len(r) : i # k /\ j # k /\ old(i) = old(j) => i = j
  BY <1>1, <1>2
<1>6. \A j \in 1..Len(q) : \E i \in 1..Len(r) : i # k /\ old(i) = j
  <2> SUFFICES ASSUME NEW j \in 1..Len(q) PROVE \E i \in 1..Len(r) : i # k /\ old(i) = j
    OBVIOUS
  <2>1. CASE j < k
    <3>1. j \in 1..Len(r) /\ j # k /\ old(j) = j
      BY <1>1, <1>2, <2>1
    <3> QED
      BY <3>1
  <2>2. CASE ~(j < k)
    <3>1. j + 1 \in 1..Len(r) /\ j + 1 # k /\ old(j + 1) = j
      BY <1>1, <1>2, <2>2
    <3> QED
      BY <3>1
  <2> QED
    BY <2>1, <2>2
<1> HIDE DEF old
<1>7. \A i \in 1..Len(r) : i # k => r[i].ssrc # e.ssrc
  BY <1>4 DEF Listed
<1>8. Once(r)
  <2> SUFFICES ASSUME NEW i \in 1..Len(r), NEW j \in 1..Len(r), r[i].ssrc = r[j].ssrc PROVE i = j
    BY DEF Once
  <2>1. CASE i # k /\ j # k
    <3>1. /\ old(i) \in 1..Len(q) /\ r[i] = q[old(i)]
          /\ old(j) \in 1..Len(q) /\ r[j] = q[old(j)]
      BY <1>4, <2>1
    <3>2. old(i) = old(j)
      BY <3>1 DEF Once
    <3> QED
      BY <1>5, <2>1, <3>2
  <2>2. CASE i = k \/ j = k
    BY <1>3, <1>7, <2>2
  <2> QED
    BY <2>1, <2>2
<1>9. ASSUME NEW y PROVE Listed(r, y) <=> Listed(q, y) \/ y = e.ssrc
  <2>1. ASSUME NEW i \in 1..Len(r), r[i].ssrc = y PROVE Listed(q, y) \/ y = e.ssrc
    BY <1>3, <1>4, <2>1 DEF Listed
  <2>2. ASSUME NEW j \in 1..Len(q), q[j].ssrc = y PROVE Listed(r, y)
    BY <1>4, <1>6, <2>2 DEF Listed
  <2>3. Listed(r, e.ssrc)
    BY <1>3 DEF Listed
  <2> QED
    BY <2>1, <2>2, <2>3 DEF Listed
<1> QED
  BY <1>2, <1>8, <1>9 DEF IsSeq, r

\* A stream is scheduled with a new key: it has one entry, the others keep theirs.
LEMMA ScheduledList ==
  ASSUME NEW q, IsSeq(q), Once(q), NEW x, NEW prio, NEW sent
  PROVE /\ IsSeq(Scheduled(q, x, prio, sent)) /\ Once(Scheduled(q, x, prio, sent))
        /\ \A y : Listed(Scheduled(q, x, prio, sent), y) <=> Listed(q, y) \/ y = x
<1> DEFINE e == [prio |-> prio, sent_size |-> sent, ssrc |-> x]
           rest == Unscheduled(q, x)
           P == {i \in DOMAIN rest : ~KeyBefore(e, rest[i])}
           k == 1 + Cardinality(P)
<1>1. IsSeq(rest) /\ Once(rest) /\ (\A y : Listed(rest, y) <=> Listed(q, y) /\ y # x) /\ e.ssrc = x
  BY UnscheduledList
<1> HIDE DEF e, rest
<1>2. Len(rest) \in Nat /\ DOMAIN rest = 1..Len(rest)
  BY <1>1, LenProperties DEF IsSeq
<1>3. IsFiniteSet(1..Len(rest)) /\ Cardinality(1..Len(rest)) = Len(rest)
  <2> DEFINE n == Len(rest)
  <2>1. n \in Nat /\ n \in Int /\ 1 \in Int
    BY <1>2
  <2> HIDE DEF n
  <2>2. IsFiniteSet(1..n) /\ Cardinality(1..n) = IF 1 > n THEN 0 ELSE n - 1 + 1
    BY <2>1, FS_Interval
  <2>3. Cardinality(1..n) = n
    BY <2>1, <2>2
  <2> QED
    BY <2>2, <2>3 DEF n
<1>4. P \subseteq 1..Len(rest)
  BY <1>2
<1>5. IsFiniteSet(P) /\ Cardinality(P) <= Len(rest) /\ Cardinality(P) \in Nat
  <2> HIDE DEF P
  <2> QED
    BY <1>3, <1>4, FS_Subset, FS_CardinalityType
<1>6. k \in 1..Len(rest) + 1
  BY <1>2, <1>5
<1> HIDE DEF k
<1>7. /\ IsSeq(InsertAt(rest, k, e)) /\ Once(InsertAt(rest, k, e))
      /\ \A y : Listed(InsertAt(rest, k, e), y) <=> Listed(rest, y) \/ y = e.ssrc
  BY <1>1, <1>6, InsertedList
<1>8. Scheduled(q, x, prio, sent) = InsertAt(rest, k, e)
  BY DEF Scheduled, rest, k, e
<1> QED
  BY <1>1, <1>7, <1>8

-----------------------------------------------------------------------------
(* The streams and their schedule *)

\* The packets of a stream are in its queue, and a stream is scheduled, once, exactly
\* while it has packets.
InStep(st, q) ==
    /\ st = [s \in Ssrcs |-> st[s]]
    /\ \A s \in Ssrcs : st[s] = [queue |-> st[s].queue, sent_size |-> st[s].sent_size]
    /\ \A s \in Ssrcs : \A p \in st[s].queue : p.kind.ssrc = s
    /\ IsSeq(q) /\ Once(q)
    /\ \A s : Listed(q, s) <=> s \in Ssrcs /\ st[s].queue # {}

\* Packets with the ids given out so far, no two with one id.
Numbered(S, n) ==
    /\ \A p \in S : p.kind \in Kinds /\ p.id \in Nat /\ p.id < n
    /\ \A p, q \in S : p.id = q.id => p = q

\* A packet is entered in its stream.
LEMMA EnqueuedStream ==
  ASSUME NEW st, NEW q, InStep(st, q), NEW p, p.kind.ssrc \in Ssrcs, NEW prio, NEW sent
  PROVE /\ InStep(Enqueued(st, p), Scheduled(q, p.kind.ssrc, prio, sent))
        /\ Waiting(Enqueued(st, p)) = Waiting(st) \cup {p}
<1> DEFINE x == p.kind.ssrc
           e == Enqueued(st, p)
           r == Scheduled(q, x, prio, sent)
<1>1. /\ e = [s \in Ssrcs |-> e[s]]
      /\ \A s \in Ssrcs : s # x => e[s] = st[s]
      /\ e[x].queue = st[x].queue \cup {p}
      /\ e[x] = [queue |-> e[x].queue, sent_size |-> e[x].sent_size]
  <2> DEFINE u == st[x]
             v == [u EXCEPT !.queue = u.queue \cup {p}]
  <2>1. e = [st EXCEPT ![x] = v]
    BY DEF Enqueued
  <2>2. u = [queue |-> u.queue, sent_size |-> u.sent_size] /\ st = [s \in Ssrcs |-> st[s]]
    BY DEF InStep
  <2> HIDE DEF u, e
  <2>3. v = [queue |-> u.queue \cup {p}, sent_size |-> u.sent_size]
    BY <2>2
  <2> HIDE DEF v
  <2>4. v.queue = u.queue \cup {p} /\ v = [queue |-> v.queue, sent_size |-> v.sent_size]
    BY <2>3
  <2>5. e = [s \in Ssrcs |-> IF s = x THEN v ELSE st[s]]
    BY <2>1, <2>2
  <2>6. e[x] = v /\ e = [s \in Ssrcs |-> e[s]] /\ \A s \in Ssrcs : s # x => e[s] = st[s]
    BY <2>5
  <2> QED
    BY <2>4, <2>6 DEF u
<1>2. IsSeq(r) /\ Once(r) /\ \A y : Listed(r, y) <=> Listed(q, y) \/ y = x
  BY ScheduledList DEF InStep
<1> HIDE DEF e, r
<1>3. \A s \in Ssrcs : e[s] = [queue |-> e[s].queue, sent_size |-> e[s].sent_size]
  BY <1>1 DEF InStep
<1>4. \A s \in Ssrcs : \A t \in e[s].queue : t.kind.ssrc = s
  <2>1. ASSUME NEW s \in Ssrcs, NEW t \in st[s].queue PROVE t.kind.ssrc = s
    BY DEF InStep
  <2> QED
    BY <1>1, <2>1
<1>5. \A s : Listed(r, s) <=> s \in Ssrcs /\ e[s].queue # {}
  BY <1>1, <1>2 DEF InStep
<1>6. Waiting(e) = Waiting(st) \cup {p}
  BY <1>1 DEF Waiting
<1> QED
  BY <1>1, <1>2, <1>3, <1>4, <1>5, <1>6 DEF InStep, e, r

\* A set of numbers that is not empty has a least one.
LEMMA LeastNumber ==
  ASSUME NEW S \in SUBSET Nat, S # {}
  PROVE \E m \in S : \A y \in S : m <= y
<1>1. PICK m \in S : \A y \in S : ~(<<y, m>> \in OpToRel(<, Nat))
  BY WFMin, NatLessThanWellFounded
<1>2. ASSUME NEW y \in S PROVE m <= y
  <2>1. y \in Nat /\ m \in Nat
    OBVIOUS
  <2>2. ~(y < m)
    BY <1>1, <2>1 DEF OpToRel
  <2> QED
    BY <2>1, <2>2
<1> QED
  BY <1>2

\* The top of a queue that is not empty is one of its packets and leaves before the others.
LEMMA TopFirst ==
  ASSUME NEW Q, Q # {}, NEW n, Numbered(Q, n)
  PROVE Top(Q) \in Q /\ \A q \in Q : q = Top(Q) \/ Before(Top(Q), q)
<1>0. \A p \in Q : p.kind.prio \in Nat /\ p.id \in Nat
  BY QueueConstants DEF Numbered
<1> DEFINE A == {p.kind.prio : p \in Q}
<1>1. A \in SUBSET Nat /\ A # {}
  BY <1>0
<1>2. PICK m \in A : \A y \in A : m <= y
  <2> HIDE DEF A
  <2> QED
    BY <1>1, LeastNumber
<1> DEFINE P == {p \in Q : p.kind.prio = m}
           B == {p.id : p \in P}
<1>3. B \in SUBSET Nat /\ B # {}
  BY <1>0
<1>4. PICK l \in B : \A y \in B : l <= y
  <2> HIDE DEF B
  <2> QED
    BY <1>3, LeastNumber
<1>5. PICK p \in Q : p.kind.prio = m /\ p.id = l
  OBVIOUS
<1>6. ASSUME NEW q \in Q PROVE q = p \/ Before(p, q)
  <2>1. m \in Nat /\ q.kind.prio \in Nat /\ m <= q.kind.prio /\ p.kind.prio = m /\ p.id = l
    BY <1>0, <1>2, <1>5
  <2>2. CASE q.kind.prio = m
    <3>1. l <= q.id /\ q.id \in Nat /\ p.id \in Nat
      BY <1>0, <1>4, <2>2
    <3>2. p.id = q.id => p = q
      BY DEF Numbered
    <3>3. CASE p.id = q.id
      BY <3>2, <3>3
    <3>4. CASE p.id # q.id
      <4>1. p.id < q.id
        BY <2>1, <3>1, <3>4
      <4> QED
        BY <2>1, <2>2, <4>1 DEF Before
    <3> QED
      BY <3>3, <3>4
  <2>3. CASE q.kind.prio # m
    <3>1. p.kind.prio < q.kind.prio
      BY <2>1, <2>3
    <3> QED
      BY <3>1 DEF Before
  <2> QED
    BY <2>2, <2>3
<1>7. \E t \in Q : \A q \in Q : q = t \/ Before(t, q)
  BY <1>6
<1> QED
  BY <1>7 DEF Top

-----------------------------------------------------------------------------
(* The invariant *)

\* The count is that of the packets; the fast path holds at most one and is used alone.
QueueInv ==
    /\ packet_counter \in Nat
    /\ IsFiniteSet(AllPackets) /\ num_packets = Cardinality(AllPackets)
    /\ \A p, q \in single_packet_queue : p = q
    /\ single_packet_queue # {} => Waiting(streams) = {}
    /\ InStep(streams, stream_priorities)
    /\ Numbered(AllPackets, packet_counter)

\* The invariant says what the assertions of the queue say.
LEMMA InvScheduling == QueueInv => Scheduling
<1> SUFFICES ASSUME QueueInv PROVE Scheduling
  OBVIOUS
<1> DEFINE q == stream_priorities
<1>1. DOMAIN q = 1..Len(q)
  BY LenProperties DEF QueueInv, InStep, IsSeq
<1>2. ASSUME NEW s \in Ssrcs
      PROVE Cardinality({i \in DOMAIN q : q[i].ssrc = s}) = IF streams[s].queue = {} THEN 0 ELSE 1
  <2> DEFINE I == {i \in DOMAIN q : q[i].ssrc = s}
  <2>1. Listed(q, s) <=> streams[s].queue # {}
    BY DEF QueueInv, InStep
  <2>2. CASE streams[s].queue = {}
    <3>1. I = {}
      BY <1>1, <2>1, <2>2 DEF Listed
    <3> QED
      BY <2>2, <3>1, FS_EmptySet
  <2>3. CASE streams[s].queue # {}
    <3>1. PICK k \in 1..Len(q) : q[k].ssrc = s
      BY <2>1, <2>3 DEF Listed
    <3>2. I = {k}
      BY <1>1, <3>1 DEF QueueInv, InStep, Once
    <3> QED
      BY <2>3, <3>2, FS_Singleton
  <2> QED
    BY <2>2, <2>3
<1> QED
  BY <1>2 DEF QueueInv, Scheduling

LEMMA QueueInit == Init => QueueInv
<1> SUFFICES ASSUME Init PROVE QueueInv
  OBVIOUS
<1>1. Waiting(streams) = {} /\ AllPackets = {}
  BY DEF Init, Waiting, AllPackets
<1>2. stream_priorities \in Seq({}) /\ Len(stream_priorities) = 0
  BY EmptySeq DEF Init
<1>3. IsSeq(stream_priorities) /\ Once(stream_priorities) /\ \A x : ~Listed(stream_priorities, x)
  BY <1>2 DEF IsSeq, Once, Listed
<1>4. InStep(streams, stream_priorities)
  BY <1>3 DEF Init, InStep
<1> QED
  BY <1>1, <1>4, FS_EmptySet DEF Init, QueueInv, Numbered

\* The packet on the fast path is entered in its stream.
LEMMA PromotedStreams ==
  ASSUME QueueInv
  PROVE InStep(Promoted.streams, Promoted.prios) /\ Waiting(Promoted.streams) = AllPackets
<1>1. CASE single_packet_queue = {}
  <2>1. Promoted.streams = streams /\ Promoted.prios = stream_priorities
    BY <1>1 DEF Promoted
  <2>2. AllPackets = Waiting(streams)
    BY <1>1 DEF AllPackets
  <2> QED
    BY <2>1, <2>2 DEF QueueInv
<1>2. CASE single_packet_queue # {}
  <2> DEFINE p == CHOOSE q \in single_packet_queue : TRUE
             sent == streams[p.kind.ssrc].sent_size
  <2>1. p \in single_packet_queue
    BY <1>2
  <2>2. single_packet_queue = {p} /\ AllPackets = Waiting(streams) \cup {p}
    BY <2>1 DEF QueueInv, AllPackets
  <2>3. /\ Promoted.streams = Enqueued(streams, p)
        /\ Promoted.prios = Scheduled(stream_priorities, p.kind.ssrc, p.kind.prio, sent)
    BY <1>2 DEF Promoted
  <2> HIDE DEF p, sent
  <2>4. p.kind.ssrc \in Ssrcs
    BY <2>2, QueueConstants DEF QueueInv, Numbered
  <2>5. InStep(streams, stream_priorities)
    BY DEF QueueInv
  <2>6. /\ InStep(Enqueued(streams, p), Scheduled(stream_priorities, p.kind.ssrc, p.kind.prio, sent))
        /\ Waiting(Enqueued(streams, p)) = Waiting(streams) \cup {p}
    BY <2>4, <2>5, EnqueuedStream
  <2> QED
    BY <2>2, <2>3, <2>6
<1> QED
  BY <1>1, <1>2

\* A packet with the next id joins the others.
LEMMA NewNumbered ==
  ASSUME NEW S, NEW n \in Nat, Numbered(S, n), IsFiniteSet(S), NEW p, p.kind \in Kinds, p.id = n
  PROVE /\ Numbered(S \cup {p}, n + 1) /\ p \notin S
        /\ IsFiniteSet(S \cup {p}) /\ Cardinality(S \cup {p}) = Cardinality(S) + 1
<1>1. \A q \in S : q.kind \in Kinds /\ q.id \in Nat /\ q.id < n
  BY DEF Numbered
<1>2. \A q \in S : q.id # p.id /\ q.id < n + 1
  BY <1>1
<1>3. p \notin S /\ p.id \in Nat /\ p.id < n + 1
  BY <1>2
<1>4. Numbered(S \cup {p}, n + 1)
  BY <1>1, <1>2, <1>3 DEF Numbered
<1> QED
  BY <1>3, <1>4, FS_AddElement

LEMMA PushSingleKeeps ==
  ASSUME QueueInv, NEW kind \in Kinds, PushSingle(kind)
  PROVE /\ QueueInv' /\ AllPackets = {}
        /\ AllPackets' = AllPackets \cup {NewPacket(kind)} /\ NewPacket(kind) \notin AllPackets
<1> DEFINE p == NewPacket(kind)
<1>1. AllPackets = {} /\ Waiting(streams) = {}
  <2>1. Cardinality(AllPackets) = 0
    BY DEF PushSingle, FastPath, QueueInv
  <2> QED
    BY <2>1, FS_EmptySet DEF QueueInv, AllPackets
<1>2. p.kind = kind /\ p.id = packet_counter
  BY DEF NewPacket
<1>3. /\ single_packet_queue' = {p} /\ streams' = streams /\ stream_priorities' = stream_priorities
      /\ num_packets' = num_packets + 1 /\ packet_counter' = packet_counter + 1
  BY DEF PushSingle, CountNew
<1> HIDE DEF p
<1>4. AllPackets' = AllPackets \cup {p}
  BY <1>1, <1>3 DEF AllPackets, Waiting
<1>5. /\ Numbered(AllPackets \cup {p}, packet_counter + 1) /\ IsFiniteSet(AllPackets \cup {p})
      /\ Cardinality(AllPackets \cup {p}) = Cardinality(AllPackets) + 1
  BY <1>2, NewNumbered DEF QueueInv
<1>6. Waiting(streams)' = {} /\ InStep(streams, stream_priorities)'
  BY <1>1, <1>3 DEF QueueInv, Waiting
<1>7. packet_counter' \in Nat
  BY <1>3 DEF QueueInv
<1>8. QueueInv'
  BY <1>1, <1>3, <1>4, <1>5, <1>6, <1>7 DEF QueueInv
<1> QED
  BY <1>1, <1>4, <1>8 DEF p

LEMMA PushQueuedKeeps ==
  ASSUME QueueInv, NEW kind \in Kinds, PushQueued(kind)
  PROVE QueueInv' /\ AllPackets' = AllPackets \cup {NewPacket(kind)} /\ NewPacket(kind) \notin AllPackets
<1> DEFINE p == NewPacket(kind)
           st == Promoted.streams
           q == Promoted.prios
           sent == streams[kind.ssrc].sent_size
<1>1. p.kind = kind /\ p.id = packet_counter /\ kind.ssrc \in Ssrcs
  BY QueueConstants DEF NewPacket
<1>2. InStep(st, q) /\ Waiting(st) = AllPackets
  BY PromotedStreams
<1>3. /\ single_packet_queue' = {} /\ streams' = Enqueued(st, p)
      /\ stream_priorities' = Scheduled(q, kind.ssrc, kind.prio, sent)
      /\ num_packets' = num_packets + 1 /\ packet_counter' = packet_counter + 1
  BY DEF PushQueued, CountNew
<1> HIDE DEF p, st, q, sent
<1>4. /\ InStep(Enqueued(st, p), Scheduled(q, kind.ssrc, kind.prio, sent))
      /\ Waiting(Enqueued(st, p)) = Waiting(st) \cup {p}
  BY <1>1, <1>2, EnqueuedStream
<1>5. AllPackets' = AllPackets \cup {p}
  <2> DEFINE e == Enqueued(st, p)
  <2>1. streams' = e /\ single_packet_queue' = {}
    BY <1>3
  <2>2. Waiting(e) = AllPackets \cup {p}
    BY <1>2, <1>4
  <2> HIDE DEF e
  <2>3. AllPackets' = UNION {streams'[s].queue : s \in Ssrcs}
    BY <2>1 DEF AllPackets, Waiting
  <2> QED
    BY <2>1, <2>2, <2>3 DEF Waiting
<1>6. /\ Numbered(AllPackets \cup {p}, packet_counter + 1) /\ IsFiniteSet(AllPackets \cup {p})
      /\ Cardinality(AllPackets \cup {p}) = Cardinality(AllPackets) + 1 /\ p \notin AllPackets
  BY <1>1, NewNumbered DEF QueueInv
<1>7. InStep(streams, stream_priorities)'
  BY <1>3, <1>4 DEF InStep
<1>8. packet_counter' \in Nat
  BY <1>3 DEF QueueInv
<1>9. QueueInv'
  BY <1>3, <1>5, <1>6, <1>7, <1>8 DEF QueueInv
<1> QED
  BY <1>5, <1>6, <1>9 DEF p

LEMMA PopSingleKeeps ==
  ASSUME QueueInv, PopSingle
  PROVE QueueInv' /\ AllPackets' = {}
<1>1. /\ single_packet_queue' = {} /\ streams' = streams /\ stream_priorities' = stream_priorities
      /\ num_packets' = 0 /\ packet_counter' = packet_counter /\ single_packet_queue # {}
  BY DEF PopSingle
<1>2. Waiting(streams)' = {} /\ AllPackets' = {}
  BY <1>1 DEF QueueInv, AllPackets, Waiting
<1>3. InStep(streams, stream_priorities)'
  BY <1>1 DEF QueueInv
<1> QED
  BY <1>1, <1>2, <1>3, FS_EmptySet DEF QueueInv, Numbered

\* The packet that leaves: the best one of the stream that is scheduled first.
Leaving == Top(streams[Head(stream_priorities).ssrc].queue)

LEMMA PopQueuedKeeps ==
  ASSUME QueueInv, PopQueued
  PROVE /\ QueueInv'
        /\ AllPackets' = AllPackets \ {Leaving} /\ Leaving \in AllPackets
        /\ \E s \in Ssrcs : streams[s].queue # {} /\ Leaving = Top(streams[s].queue)
<1> DEFINE s == Head(stream_priorities).ssrc
           p == Top(streams[s].queue)
           Q == streams[s].queue \ {p}
           sent == Max({streams[s].sent_size + PacketSize(p), max_stream_sent_size - kMaxLeadingSize})
           rest == Unscheduled(stream_priorities, s)
           prio == Top(Q).kind.prio
<1>1. /\ single_packet_queue = {} /\ single_packet_queue' = {} /\ stream_priorities # <<>>
      /\ streams' = [streams EXCEPT ![s] = [queue |-> Q, sent_size |-> sent]]
      /\ num_packets' = num_packets - 1 /\ packet_counter' = packet_counter
      /\ stream_priorities' = IF Q = {} THEN rest ELSE Scheduled(rest, s, prio, sent)
  BY DEF PopQueued
<1>2. s \in Ssrcs /\ streams[s].queue # {}
  <2>1. PICK T : stream_priorities \in Seq(T)
    BY DEF QueueInv, InStep, IsSeq
  <2>2. Len(stream_priorities) \in Nat \ {0} /\ Head(stream_priorities) = stream_priorities[1]
    BY <1>1, <2>1, EmptySeq, LenProperties, HeadTailProperties
  <2>3. Listed(stream_priorities, s)
    BY <2>2 DEF Listed
  <2> HIDE DEF s
  <2> QED
    BY <2>3 DEF QueueInv, InStep
<1> HIDE DEF s, sent, prio
<1>3. AllPackets = Waiting(streams) /\ streams[s].queue \subseteq AllPackets
  BY <1>1, <1>2 DEF AllPackets, Waiting
<1>4. Numbered(streams[s].queue, packet_counter)
  BY <1>3 DEF QueueInv, Numbered
<1>5. p \in streams[s].queue /\ p \in AllPackets
  BY <1>2, <1>3, <1>4, TopFirst
<1>6. /\ IsSeq(rest) /\ Once(rest)
      /\ \A y : Listed(rest, y) <=> Listed(stream_priorities, y) /\ y # s
  BY UnscheduledList DEF QueueInv, InStep
<1> HIDE DEF p, Q, rest
<1>7. /\ IsSeq(Scheduled(rest, s, prio, sent)) /\ Once(Scheduled(rest, s, prio, sent))
      /\ \A y : Listed(Scheduled(rest, s, prio, sent), y) <=> Listed(rest, y) \/ y = s
  BY <1>6, ScheduledList
<1>8. /\ streams' = [t \in Ssrcs |-> streams'[t]]
      /\ \A t \in Ssrcs : t # s => streams'[t] = streams[t]
      /\ streams'[s] = [queue |-> Q, sent_size |-> sent]
  BY <1>1, <1>2 DEF QueueInv, InStep
<1>9. streams'[s].queue = Q /\ streams'[s] = [queue |-> streams'[s].queue, sent_size |-> streams'[s].sent_size]
  BY <1>8
<1>10. IsSeq(stream_priorities') /\ Once(stream_priorities')
       /\ \A y : Listed(stream_priorities', y) <=> (Listed(stream_priorities, y) /\ y # s) \/ (y = s /\ Q # {})
  <2>1. CASE Q = {}
    BY <1>1, <1>6, <2>1
  <2>2. CASE Q # {}
    BY <1>1, <1>6, <1>7, <2>2
  <2> QED
    BY <2>1, <2>2
<1>11. \A t \in Ssrcs : \A x \in streams'[t].queue : x.kind.ssrc = t
  BY <1>2, <1>8, <1>9 DEF Q, QueueInv, InStep
<1>12. \A y : Listed(stream_priorities', y) <=> y \in Ssrcs /\ streams'[y].queue # {}
  BY <1>2, <1>8, <1>9, <1>10 DEF QueueInv, InStep
<1>13. \A t \in Ssrcs : streams'[t] = [queue |-> streams'[t].queue, sent_size |-> streams'[t].sent_size]
  BY <1>8, <1>9 DEF QueueInv, InStep
<1>14. InStep(streams', stream_priorities')
  BY <1>8, <1>10, <1>11, <1>12, <1>13 DEF InStep
<1>15. AllPackets' = AllPackets \ {p}
  <2>1. AllPackets' = UNION {streams'[t].queue : t \in Ssrcs}
    BY <1>1 DEF AllPackets, Waiting
  <2>2. AllPackets = UNION {streams[t].queue : t \in Ssrcs}
    BY <1>3 DEF Waiting
  <2>3. \A t \in Ssrcs : t # s => p \notin streams[t].queue
    BY <1>2, <1>5 DEF QueueInv, InStep
  <2>4. \A t \in Ssrcs : streams'[t].queue = streams[t].queue \ {p}
    BY <1>8, <1>9, <2>3 DEF Q
  <2> QED
    BY <2>1, <2>2, <2>4
<1>16. IsFiniteSet(AllPackets \ {p}) /\ Cardinality(AllPackets \ {p}) = Cardinality(AllPackets) - 1
  BY <1>5, FS_RemoveElement DEF QueueInv
<1>17. Numbered(AllPackets \ {p}, packet_counter)
  BY DEF QueueInv, Numbered
<1>18. QueueInv'
  BY <1>1, <1>14, <1>15, <1>16, <1>17 DEF QueueInv
<1>19. p = Leaving
  BY DEF p, s, Leaving
<1> QED
  BY <1>2, <1>5, <1>15, <1>18, <1>19 DEF p

\* A call that only promotes the packet on the fast path.
LEMMA PromoteKeeps ==
  ASSUME QueueInv, Promote, UNCHANGED <<num_packets, packet_counter>>
  PROVE QueueInv' /\ AllPackets' = AllPackets
<1>1. InStep(Promoted.streams, Promoted.prios) /\ Waiting(Promoted.streams) = AllPackets
  BY PromotedStreams
<1>2. single_packet_queue' = {} /\ streams' = Promoted.streams /\ stream_priorities' = Promoted.prios
  BY DEF Promote
<1>3. AllPackets' = AllPackets
  BY <1>1, <1>2 DEF AllPackets, Waiting
<1>4. InStep(streams, stream_priorities)'
  BY <1>1, <1>2 DEF InStep
<1> QED
  BY <1>2, <1>3, <1>4 DEF QueueInv

-----------------------------------------------------------------------------
(* The schedule, and the order of the packets *)

\* Every call keeps the invariant.
LEMMA QueueStep ==
  ASSUME QueueInv, [Next]_vars
  PROVE QueueInv'
<1>1. CASE \E kind \in Kinds : PushSingle(kind) \/ PushQueued(kind)
  BY <1>1, PushSingleKeeps, PushQueuedKeeps
<1>2. CASE PopSingle
  BY <1>2, PopSingleKeeps
<1>3. CASE PopQueued
  BY <1>3, PopQueuedKeeps
<1>4. CASE set_include_overhead
  BY <1>4, PromoteKeeps DEF set_include_overhead
<1>5. CASE \E overhead \in Overheads : set_transport_overhead(overhead)
  BY <1>5, PromoteKeeps DEF set_transport_overhead
<1>6. ASSUME UNCHANGED <<single_packet_queue, streams, stream_priorities, num_packets, packet_counter>>
      PROVE QueueInv'
  <2>1. AllPackets' = AllPackets /\ Waiting(streams)' = Waiting(streams)
    BY <1>6 DEF AllPackets, Waiting
  <2> QED
    BY <1>6, <2>1 DEF QueueInv
<1>7. CASE UpdateEnqueueTime
  BY <1>6, <1>7 DEF UpdateEnqueueTime
<1>8. CASE SetPauseState
  BY <1>6, <1>8 DEF SetPauseState
<1>9. CASE Tick
  BY <1>6, <1>9 DEF Tick, totals
<1>10. CASE UNCHANGED vars
  BY <1>6, <1>10 DEF vars, totals
<1> QED
  BY <1>1, <1>2, <1>3, <1>4, <1>5, <1>7, <1>8, <1>9, <1>10 DEF Next

\* Along every behaviour the count, the fast path and the schedule agree with the packets.
LEMMA QueueInvariant == Spec => []QueueInv
<1>1. QueueInv /\ [Next]_vars => QueueInv'
  BY QueueStep
<1> QED
  BY <1>1, QueueInit, PTL DEF Spec

\* The assertions of Empty() and IsEmptyStream() hold along every behaviour: num_packets
\* counts the packets, the fast path and the streams are not used together, and
\* stream_priorities_ has one entry for a stream with packets and none for one without.
THEOREM ScheduleConsistent == Spec => []Scheduling
  BY QueueInvariant, InvScheduling, PTL

\* A packet that leaves has a smaller id than the packets of its kind that stay.
LEMMA OrderStep ==
  ASSUME QueueInv, [Next]_vars, NEW p \in AllPackets, NEW q \in AllPackets', p \notin AllPackets', p.kind = q.kind
  PROVE p.id < q.id
<1>1. CASE \E kind \in Kinds : PushSingle(kind) \/ PushQueued(kind)
  BY <1>1, PushSingleKeeps, PushQueuedKeeps
<1>2. CASE PopSingle
  BY <1>2, PopSingleKeeps
<1>3. CASE PopQueued
  <2>1. single_packet_queue = {}
    BY <1>3 DEF PopQueued
  <2>2. PICK s \in Ssrcs : AllPackets' = AllPackets \ {Top(streams[s].queue)} /\ streams[s].queue # {}
    BY <1>3, PopQueuedKeeps
  <2> DEFINE Q == streams[s].queue
  <2>3. p = Top(Q) /\ q \in AllPackets /\ q # p
    BY <2>2
  <2>4. AllPackets = UNION {streams[t].queue : t \in Ssrcs}
    BY <2>1 DEF AllPackets, Waiting
  <2>5. \A t \in Ssrcs : \A x \in streams[t].queue : x.kind.ssrc = t
    BY DEF QueueInv, InStep
  <2>6. Numbered(Q, packet_counter) /\ Numbered(AllPackets, packet_counter)
    BY <2>4 DEF QueueInv, Numbered
  <2>7. Q # {}
    BY <2>2
  <2>8. p \in Q
    BY <2>3, <2>6, <2>7, TopFirst
  <2>9. q \in Q
    BY <2>3, <2>4, <2>5, <2>8
  <2>10. Before(p, q)
    BY <2>3, <2>6, <2>7, <2>9, TopFirst
  <2>11. p.kind.prio \in Nat
    BY QueueConstants DEF QueueInv, Numbered
  <2> QED
    BY <2>10, <2>11 DEF Before
<1>4. CASE AllPackets' = AllPackets
  BY <1>4
<1>5. CASE set_include_overhead
  BY <1>4, <1>5, PromoteKeeps DEF set_include_overhead
<1>6. CASE \E overhead \in Overheads : set_transport_overhead(overhead)
  BY <1>4, <1>6, PromoteKeeps DEF set_transport_overhead
<1>7. CASE UNCHANGED <<single_packet_queue, streams>>
  BY <1>4, <1>7 DEF AllPackets, Waiting
<1>8. CASE UpdateEnqueueTime \/ SetPauseState \/ Tick \/ UNCHANGED vars
  BY <1>7, <1>8 DEF UpdateEnqueueTime, SetPauseState, Tick, vars
<1> QED
  BY <1>1, <1>2, <1>3, <1>5, <1>6, <1>8 DEF Next

\* Two packets of one stream and one priority leave in the order they were pushed: over
\* the fast path, its promotion and the per-stream queues, none overtakes another.
THEOREM PacketsLeaveInOrder == Spec => LeavesInOrder
<1>1. QueueInv /\ [Next]_vars
      => [\A p \in AllPackets, q \in AllPackets' :
             (p \notin AllPackets' /\ p.kind = q.kind) => p.id < q.id]_vars
  BY OrderStep
<1> QED
  BY <1>1, QueueInvariant, PTL DEF Spec, LeavesInOrder

-----------------------------------------------------------------------------
(* Sums *)

\* The element a sum takes next, and the recursion of MapThenSumSet over the subsets of S.
Picked(s) == CHOOSE x \in s : TRUE
IsSum(it, g, S) ==
    it = [s \in SUBSET S |-> IF s = {} THEN 0 ELSE g[Picked(s)] + it[s \ {Picked(s)}]]
Sigma(g, S) == (CHOOSE it : IsSum(it, g, S))[S]

LEMMA SumRec ==
  ASSUME NEW it, NEW g, NEW S, IsSum(it, g, S), NEW s \in SUBSET S
  PROVE it[s] = IF s = {} THEN 0 ELSE g[Picked(s)] + it[s \ {Picked(s)}]
  BY DEF IsSum

LEMMA PickedIn ==
  ASSUME NEW s, s # {}
  PROVE Picked(s) \in s
  BY DEF Picked

\* Of the finite sets a predicate does not hold of, one is least: of every smaller set it holds.
LEMMA LeastSet ==
  ASSUME NEW F, \A s \in F : IsFiniteSet(s), F # {}
  PROVE \E s \in F : \A x \in s : s \ {x} \notin F
<1> DEFINE N == {Cardinality(s) : s \in F}
<1>1. N \in SUBSET Nat /\ N # {}
  BY FS_CardinalityType
<1>2. PICK m \in N : \A y \in N : m <= y
  <2> HIDE DEF N
  <2> QED
    BY <1>1, LeastNumber
<1>3. PICK s \in F : Cardinality(s) = m
  OBVIOUS
<1>4. ASSUME NEW x \in s, s \ {x} \in F PROVE FALSE
  <2>1. Cardinality(s \ {x}) = Cardinality(s) - 1 /\ Cardinality(s) \in Nat
    BY FS_RemoveElement, FS_CardinalityType
  <2>2. m <= Cardinality(s \ {x})
    BY <1>2, <1>4
  <2> QED
    BY <1>3, <2>1, <2>2
<1> QED
  BY <1>4

\* Two sums agree on the sets they share.
LEMMA SumUnique ==
  ASSUME NEW g, NEW S, NEW it, IsSum(it, g, S), NEW T, NEW jt, IsSum(jt, g, T),
         NEW s, IsFiniteSet(s), s \subseteq S, s \subseteq T
  PROVE it[s] = jt[s]
<1> DEFINE F == {t \in SUBSET s : it[t] # jt[t]}
<1> SUFFICES ASSUME F # {} PROVE FALSE
  OBVIOUS
<1>1. \A t \in F : IsFiniteSet(t)
  BY FS_Subset
<1>2. PICK t \in F : \A x \in t : t \ {x} \notin F
  <2> HIDE DEF F
  <2> QED
    BY <1>1, LeastSet
<1>3. t \in SUBSET s /\ t \in SUBSET S /\ t \in SUBSET T /\ it[t] # jt[t]
  BY <1>2
<1>4. /\ it[t] = IF t = {} THEN 0 ELSE g[Picked(t)] + it[t \ {Picked(t)}]
      /\ jt[t] = IF t = {} THEN 0 ELSE g[Picked(t)] + jt[t \ {Picked(t)}]
  BY <1>3, SumRec
<1>5. t # {} /\ Picked(t) \in t
  BY <1>3, <1>4, PickedIn
<1>6. it[t \ {Picked(t)}] = jt[t \ {Picked(t)}]
  BY <1>2, <1>3, <1>5
<1> QED
  BY <1>3, <1>4, <1>5, <1>6

\* A sum exists for every finite set.
LEMMA SumExists ==
  ASSUME NEW g, NEW S, IsFiniteSet(S)
  PROVE \E it : IsSum(it, g, S)
<1> DEFINE Has(t) == \E it : IsSum(it, g, t)
           F == {t \in SUBSET S : ~Has(t)}
<1> SUFFICES ASSUME F # {} PROVE FALSE
  OBVIOUS
<1>1. \A t \in F : IsFiniteSet(t)
  BY FS_Subset
<1>2. PICK t \in F : \A x \in t : t \ {x} \notin F
  <2> HIDE DEF F
  <2> QED
    BY <1>1, LeastSet
<1>3. t \in SUBSET S /\ ~Has(t) /\ IsFiniteSet(t)
  BY <1>1, <1>2
<1>4. \A x \in t : Has(t \ {x})
  BY <1>2, <1>3
<1>5. ASSUME NEW s \in SUBSET t, s # t PROVE Has(s) /\ IsSum(CHOOSE it : IsSum(it, g, s), g, s) /\ IsFiniteSet(s)
  <2>1. PICK x \in t : x \notin s
    BY <1>5
  <2>2. PICK it : IsSum(it, g, t \ {x})
    BY <1>4
  <2> DEFINE jt == [u \in SUBSET s |-> it[u]]
  <2>3. IsSum(jt, g, s)
    <3> SUFFICES ASSUME NEW u \in SUBSET s
                 PROVE it[u] = IF u = {} THEN 0 ELSE g[Picked(u)] + jt[u \ {Picked(u)}]
      BY DEF IsSum
    <3>1. u \in SUBSET (t \ {x}) /\ u \ {Picked(u)} \in SUBSET s
      BY <2>1
    <3>2. jt[u \ {Picked(u)}] = it[u \ {Picked(u)}]
      BY <3>1
    <3> HIDE DEF jt
    <3> QED
      BY <2>2, <3>1, <3>2, SumRec
  <2>4. IsFiniteSet(s)
    BY <1>3, FS_Subset
  <2> QED
    BY <2>3, <2>4
<1> HIDE DEF Has
<1> DEFINE kt == [s \in SUBSET t |-> IF s # t THEN Sigma(g, s)
                                     ELSE IF t = {} THEN 0 ELSE g[Picked(t)] + Sigma(g, t \ {Picked(t)})]
<1>6. IsSum(kt, g, t)
  <2> SUFFICES ASSUME NEW s \in SUBSET t
               PROVE kt[s] = IF s = {} THEN 0 ELSE g[Picked(s)] + kt[s \ {Picked(s)}]
    BY DEF IsSum
  <2>0. s # {} => Picked(s) \in s
    BY PickedIn
  <2>1. s # {} => kt[s \ {Picked(s)}] = Sigma(g, s \ {Picked(s)})
    BY <2>0
  <2>2. CASE s = t
    BY <2>1, <2>2
  <2>3. CASE s # t
    <3> DEFINE it == CHOOSE it : IsSum(it, g, s)
    <3>1. IsSum(it, g, s) /\ kt[s] = it[s] /\ IsFiniteSet(s)
      BY <1>5, <2>3 DEF Sigma
    <3> HIDE DEF it, kt
    <3>2. it[s] = IF s = {} THEN 0 ELSE g[Picked(s)] + it[s \ {Picked(s)}]
      BY <3>1, SumRec
    <3>3. CASE s # {}
      <4> DEFINE r == s \ {Picked(s)}
                 jt == CHOOSE jt : IsSum(jt, g, r)
      <4>1. r \in SUBSET t /\ r # t /\ r \subseteq s
        BY <2>0, <3>3
      <4>2. IsSum(jt, g, r) /\ Sigma(g, r) = jt[r] /\ IsFiniteSet(r)
        BY <1>5, <4>1 DEF Sigma
      <4> HIDE DEF r, jt
      <4>3. it[r] = jt[r]
        BY <3>1, <4>1, <4>2, SumUnique
      <4> QED
        BY <2>1, <3>1, <3>2, <3>3, <4>2, <4>3 DEF r
    <3> QED
      BY <3>1, <3>2, <3>3
  <2> QED
    BY <2>2, <2>3
<1> QED
  BY <1>3, <1>6 DEF Has

\* What Sigma is, and what it is of a smaller set.
LEMMA SigmaIs ==
  ASSUME NEW g, NEW S, IsFiniteSet(S)
  PROVE /\ \A it : IsSum(it, g, S) => \A s \in SUBSET S : it[s] = Sigma(g, s)
        /\ \A s \in SUBSET S : Sigma(g, s) = IF s = {} THEN 0 ELSE g[Picked(s)] + Sigma(g, s \ {Picked(s)})
<1>1. ASSUME NEW it, IsSum(it, g, S), NEW s \in SUBSET S PROVE it[s] = Sigma(g, s)
  <2> DEFINE jt == CHOOSE jt : IsSum(jt, g, s)
  <2>1. IsFiniteSet(s)
    BY FS_Subset
  <2>2. IsSum(jt, g, s) /\ Sigma(g, s) = jt[s]
    BY <2>1, SumExists DEF Sigma
  <2> HIDE DEF jt
  <2> QED
    BY <1>1, <2>1, <2>2, SumUnique
<1>2. PICK it : IsSum(it, g, S)
  BY SumExists
<1>3. ASSUME NEW s \in SUBSET S
      PROVE Sigma(g, s) = IF s = {} THEN 0 ELSE g[Picked(s)] + Sigma(g, s \ {Picked(s)})
  <2>1. it[s] = Sigma(g, s) /\ it[s \ {Picked(s)}] = Sigma(g, s \ {Picked(s)})
    BY <1>1, <1>2
  <2>2. it[s] = IF s = {} THEN 0 ELSE g[Picked(s)] + it[s \ {Picked(s)}]
    BY <1>2, SumRec
  <2> QED
    BY <2>1, <2>2
<1> QED
  BY <1>1, <1>3

\* A sum of integers is an integer.
LEMMA SigmaType ==
  ASSUME NEW g, NEW S, IsFiniteSet(S), \A x \in S : g[x] \in Int
  PROVE Sigma(g, S) \in Int
<1> DEFINE F == {s \in SUBSET S : Sigma(g, s) \notin Int}
<1> SUFFICES ASSUME F # {} PROVE FALSE
  OBVIOUS
<1>1. \A t \in F : IsFiniteSet(t)
  BY FS_Subset
<1>2. PICK s \in F : \A x \in s : s \ {x} \notin F
  <2> HIDE DEF F
  <2> QED
    BY <1>1, LeastSet
<1>3. s \in SUBSET S /\ Sigma(g, s) \notin Int
  BY <1>2
<1>4. \A x \in s : Sigma(g, s \ {x}) \in Int /\ g[x] \in Int
  BY <1>2, <1>3
<1>5. Sigma(g, s) = IF s = {} THEN 0 ELSE g[Picked(s)] + Sigma(g, s \ {Picked(s)})
  BY <1>3, SigmaIs
<1> QED
  BY <1>3, <1>4, <1>5, PickedIn

\* Any element may be taken first.
LEMMA SigmaAdd ==
  ASSUME NEW g, NEW S, IsFiniteSet(S), \A x \in S : g[x] \in Int
  PROVE \A x \in S : Sigma(g, S) = g[x] + Sigma(g, S \ {x})
<1> DEFINE Good(s) == \A x \in s : Sigma(g, s) = g[x] + Sigma(g, s \ {x})
           F == {s \in SUBSET S : ~Good(s)}
<1> SUFFICES ASSUME F # {} PROVE FALSE
  OBVIOUS
<1>0. \A t \in SUBSET S : Sigma(g, t) \in Int
  BY FS_Subset, SigmaType
<1>1. \A t \in F : IsFiniteSet(t)
  BY FS_Subset
<1>2. PICK s \in F : \A x \in s : s \ {x} \notin F
  <2> HIDE DEF F
  <2> QED
    BY <1>1, LeastSet
<1>3. s \in SUBSET S /\ ~Good(s)
  BY <1>2
<1>4. \A x \in s : Good(s \ {x})
  BY <1>2, <1>3
<1>5. Sigma(g, s) = IF s = {} THEN 0 ELSE g[Picked(s)] + Sigma(g, s \ {Picked(s)})
  BY <1>3, SigmaIs
<1>6. s # {}
  BY <1>3
<1> DEFINE c == Picked(s)
<1>7. c \in s /\ Sigma(g, s) = g[c] + Sigma(g, s \ {c})
  BY <1>5, <1>6, PickedIn
<1> HIDE DEF c
<1>8. ASSUME NEW x \in s PROVE Sigma(g, s) = g[x] + Sigma(g, s \ {x})
  <2>1. CASE x = c
    BY <1>7, <2>1
  <2>2. CASE x # c
    <3> DEFINE rest == Sigma(g, (s \ {x}) \ {c})
               without_c == Sigma(g, s \ {c})
               without_x == Sigma(g, s \ {x})
    <3>1. (s \ {c}) \ {x} = (s \ {x}) \ {c}
      OBVIOUS
    <3>2. without_c = g[x] + rest
      BY <1>4, <1>7, <2>2, <3>1
    <3>3. without_x = g[c] + rest
      BY <1>4, <1>7, <2>2
    <3>4. g[x] \in Int /\ g[c] \in Int
      BY <1>3, <1>7
    <3>5. rest \in Int
      BY <1>0, <1>3
    <3>6. Sigma(g, s) = g[c] + without_c
      BY <1>7
    <3> HIDE DEF rest, without_c, without_x
    <3>7. g[c] + without_c = g[x] + without_x
      BY <3>2, <3>3, <3>4, <3>5
    <3> QED
      BY <3>6, <3>7 DEF without_x
  <2> QED
    BY <2>1, <2>2
<1> QED
  BY <1>3, <1>8

\* The sum of the empty set, and the sum when x joins or leaves.
LEMMA SigmaFacts ==
  ASSUME NEW g, NEW S, IsFiniteSet(S), \A y \in S : g[y] \in Int, NEW x, g[x] \in Int
  PROVE /\ Sigma(g, {}) = 0 /\ Sigma(g, S) \in Int
        /\ x \notin S => Sigma(g, S \cup {x}) = Sigma(g, S) + g[x]
        /\ x \in S => Sigma(g, S \ {x}) = Sigma(g, S) - g[x]
<1>1. Sigma(g, {}) = 0
  BY SigmaIs
<1>2. Sigma(g, S) \in Int
  BY SigmaType
<1>3. ASSUME x \notin S PROVE Sigma(g, S \cup {x}) = Sigma(g, S) + g[x]
  <2> DEFINE T == S \cup {x}
  <2>1. IsFiniteSet(T) /\ x \in T /\ T \ {x} = S /\ \A y \in T : g[y] \in Int
    BY <1>3, FS_AddElement
  <2> HIDE DEF T
  <2>2. Sigma(g, T) = g[x] + Sigma(g, T \ {x})
    BY <2>1, SigmaAdd
  <2> DEFINE a == Sigma(g, S)
  <2>3. Sigma(g, T) = g[x] + a
    BY <2>1, <2>2
  <2> HIDE DEF a
  <2>4. a \in Int
    BY <1>2 DEF a
  <2>5. Sigma(g, T) = a + g[x]
    BY <2>3, <2>4
  <2> QED
    BY <2>5 DEF T, a
<1>4. ASSUME x \in S PROVE Sigma(g, S \ {x}) = Sigma(g, S) - g[x]
  <2> DEFINE a == Sigma(g, S)
             b == Sigma(g, S \ {x})
  <2>1. a = g[x] + b
    BY <1>4, SigmaAdd
  <2>2. a \in Int
    BY <1>2
  <2>3. b \in Int
    BY FS_Subset, SigmaType
  <2> HIDE DEF a, b
  <2>4. b = a - g[x]
    BY <2>1, <2>2, <2>3
  <2> QED
    BY <2>4 DEF a, b
<1> QED
  BY <1>1, <1>2, <1>3, <1>4

\* A constant added to every term is added once for every element.
LEMMA SigmaShift ==
  ASSUME NEW g, NEW h, NEW c \in Int, NEW S, IsFiniteSet(S), \A x \in S : g[x] \in Int /\ h[x] = g[x] + c
  PROVE Sigma(h, S) = Sigma(g, S) + Cardinality(S) * c
<1> DEFINE F == {s \in SUBSET S : Sigma(h, s) # Sigma(g, s) + Cardinality(s) * c}
<1> SUFFICES ASSUME F # {} PROVE FALSE
  OBVIOUS
<1>0. \A x \in S : h[x] \in Int
  OBVIOUS
<1>1. \A t \in F : IsFiniteSet(t)
  BY FS_Subset
<1>2. PICK s \in F : \A x \in s : s \ {x} \notin F
  <2> HIDE DEF F
  <2> QED
    BY <1>1, LeastSet
<1>3. s \in SUBSET S /\ Sigma(h, s) # Sigma(g, s) + Cardinality(s) * c /\ IsFiniteSet(s)
  BY <1>1, <1>2
<1>4. \A x \in s : Sigma(h, s \ {x}) = Sigma(g, s \ {x}) + Cardinality(s \ {x}) * c
  BY <1>2, <1>3
<1>5. CASE s = {}
  <2>1. Sigma(h, s) = 0 /\ Sigma(g, s) = 0 /\ Cardinality(s) = 0
    BY <1>5, <1>3, SigmaIs, FS_EmptySet
  <2>2. 0 = 0 + 0 * c
    OBVIOUS
  <2> QED
    BY <1>3, <2>1, <2>2
<1>6. CASE s # {}
  <2>1. PICK x \in s : TRUE
    BY <1>6
  <2> DEFINE t == s \ {x}
             n == Cardinality(t)
             a == Sigma(g, t)
             b == Sigma(h, t)
  <2>2. n \in Nat /\ Cardinality(s) = n + 1
    <3>1. IsFiniteSet(t) /\ Cardinality(t) = Cardinality(s) - 1 /\ Cardinality(s) \in Nat
      BY <1>3, FS_RemoveElement, FS_CardinalityType
    <3>2. Cardinality(t) \in Nat
      BY <3>1, FS_CardinalityType
    <3> QED
      BY <3>1, <3>2
  <2>3. Sigma(g, s) = g[x] + a /\ Sigma(h, s) = h[x] + b
    BY <1>0, <1>3, SigmaAdd
  <2>4. a \in Int /\ b = a + n * c
    <3>1. IsFiniteSet(t) /\ t \subseteq S
      BY <1>3, FS_Subset
    <3> QED
      BY <1>4, <3>1, SigmaType
  <2>5. g[x] \in Int /\ h[x] = g[x] + c
    BY <1>3
  <2> HIDE DEF t, n, a, b
  <2> DEFINE u == g[x]
             v == h[x]
  <2>6. u \in Int /\ v = u + c
    BY <2>5
  <2> HIDE DEF u, v
  <2>7. (n + 1) * c = n * c + c /\ n * c \in Int
    BY <2>2
  <2>8. v + b = (u + a) + (n + 1) * c
    BY <2>4, <2>6, <2>7
  <2> QED
    BY <1>3, <2>2, <2>3, <2>8 DEF u, v
<1> QED
  BY <1>5, <1>6

-----------------------------------------------------------------------------
(* The totals *)

\* Every packet there could be, with its payload and the time it was entered at, negated.
Universe == [kind : Kinds, id : Nat, enqueue_time : Int]
Payload == [p \in Universe |-> p.kind.payload]
Entered == [p \in Universe |-> 0 - p.enqueue_time]

Overhead == IF include_overhead THEN HeaderSize + transport_overhead ELSE 0

\* The sum of the sizes of the packets.
LEMMA SizesAreSigma ==
  ASSUME AllPackets \subseteq Universe, IsFiniteSet(AllPackets)
  PROVE MapThenSumSet(PacketSize, AllPackets) = Sigma([p \in Universe |-> PacketSize(p)], AllPackets)
<1> DEFINE S == AllPackets
           h == [p \in Universe |-> PacketSize(p)]
           Adds(it) == it = [s \in SUBSET S |-> IF s = {} THEN 0
                                               ELSE PacketSize(CHOOSE x \in s : TRUE) + it[s \ {CHOOSE x \in s : TRUE}]]
           jt == CHOOSE it : Adds(it)
<1>1. MapThenSumSet(PacketSize, S) = jt[S]
  BY DEF MapThenSumSet, MapThenFoldSet
<1>2. \A s \in SUBSET S : s # {} => h[Picked(s)] = PacketSize(CHOOSE x \in s : TRUE)
  BY PickedIn DEF Picked
<1>3. ASSUME NEW it PROVE Adds(it) <=> IsSum(it, h, S)
  <2> HIDE DEF h, S
  <2> QED
    BY <1>2 DEF IsSum, Picked
<1>4. PICK it : IsSum(it, h, S)
  <2> HIDE DEF h
  <2> QED
    BY SumExists
<1>5. Adds(it)
  BY <1>3, <1>4
<1> HIDE DEF Adds, h
<1>6. IsSum(jt, h, S)
  BY <1>3, <1>5
<1> HIDE DEF jt
<1> QED
  BY <1>1, <1>6, SigmaIs DEF h

\* The time packet p has waited without the pauses.
Waited(p) == (now - pushed_at[p.id]) - (paused_total - paused_before[p.id])

\* The sum of these times.
LEMMA TimesAreSigma ==
  ASSUME AllPackets \subseteq Universe, IsFiniteSet(AllPackets)
  PROVE MapThenSumSet(Waited, AllPackets) = Sigma([p \in Universe |-> Waited(p)], AllPackets)
<1> DEFINE S == AllPackets
           h == [p \in Universe |-> Waited(p)]
           Adds(it) == it = [s \in SUBSET S |-> IF s = {} THEN 0
                                               ELSE Waited(CHOOSE x \in s : TRUE) + it[s \ {CHOOSE x \in s : TRUE}]]
           jt == CHOOSE it : Adds(it)
<1>1. MapThenSumSet(Waited, S) = jt[S]
  BY DEF MapThenSumSet, MapThenFoldSet
<1>2. \A s \in SUBSET S : s # {} => h[Picked(s)] = Waited(CHOOSE x \in s : TRUE)
  BY PickedIn DEF Picked
<1>3. ASSUME NEW it PROVE Adds(it) <=> IsSum(it, h, S)
  <2> HIDE DEF h, S
  <2> QED
    BY <1>2 DEF IsSum, Picked
<1>4. PICK it : IsSum(it, h, S)
  <2> HIDE DEF h
  <2> QED
    BY SumExists
<1>5. Adds(it)
  BY <1>3, <1>4
<1> HIDE DEF Adds, h
<1>6. IsSum(jt, h, S)
  BY <1>3, <1>5
<1> HIDE DEF jt
<1> QED
  BY <1>1, <1>6, SigmaIs DEF h

\* What TotalsAreSums says, with these sums.
LEMMA TotalsRestated ==
  ASSUME AllPackets \subseteq Universe, IsFiniteSet(AllPackets),
         total_queued_size = Sigma([p \in Universe |-> PacketSize(p)], AllPackets),
         queue_time_sum + (IF paused THEN 0 ELSE (now - time_last_update) * num_packets)
            = Sigma([p \in Universe |-> Waited(p)], AllPackets)
  PROVE TotalsAreSums
  BY SizesAreSigma, TimesAreSigma DEF TotalsAreSums, Waited

\* The clock, the pauses and the settings: pause_time_sum lags behind the time spent paused
\* by what has passed since the last update.
ClockInv ==
    /\ now \in Nat /\ time_last_update \in Nat /\ time_last_update <= now
    /\ pause_time_sum \in Int /\ paused_total \in Int /\ paused \in BOOLEAN
    /\ include_overhead \in BOOLEAN /\ transport_overhead \in Nat
    /\ paused_total = pause_time_sum + (IF paused THEN now - time_last_update ELSE 0)

\* The time a packet was entered with is when it was pushed, less the pauses until then.
StampedBy(p, at, before) ==
    /\ p.id \in DOMAIN at /\ p.id \in DOMAIN before /\ at[p.id] \in Int /\ before[p.id] \in Int
    /\ p.enqueue_time = at[p.id] - before[p.id]

\* The totals, as sums that do not depend on the clock.
TotalsInv ==
    /\ ClockInv
    /\ AllPackets \subseteq Universe
    /\ \A p \in AllPackets : StampedBy(p, pushed_at, paused_before)
    /\ total_queued_size = Sigma(Payload, AllPackets) + num_packets * Overhead
    /\ queue_time_sum = Sigma(Entered, AllPackets) + num_packets * (time_last_update - pause_time_sum)

\* The terms of the sums are integers.
LEMMA TermsType ==
  /\ \A p \in Universe : Payload[p] \in Int /\ Entered[p] \in Int
  /\ \A p \in Universe : Payload[p] = p.kind.payload /\ Entered[p] = 0 - p.enqueue_time
<1> USE DEF Universe, Payload, Entered
<1>1. \A p \in Universe : p.kind \in Kinds /\ p.enqueue_time \in Int
  OBVIOUS
<1>2. \A p \in Universe : p.kind.payload \in Int
  BY <1>1, QueueConstants
<1> QED
  BY <1>1, <1>2

LEMMA SumsType ==
  ASSUME QueueInv, TotalsInv
  PROVE /\ IsFiniteSet(AllPackets) /\ num_packets \in Nat /\ num_packets = Cardinality(AllPackets)
        /\ Sigma(Payload, AllPackets) \in Int /\ Sigma(Entered, AllPackets) \in Int
        /\ Overhead \in Int /\ \A p \in AllPackets : Payload[p] \in Int /\ Entered[p] \in Int
<1>1. IsFiniteSet(AllPackets) /\ num_packets \in Nat /\ num_packets = Cardinality(AllPackets)
  BY FS_CardinalityType DEF QueueInv
<1>2. \A p \in AllPackets : Payload[p] \in Int /\ Entered[p] \in Int
  BY TermsType DEF TotalsInv
<1>3. Sigma(Payload, AllPackets) \in Int /\ Sigma(Entered, AllPackets) \in Int
  BY <1>1, <1>2, SigmaType
<1>4. Overhead \in Int
  BY QueueConstants DEF Overhead, TotalsInv, ClockInv
<1> QED
  BY <1>1, <1>2, <1>3, <1>4

\* UpdateEnqueueTime brings the pauses up to date and the times of all packets with them.
LEMMA Updating ==
  ASSUME QueueInv, TotalsInv
  PROVE /\ UpdatedTimes(now).last = now /\ UpdatedTimes(now).pause = paused_total
        /\ UpdatedTimes(now).queue = Sigma(Entered, AllPackets) + num_packets * (now - paused_total)
<1> DEFINE e == Sigma(Entered, AllPackets)
           n == num_packets
           l == time_last_update
           q == pause_time_sum
           d == now - l
<1>1. e \in Int /\ n \in Nat /\ l \in Nat /\ q \in Int /\ now \in Nat /\ l <= now /\ paused \in BOOLEAN
  BY SumsType DEF TotalsInv, ClockInv
<1>2. queue_time_sum = e + n * (l - q) /\ paused_total = q + (IF paused THEN d ELSE 0)
  BY DEF TotalsInv, ClockInv
<1>3. d \in Nat /\ (now <= l => d = 0) /\ l + d = now
  BY <1>1
<1>4. /\ UpdatedTimes(now).last = l + d
      /\ UpdatedTimes(now).pause = q + (IF paused THEN d ELSE 0)
      /\ UpdatedTimes(now).queue = queue_time_sum + (IF paused THEN 0 ELSE d * n)
  BY <1>1, <1>3 DEF UpdatedTimes
<1> HIDE DEF e, n, l, q, d
<1>5. CASE paused = TRUE
  <2>1. now - paused_total = l - q /\ n * (l - q) \in Int
    BY <1>1, <1>2, <1>3, <1>5
  <2>2. UpdatedTimes(now).queue = queue_time_sum
    BY <1>1, <1>2, <1>4, <1>5, <2>1
  <2> QED
    BY <1>2, <1>3, <1>4, <1>5, <2>1, <2>2 DEF e, n
<1>6. CASE paused = FALSE
  <2>1. now - paused_total = (l - q) + d
    BY <1>1, <1>2, <1>3, <1>6
  <2>2. n * ((l - q) + d) = n * (l - q) + d * n /\ n * (l - q) \in Int /\ d * n \in Int
    BY <1>1, <1>3
  <2>3. UpdatedTimes(now).queue = queue_time_sum + d * n
    BY <1>4, <1>6
  <2>4. UpdatedTimes(now).queue = e + n * (now - paused_total)
    BY <1>1, <1>2, <2>1, <2>2, <2>3
  <2> QED
    BY <1>2, <1>3, <1>4, <1>6, <2>4 DEF e, n
<1> QED
  BY <1>1, <1>5, <1>6

\* The invariant says what TotalsAreSums says.
LEMMA InvTotals ==
  ASSUME QueueInv, TotalsInv
  PROVE TotalsAreSums
<1> DEFINE n == num_packets
           a == Sigma(Payload, AllPackets)
           e == Sigma(Entered, AllPackets)
           size == [p \in Universe |-> PacketSize(p)]
           wait == [p \in Universe |-> Waited(p)]
           x == now - paused_total
<1>0. /\ IsFiniteSet(AllPackets) /\ n \in Nat /\ n = Cardinality(AllPackets) /\ a \in Int /\ e \in Int /\ Overhead \in Int
      /\ AllPackets \subseteq Universe
      /\ \A p \in AllPackets : Payload[p] \in Int /\ Entered[p] \in Int
  BY SumsType DEF TotalsInv
<1>1. x \in Int
  BY DEF TotalsInv, ClockInv
<1>2. \A p \in AllPackets : size[p] = Payload[p] + Overhead
  BY <1>0, TermsType DEF PacketSize, Overhead
<1>3. \A p \in AllPackets : wait[p] = Entered[p] + x
  <2> SUFFICES ASSUME NEW p \in AllPackets PROVE wait[p] = Entered[p] + x
    OBVIOUS
  <2> DEFINE i == pushed_at[p.id]
             j == paused_before[p.id]
             t == p.enqueue_time
  <2>1. i \in Int /\ j \in Int /\ t = i - j /\ now \in Int /\ paused_total \in Int
    BY DEF TotalsInv, StampedBy, ClockInv
  <2>2. wait[p] = (now - i) - (paused_total - j) /\ Entered[p] = 0 - t
    BY <1>0, TermsType DEF Waited
  <2> HIDE DEF i, j, t, wait
  <2> QED
    BY <2>1, <2>2
<1> HIDE DEF size, wait
<1>4. Sigma(size, AllPackets) = a + n * Overhead
  BY <1>0, <1>2, SigmaShift
<1>5. Sigma(wait, AllPackets) = e + n * x
  <2> HIDE DEF x
  <2> QED
    BY <1>0, <1>1, <1>3, SigmaShift
<1>6. total_queued_size = Sigma(size, AllPackets)
  BY <1>4 DEF TotalsInv
<1>7. queue_time_sum + (IF paused THEN 0 ELSE (now - time_last_update) * n) = Sigma(wait, AllPackets)
  <2> DEFINE l == time_last_update
             q == pause_time_sum
  <2>1. l \in Nat /\ q \in Int /\ now \in Nat /\ paused \in BOOLEAN /\ paused_total \in Int
    BY DEF TotalsInv, ClockInv
  <2>2. queue_time_sum = e + n * (l - q) /\ paused_total = q + (IF paused THEN now - l ELSE 0)
    BY DEF TotalsInv, ClockInv
  <2> HIDE DEF l, q, n, e, a
  <2>3. CASE paused = TRUE
    <3>1. x = l - q /\ n * (l - q) \in Int
      BY <1>0, <2>1, <2>2, <2>3
    <3>2. queue_time_sum \in Int
      BY <1>0, <2>2, <3>1
    <3> QED
      BY <1>5, <2>2, <2>3, <3>1, <3>2
  <2>4. CASE paused = FALSE
    <3>1. x = (l - q) + (now - l)
      BY <1>0, <2>1, <2>2, <2>4
    <3>2. n * ((l - q) + (now - l)) = n * (l - q) + (now - l) * n /\ n * (l - q) \in Int /\ (now - l) * n \in Int
      BY <1>0, <2>1
    <3>3. queue_time_sum + (now - l) * n = e + n * x
      BY <1>0, <2>2, <3>1, <3>2
    <3> QED
      BY <1>5, <2>4, <3>3 DEF l
  <2> QED
    BY <2>1, <2>3, <2>4
<1> QED
  BY <1>0, <1>6, <1>7, TotalsRestated DEF size, wait

LEMMA TotalsInit == Init => TotalsInv
<1> SUFFICES ASSUME Init PROVE TotalsInv
  OBVIOUS
<1>1. AllPackets = {}
  BY DEF Init, Waiting, AllPackets
<1>2. Sigma(Payload, {}) = 0 /\ Sigma(Entered, {}) = 0
  BY SigmaIs, FS_EmptySet
<1>3. ClockInv /\ Overhead = 0
  <2>1. Overhead = 0 /\ include_overhead \in BOOLEAN /\ paused \in BOOLEAN
    BY DEF Init, Overhead
  <2>2. (IF paused THEN now - time_last_update ELSE 0) = 0
    BY DEF Init
  <2>3. /\ now = 0 /\ time_last_update = 0 /\ pause_time_sum = 0 /\ paused_total = 0
        /\ transport_overhead = 0
    BY DEF Init
  <2> QED
    BY <2>1, <2>2, <2>3 DEF ClockInv
<1> QED
  BY <1>1, <1>2, <1>3 DEF Init, TotalsInv

\* A new packet is counted from now on.
LEMMA CountKeeps ==
  ASSUME QueueInv, TotalsInv, NEW kind \in Kinds, CountNew(NewPacket(kind)),
         AllPackets' = AllPackets \cup {NewPacket(kind)}, NewPacket(kind) \notin AllPackets
  PROVE TotalsInv'
<1> DEFINE p == NewPacket(kind)
           n == num_packets
           a == Sigma(Payload, AllPackets)
           e == Sigma(Entered, AllPackets)
           x == now - paused_total
<1>1. /\ UpdatedTimes(now).last = now /\ UpdatedTimes(now).pause = paused_total
      /\ UpdatedTimes(now).queue = e + n * x
  BY Updating
<1>2. now \in Nat /\ paused_total \in Int /\ paused \in BOOLEAN /\ x \in Int
  BY DEF TotalsInv, ClockInv
<1>3. p = [kind |-> kind, id |-> packet_counter, enqueue_time |-> x]
  BY <1>1 DEF NewPacket
<1>4. p \in Universe /\ p.kind = kind /\ p.id = packet_counter /\ p.enqueue_time = x
  BY <1>2, <1>3 DEF Universe, QueueInv
<1>5. /\ time_last_update' = now /\ pause_time_sum' = paused_total /\ queue_time_sum' = e + n * x
      /\ num_packets' = n + 1 /\ total_queued_size' = total_queued_size + PacketSize(p)
      /\ pushed_at' = With(pushed_at, p.id, now) /\ paused_before' = With(paused_before, p.id, paused_total)
      /\ now' = now /\ paused_total' = paused_total /\ paused' = paused
      /\ include_overhead' = include_overhead /\ transport_overhead' = transport_overhead
  BY <1>1 DEF CountNew, SetTimes, settings
<1>6. p \notin AllPackets /\ AllPackets' = AllPackets \cup {p}
  OBVIOUS
<1>7. /\ IsFiniteSet(AllPackets) /\ n \in Nat /\ a \in Int /\ e \in Int /\ Overhead \in Int
      /\ \A y \in AllPackets : Payload[y] \in Int /\ Entered[y] \in Int
  BY SumsType
<1> HIDE DEF p
<1>8. Payload[p] \in Int /\ Payload[p] = kind.payload /\ Entered[p] = 0 - x /\ Entered[p] \in Int
  BY <1>4, TermsType
<1>9. Sigma(Payload, AllPackets \cup {p}) = a + Payload[p] /\ Sigma(Entered, AllPackets \cup {p}) = e + Entered[p]
  <2> DEFINE S == AllPackets
  <2>1. IsFiniteSet(S) /\ p \notin S /\ (\A y \in S : Payload[y] \in Int) /\ (\A y \in S : Entered[y] \in Int)
    BY <1>6, <1>7
  <2>2. Payload[p] \in Int /\ Entered[p] \in Int
    BY <1>8
  <2> HIDE DEF S
  <2>3. Sigma(Payload, S \cup {p}) = Sigma(Payload, S) + Payload[p]
    BY <2>1, <2>2, SigmaFacts
  <2>4. Sigma(Entered, S \cup {p}) = Sigma(Entered, S) + Entered[p]
    BY <2>1, <2>2, SigmaFacts
  <2> QED
    BY <2>3, <2>4 DEF S
<1>10. ClockInv'
  BY <1>2, <1>5 DEF TotalsInv, ClockInv
<1>11. AllPackets' \subseteq Universe
  BY <1>4, <1>6 DEF TotalsInv
<1>12. \A y \in AllPackets' : StampedBy(y, pushed_at', paused_before')
  <2>1. StampedBy(p, pushed_at', paused_before')
    BY <1>2, <1>4, <1>5 DEF StampedBy, With
  <2>2. ASSUME NEW y \in AllPackets PROVE StampedBy(y, pushed_at', paused_before')
    <3>1. StampedBy(y, pushed_at, paused_before)
      BY DEF TotalsInv
    <3>2. y.id \in Nat /\ y.id < packet_counter /\ packet_counter \in Nat
      BY DEF QueueInv, Numbered
    <3>3. y.id # p.id
      BY <1>4, <3>2
    <3> QED
      BY <1>5, <3>1, <3>3 DEF StampedBy, With
  <2> QED
    BY <1>6, <2>1, <2>2
<1>13. total_queued_size' = Sigma(Payload, AllPackets)' + num_packets' * Overhead'
  <2>1. PacketSize(p) = Payload[p] + Overhead /\ Overhead' = Overhead
    BY <1>4, <1>5, <1>8 DEF PacketSize, Overhead
  <2>2. total_queued_size = a + n * Overhead
    BY DEF TotalsInv
  <2>3. Sigma(Payload, AllPackets)' = a + Payload[p]
    BY <1>6, <1>9 DEF Payload, Universe
  <2> HIDE DEF a, n
  <2> DEFINE o == Overhead
             y == Payload[p]
  <2>4. o \in Int /\ y \in Int
    BY <1>7, <1>8
  <2>5. total_queued_size' = (a + n * o) + (y + o)
    BY <1>5, <2>1, <2>2
  <2> HIDE DEF o, y
  <2>6. (n + 1) * o = n * o + o /\ n * o \in Int
    BY <1>7, <2>4
  <2>7. (a + n * o) + (y + o) = (a + y) + (n + 1) * o
    BY <1>7, <2>4, <2>6
  <2> QED
    BY <1>5, <2>1, <2>3, <2>5, <2>7 DEF o, y
<1>14. queue_time_sum' = Sigma(Entered, AllPackets)' + num_packets' * (time_last_update' - pause_time_sum')
  <2>1. Sigma(Entered, AllPackets)' = e + (0 - x)
    BY <1>6, <1>8, <1>9 DEF Entered, Universe
  <2>2. queue_time_sum' = e + n * x /\ num_packets' = n + 1 /\ time_last_update' - pause_time_sum' = x
    BY <1>5
  <2> HIDE DEF e, n, x
  <2>3. (n + 1) * x = n * x + x /\ n * x \in Int
    BY <1>2, <1>7
  <2>4. e + n * x = (e + (0 - x)) + (n + 1) * x
    BY <1>2, <1>7, <2>3
  <2> QED
    BY <2>1, <2>2, <2>4
<1> QED
  BY <1>10, <1>11, <1>12, <1>13, <1>14 DEF TotalsInv

\* The packet that leaves takes its size and the time it has waited out of the totals.
LEMMA PopQueuedTotals ==
  ASSUME QueueInv, TotalsInv, PopQueued
  PROVE TotalsInv'
<1> DEFINE p == Leaving
           n == num_packets
           a == Sigma(Payload, AllPackets)
           e == Sigma(Entered, AllPackets)
           l == time_last_update
           q == pause_time_sum
<1>1. AllPackets' = AllPackets \ {p} /\ p \in AllPackets
  BY PopQueuedKeeps
<1>2. /\ queue_time_sum' = queue_time_sum - (l - p.enqueue_time - q)
      /\ total_queued_size' = total_queued_size - PacketSize(p)
      /\ num_packets' = n - 1
      /\ pushed_at' = Without(pushed_at, p.id) /\ paused_before' = Without(paused_before, p.id)
      /\ now' = now /\ paused_total' = paused_total /\ paused' = paused
      /\ include_overhead' = include_overhead /\ transport_overhead' = transport_overhead
      /\ time_last_update' = l /\ pause_time_sum' = q
  BY DEF PopQueued, Leaving, settings
<1> HIDE DEF p
<1>3. /\ IsFiniteSet(AllPackets) /\ n \in Nat /\ a \in Int /\ e \in Int /\ Overhead \in Int
      /\ \A y \in AllPackets : Payload[y] \in Int /\ Entered[y] \in Int
  BY SumsType
<1>4. p \in Universe /\ l \in Int /\ q \in Int
  BY <1>1 DEF TotalsInv, ClockInv
<1>5. /\ Payload[p] \in Int /\ Payload[p] = p.kind.payload
      /\ Entered[p] \in Int /\ Entered[p] = 0 - p.enqueue_time /\ p.enqueue_time \in Int
  BY <1>4, TermsType DEF Universe
<1>6. Sigma(Payload, AllPackets \ {p}) = a - Payload[p] /\ Sigma(Entered, AllPackets \ {p}) = e - Entered[p]
  <2> DEFINE S == AllPackets
  <2>1. IsFiniteSet(S) /\ p \in S /\ (\A y \in S : Payload[y] \in Int) /\ (\A y \in S : Entered[y] \in Int)
    BY <1>1, <1>3
  <2>2. Payload[p] \in Int /\ Entered[p] \in Int
    BY <1>5
  <2> HIDE DEF S
  <2>3. Sigma(Payload, S \ {p}) = Sigma(Payload, S) - Payload[p]
    BY <2>1, <2>2, SigmaFacts
  <2>4. Sigma(Entered, S \ {p}) = Sigma(Entered, S) - Entered[p]
    BY <2>1, <2>2, SigmaFacts
  <2> QED
    BY <2>3, <2>4 DEF S
<1>7. ClockInv' /\ AllPackets' \subseteq Universe
  BY <1>1, <1>2 DEF TotalsInv, ClockInv
<1>8. \A y \in AllPackets' : StampedBy(y, pushed_at', paused_before')
  <2> SUFFICES ASSUME NEW y \in AllPackets' PROVE StampedBy(y, pushed_at', paused_before')
    OBVIOUS
  <2>1. y \in AllPackets /\ y # p
    BY <1>1
  <2>2. y.id # p.id
    BY <1>1, <2>1 DEF QueueInv, Numbered
  <2>3. StampedBy(y, pushed_at, paused_before)
    BY <2>1 DEF TotalsInv
  <2> QED
    BY <1>2, <2>2, <2>3 DEF StampedBy, Without
<1>9. total_queued_size' = Sigma(Payload, AllPackets)' + num_packets' * Overhead'
  <2>1. PacketSize(p) = Payload[p] + Overhead /\ Overhead' = Overhead
    BY <1>2, <1>5 DEF PacketSize, Overhead
  <2>2. total_queued_size = a + n * Overhead
    BY DEF TotalsInv
  <2>3. Sigma(Payload, AllPackets)' = a - Payload[p]
    BY <1>1, <1>6 DEF Payload, Universe
  <2> HIDE DEF a, n
  <2> DEFINE o == Overhead
             y == Payload[p]
  <2>4. o \in Int /\ y \in Int
    BY <1>3, <1>5
  <2>5. total_queued_size' = (a + n * o) - (y + o)
    BY <1>2, <2>1, <2>2
  <2> HIDE DEF o, y
  <2>6. (n - 1) * o = n * o - o /\ n * o \in Int
    BY <1>3, <2>4
  <2>7. (a + n * o) - (y + o) = (a - y) + (n - 1) * o
    BY <1>3, <2>4, <2>6
  <2> QED
    BY <1>2, <2>1, <2>3, <2>5, <2>7 DEF o, y
<1>10. queue_time_sum' = Sigma(Entered, AllPackets)' + num_packets' * (time_last_update' - pause_time_sum')
  <2> DEFINE t == p.enqueue_time
             x == l - q
  <2>1. Sigma(Entered, AllPackets)' = e - (0 - t)
    BY <1>1, <1>5, <1>6 DEF Entered, Universe
  <2>2. /\ queue_time_sum' = queue_time_sum - (l - t - q) /\ num_packets' = n - 1
        /\ time_last_update' - pause_time_sum' = x /\ queue_time_sum = e + n * x
    BY <1>2 DEF TotalsInv
  <2>3. l - t - q = x - t /\ x \in Int /\ t \in Int
    BY <1>4, <1>5
  <2> HIDE DEF e, n, x, t
  <2>4. (n - 1) * x = n * x - x /\ n * x \in Int
    BY <1>3, <2>3
  <2>5. (e + n * x) - (x - t) = (e - (0 - t)) + (n - 1) * x
    BY <1>3, <2>3, <2>4
  <2> QED
    BY <2>1, <2>2, <2>3, <2>5
<1> QED
  BY <1>7, <1>8, <1>9, <1>10 DEF TotalsInv

\* The overhead of the packets that wait is counted in, or changed, when it is set.
LEMMA OverheadTotals ==
  ASSUME QueueInv, TotalsInv, AllPackets' = AllPackets,
         UNCHANGED <<num_packets, queue_time_sum, pause_time_sum, time_last_update, paused, history>>,
         include_overhead' \in BOOLEAN, transport_overhead' \in Nat,
         total_queued_size' = total_queued_size + num_packets * (Overhead' - Overhead)
  PROVE TotalsInv'
<1> DEFINE n == num_packets
           a == Sigma(Payload, AllPackets)
           o == Overhead
           r == Overhead'
<1>1. n \in Nat /\ a \in Int /\ o \in Int
  BY SumsType
<1>2. r \in Int
  BY QueueConstants DEF Overhead
<1>3. total_queued_size = a + n * o /\ total_queued_size' = total_queued_size + n * (r - o)
  BY DEF TotalsInv
<1>4. Sigma(Payload, AllPackets)' = a /\ Sigma(Entered, AllPackets)' = Sigma(Entered, AllPackets)
  BY DEF Payload, Entered, Universe
<1>5. a + n * o + n * (r - o) = a + n * r
  <2> HIDE DEF a, n, o, r
  <2>1. n * (r - o) = n * r - n * o /\ n * o \in Int /\ n * r \in Int
    BY <1>1, <1>2
  <2> QED
    BY <1>1, <2>1
<1>6. total_queued_size' = Sigma(Payload, AllPackets)' + num_packets' * Overhead'
  BY <1>3, <1>4, <1>5
<1>7. ClockInv'
  BY DEF TotalsInv, ClockInv, history
<1>8. \A y \in AllPackets' : StampedBy(y, pushed_at', paused_before')
  BY DEF TotalsInv, history
<1>9. queue_time_sum' = Sigma(Entered, AllPackets)' + num_packets' * (time_last_update' - pause_time_sum')
  BY <1>4 DEF TotalsInv
<1> QED
  BY <1>6, <1>7, <1>8, <1>9 DEF TotalsInv

LEMMA IncludeTotals ==
  ASSUME QueueInv, TotalsInv, OverheadOrder, set_include_overhead
  PROVE TotalsInv'
<1>1. AllPackets' = AllPackets /\ Waiting(Promoted.streams) = AllPackets
  BY PromoteKeeps, PromotedStreams DEF set_include_overhead
<1>2. num_packets = Cardinality(AllPackets) /\ num_packets \in Nat
  BY SumsType
<1>3. Overhead = 0 /\ Overhead' = HeaderSize + transport_overhead /\ Overhead' \in Int
  BY QueueConstants DEF set_include_overhead, Overhead, TotalsInv, ClockInv
<1>4. total_queued_size' = total_queued_size + num_packets * (HeaderSize + transport_overhead)
  BY <1>1, <1>2 DEF set_include_overhead, IncludedSize
<1>5. Overhead' - Overhead = HeaderSize + transport_overhead
  BY <1>3
<1> QED
  BY <1>1, <1>4, <1>5, OverheadTotals DEF set_include_overhead, TotalsInv, ClockInv

LEMMA TransportTotals ==
  ASSUME QueueInv, TotalsInv, OverheadOrder, NEW overhead \in Overheads, set_transport_overhead(overhead)
  PROVE TotalsInv'
<1>1. AllPackets' = AllPackets /\ Waiting(Promoted.streams) = AllPackets
  BY PromoteKeeps, PromotedStreams DEF set_transport_overhead
<1>2. num_packets = Cardinality(AllPackets) /\ num_packets \in Nat
  BY SumsType
<1>3. overhead \in Nat /\ transport_overhead \in Nat /\ HeaderSize \in Nat
  BY QueueConstants DEF TotalsInv, ClockInv
<1>4. include_overhead /\ include_overhead' = include_overhead /\ transport_overhead' = overhead
  BY DEF set_transport_overhead
<1>5. Overhead = HeaderSize + transport_overhead /\ Overhead' = HeaderSize + overhead
  BY <1>4 DEF Overhead
<1>6. Overhead' - Overhead = overhead - transport_overhead
  BY <1>3, <1>5
<1>7. total_queued_size' = total_queued_size + num_packets * (overhead - transport_overhead)
  BY <1>1, <1>2 DEF set_transport_overhead
<1>8. include_overhead' \in BOOLEAN
  BY <1>4 DEF TotalsInv, ClockInv
<1> QED
  BY <1>1, <1>3, <1>4, <1>6, <1>7, <1>8, OverheadTotals DEF set_transport_overhead

\* UpdateEnqueueTime, by itself or before the pause state changes.
LEMMA UpdateTotals ==
  ASSUME QueueInv, TotalsInv, SetTimes(UpdatedTimes(now)), paused' \in BOOLEAN,
         UNCHANGED <<single_packet_queue, streams, num_packets, total_queued_size,
                     include_overhead, transport_overhead, history>>
  PROVE TotalsInv'
<1>1. AllPackets' = AllPackets
  BY DEF AllPackets, Waiting
<1>2. /\ time_last_update' = now /\ pause_time_sum' = paused_total
      /\ queue_time_sum' = Sigma(Entered, AllPackets) + num_packets * (now - paused_total)
  BY Updating DEF SetTimes
<1>3. Sigma(Payload, AllPackets)' = Sigma(Payload, AllPackets) /\ Sigma(Entered, AllPackets)' = Sigma(Entered, AllPackets)
  BY <1>1 DEF Payload, Entered, Universe
<1>4. now' = now /\ paused_total' = paused_total /\ pushed_at' = pushed_at /\ paused_before' = paused_before
  BY DEF history
<1>5. ClockInv'
  <2>1. now \in Nat /\ paused_total \in Int /\ include_overhead' \in BOOLEAN /\ transport_overhead' \in Nat
    BY DEF TotalsInv, ClockInv
  <2>2. (IF paused' THEN now - now ELSE 0) = 0
    BY <2>1
  <2> QED
    BY <1>2, <1>4, <2>1, <2>2 DEF ClockInv
<1>6. Overhead' = Overhead
  BY DEF Overhead
<1> QED
  BY <1>1, <1>2, <1>3, <1>4, <1>5, <1>6 DEF TotalsInv

\* Every call keeps the totals, if the overhead is set in the owner's order.
LEMMA TotalsStep ==
  ASSUME QueueInv, TotalsInv, OverheadOrder, [Next]_vars
  PROVE TotalsInv'
<1>1. CASE \E kind \in Kinds : PushSingle(kind) \/ PushQueued(kind)
  <2>1. PICK kind \in Kinds : PushSingle(kind) \/ PushQueued(kind)
    BY <1>1
  <2>2. AllPackets' = AllPackets \cup {NewPacket(kind)} /\ NewPacket(kind) \notin AllPackets
    BY <2>1, PushSingleKeeps, PushQueuedKeeps
  <2>3. CountNew(NewPacket(kind))
    BY <2>1 DEF PushSingle, PushQueued
  <2> QED
    BY <2>2, <2>3, CountKeeps
<1>2. CASE PopSingle
  <2>1. AllPackets' = {}
    BY <1>2, PopSingleKeeps
  <2>2. /\ queue_time_sum' = 0 /\ num_packets' = 0 /\ total_queued_size' = 0
        /\ UNCHANGED <<pause_time_sum, time_last_update, paused, include_overhead, transport_overhead, now, paused_total>>
    BY <1>2 DEF PopSingle, settings
  <2>3. ClockInv' /\ Overhead' = Overhead
    BY <2>2 DEF TotalsInv, ClockInv, Overhead
  <2>4. Sigma(Payload, {}) = 0 /\ Sigma(Entered, {}) = 0
    BY SigmaIs, FS_EmptySet
  <2>5. Sigma(Payload, AllPackets)' = 0 /\ Sigma(Entered, AllPackets)' = 0
    BY <2>1, <2>4 DEF Payload, Entered, Universe
  <2>6. Overhead \in Int /\ time_last_update \in Int /\ pause_time_sum \in Int
    BY SumsType DEF TotalsInv, ClockInv
  <2>7. 0 = 0 + 0 * Overhead' /\ 0 = 0 + 0 * (time_last_update' - pause_time_sum')
    BY <2>2, <2>3, <2>6
  <2> QED
    BY <2>1, <2>2, <2>3, <2>5, <2>7 DEF TotalsInv
<1>3. CASE PopQueued
  BY <1>3, PopQueuedTotals
<1>4. CASE UpdateEnqueueTime
  <2>1. paused' \in BOOLEAN
    BY <1>4 DEF UpdateEnqueueTime, settings, TotalsInv, ClockInv
  <2> QED
    BY <1>4, <2>1, UpdateTotals DEF UpdateEnqueueTime, settings
<1>5. CASE SetPauseState
  <2>1. paused' \in BOOLEAN
    BY <1>5 DEF SetPauseState
  <2> QED
    BY <1>5, <2>1, UpdateTotals DEF SetPauseState
<1>6. CASE set_include_overhead
  BY <1>6, IncludeTotals
<1>7. CASE \E overhead \in Overheads : set_transport_overhead(overhead)
  BY <1>7, TransportTotals
<1>8. ASSUME UNCHANGED <<single_packet_queue, streams, totals, settings, pushed_at, paused_before>>, ClockInv'
      PROVE TotalsInv'
  <2>1. AllPackets' = AllPackets /\ Overhead' = Overhead
    BY <1>8 DEF AllPackets, Waiting, Overhead, settings
  <2>2. Sigma(Payload, AllPackets)' = Sigma(Payload, AllPackets) /\ Sigma(Entered, AllPackets)' = Sigma(Entered, AllPackets)
    BY <2>1 DEF Payload, Entered, Universe
  <2> QED
    BY <1>8, <2>1, <2>2 DEF TotalsInv, totals
<1>9. CASE Tick
  <2>1. ClockInv'
    <3> DEFINE l == time_last_update
               q == pause_time_sum
    <3>1. /\ now \in Nat /\ l \in Nat /\ l <= now /\ q \in Int /\ paused_total \in Int /\ paused \in BOOLEAN
          /\ include_overhead \in BOOLEAN /\ transport_overhead \in Nat
          /\ paused_total = q + (IF paused THEN now - l ELSE 0)
      BY DEF TotalsInv, ClockInv
    <3>2. /\ now' = now + 1 /\ paused_total' = paused_total + (IF paused THEN 1 ELSE 0)
          /\ l' = l /\ q' = q /\ paused' = paused /\ include_overhead' = include_overhead
          /\ transport_overhead' = transport_overhead
      BY <1>9 DEF Tick, totals, settings
    <3>3. CASE paused = TRUE
      <4>1. paused_total' = q + (now + 1 - l)
        BY <3>1, <3>2, <3>3
      <4> QED
        BY <3>1, <3>2, <3>3, <4>1 DEF ClockInv
    <3>4. CASE paused = FALSE
      <4>1. paused_total' = q + 0
        BY <3>1, <3>2, <3>4
      <4> QED
        BY <3>1, <3>2, <3>4, <4>1 DEF ClockInv
    <3> QED
      BY <3>1, <3>3, <3>4
  <2> QED
    BY <1>8, <1>9, <2>1 DEF Tick
<1>10. CASE UNCHANGED vars
  <2>1. ClockInv'
    BY <1>10 DEF vars, totals, settings, history, TotalsInv, ClockInv
  <2> QED
    BY <1>8, <1>10, <2>1 DEF vars, history
<1> QED
  BY <1>1, <1>2, <1>3, <1>4, <1>5, <1>6, <1>7, <1>9, <1>10 DEF Next

\* Whatever is pushed, popped, paused and promoted, in whatever order, total_queued_size is
\* the sum of the sizes of the packets in the queue, and queue_time_sum, brought up to date,
\* the sum of the unpaused times they have waited.
THEOREM TotalsExact == OverheadOrder => (Spec => []TotalsAreSums)
<1> SUFFICES ASSUME OverheadOrder PROVE Spec => []TotalsAreSums
  OBVIOUS
<1>1. Init => QueueInv /\ TotalsInv
  BY QueueInit, TotalsInit
<1>2. (QueueInv /\ TotalsInv) /\ [Next]_vars => (QueueInv /\ TotalsInv)'
  BY QueueStep, TotalsStep
<1>3. QueueInv /\ TotalsInv => TotalsAreSums
  BY InvTotals
<1> QED
  BY <1>1, <1>2, <1>3, PTL DEF Spec
=============================================================================

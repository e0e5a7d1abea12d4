----------------------------- MODULE NackProofs -----------------------------
(***************************************************************************)
(* Proofs about NackModule, for every size of its limits: what it requests  *)
(* is bounded, nothing is lost silently, and nothing that has arrived is    *)
(* requested.  Each rests on the module's lists standing for indexes near   *)
(* the newest one, where the wrap-around comparisons are right.             *)
(***************************************************************************)
EXTENDS NackModule, SeqNumProofs, FiniteSetTheorems, WellFoundedInduction

Half == Mod \div 2

-----------------------------------------------------------------------------
(* The invariant *)

\* newest_seq_num_ is the number of the newest index, which has arrived; no packet that
\* arrived is far ahead of it, or half a range ahead of the last ClearUpTo.
Tracks ==
    /\ newest_seq_num = Wrap(top)
    /\ first <= top
    /\ initialized => top \in got
    /\ ~initialized => top = 0 /\ first = 0 /\ got = {} /\ DOMAIN nack_list = {} /\ recovered_list = {}
    /\ \A m \in got : first <= m /\ m <= top + Jump /\ m - cleared < Half

\* The entry info under number s stands for a packet not long before n, that was
\* requested as often as the entry says.
Stands(s, info, n) ==
    \E i \in Indexes : /\ s = Wrap(i)
                       /\ first <= i /\ n - kMaxPacketAge <= i /\ i < n
                       /\ nacks[i] = info.retries

EntriesStand == \A s \in DOMAIN nack_list : Stands(s, nack_list[s], top)

\* No packet is requested before a newer one has arrived, and none too often.
Requested == \A i \in Indexes : nacks[i] <= kMaxNackRetries /\ (i > top => nacks[i] = 0)

\* The keyframes on the list are near the newest packet.
NearTop(k) == \E j \in (top - kMaxPacketAge)..(top + Jump) : k = Wrap(j)
KeysNear == \A k \in keyframe_list : NearTop(k)

ListInv ==
    /\ TypeOK /\ Tracks /\ EntriesStand /\ Requested /\ KeysNear
    /\ Cardinality(DOMAIN nack_list) <= kMaxNackPacketCount

\* The recovered packets on the list have arrived, and are not before the last ClearUpTo.
RecoveredStand ==
    /\ cleared <= top
    /\ \A s \in recovered_list : \E r \in got : s = Wrap(r) /\ cleared <= r

\* A packet ahead of the newest one was recovered, and is remembered as such.
AheadRecovered == \A m \in got : m > top => Wrap(m) \in recovered_list

-----------------------------------------------------------------------------
(* Indexes and the numbers that stand for them *)

\* The sizes the proofs compute with.
LEMMA Sizes ==
  /\ kMaxPacketAge \in Int /\ kMaxPacketAge >= 0 /\ Jump \in Int /\ Jump >= 0
  /\ kMaxNackPacketCount \in Int /\ kMaxNackPacketCount >= 0 /\ kMaxNackPacketCount < kMaxPacketAge
  /\ kMaxNackRetries \in Int /\ kMaxNackRetries >= 1
  /\ Half \in Int /\ 2 * Half = Mod /\ Half >= 1 /\ Mod \in Int /\ Jump + kMaxPacketAge < Half
  /\ Indexes \subseteq Int /\ \A i \in Indexes : i >= 0
  /\ 0 \in Indexes
  BY NackConstants, HalfRange DEF Half, Indexes

\* A number on a list stands for the latest index before n that has it.
LEMMA IndexRight ==
  ASSUME NEW i \in Int, NEW n \in Int, i <= n, n - i < Mod
  PROVE IndexOf(Wrap(i), n) = i
<1>1. ReverseDiff(Wrap(n), Wrap(i)) = n - i
  BY DiffRight
<1> QED
  BY <1>1 DEF IndexOf

\* The ordered containers compare indexes that are near each other as indexes.
LEMMA Order ==
  ASSUME NEW i \in Int, NEW x \in Int, i - x < Half, x - i < Half
  PROVE OlderThan(Wrap(i), Wrap(x)) <=> i < x
  BY AheadRight DEF Half

\* A set of numbers near the newest one has an oldest member, as begin() of a container.
LEMMA OldestMember ==
  ASSUME NEW S, S # {}, top \in Int, \A k \in S : NearTop(k)
  PROVE Oldest(S) \in S
<1> DEFINE low == top - kMaxPacketAge
           D == {d \in Nat : Wrap(low + d) \in S /\ d <= kMaxPacketAge + Jump}
<1>1. low \in Int /\ top + Jump = low + (kMaxPacketAge + Jump)
  BY Sizes
<1>2. ASSUME NEW k \in S PROVE \E d \in D : k = Wrap(low + d)
  <2>1. PICK j \in low..(top + Jump) : k = Wrap(j)
    BY DEF NearTop
  <2>2. j - low \in Nat /\ j - low <= kMaxPacketAge + Jump /\ low + (j - low) = j
    BY <1>1, Sizes
  <2>3. Wrap(low + (j - low)) = k
    BY <2>1, <2>2
  <2>4. j - low \in D
    BY <2>2, <2>3
  <2> QED
    BY <2>3, <2>4
<1>3. D # {} /\ D \subseteq Nat
  BY <1>2
<1>4. PICK d \in D : \A y \in D : ~(<<y, d>> \in OpToRel(<, Nat))
  BY <1>3, WFMin, NatLessThanWellFounded
<1>5. \A y \in D : d <= y
  <2> SUFFICES ASSUME NEW y \in D, y < d PROVE FALSE
    BY <1>3
  <2>1. <<y, d>> \in OpToRel(<, Nat)
    BY <1>3 DEF OpToRel
  <2> QED
    BY <1>4, <2>1
<1> DEFINE e == Wrap(low + d)
<1>6. e \in S
  OBVIOUS
<1>7. ASSUME NEW f \in S PROVE f = e \/ OlderThan(e, f)
  <2>1. PICK g \in D : f = Wrap(low + g)
    BY <1>2
  <2>2. d <= g /\ g <= kMaxPacketAge + Jump /\ d \in Int /\ g \in Int /\ d >= 0
    BY <1>5
  <2>3. CASE d = g
    BY <2>1, <2>3
  <2>4. CASE d < g
    <3> DEFINE i == low + d
               x == low + g
    <3>1. i \in Int /\ x \in Int /\ i - x < Half /\ x - i < Half /\ i < x
      BY <1>1, <2>2, <2>4, Sizes
    <3> HIDE DEF i, x
    <3>2. OlderThan(Wrap(i), Wrap(x))
      BY <3>1, Order
    <3> QED
      BY <2>1, <3>2 DEF i, x
  <2> QED
    BY <2>2, <2>3, <2>4
<1> HIDE DEF e
<1> QED
  BY <1>6, <1>7 DEF Oldest

\* A gap of num packets adds at most num entries.
LEMMA GapSize ==
  ASSUME NEW a \in Int, NEW num \in Nat, NEW R
  PROVE LET G == {Wrap(a + i) : i \in 0..(num - 1)} \ R
        IN IsFiniteSet(G) /\ Cardinality(G) <= num
<1> DEFINE I == 0..(num - 1)
           T == {Wrap(a + i) : i \in I}
           f == [i \in I |-> Wrap(a + i)]
           G == T \ R
<1>1. IsFiniteSet(I) /\ Cardinality(I) = num
  <2>1. 0 \in Int /\ num - 1 \in Int
    OBVIOUS
  <2> QED
    BY <2>1, FS_Interval
<1>2. f \in Surjection(I, T)
  <2>1. f \in [I -> T]
    OBVIOUS
  <2>2. \A t \in T : \E i \in I : f[i] = t
    OBVIOUS
  <2> QED
    BY <2>1, <2>2 DEF Surjection
<1> HIDE DEF f, T, I
<1>3. IsFiniteSet(T) /\ Cardinality(T) <= Cardinality(I)
  BY <1>1, <1>2, FS_Surjection
<1>4. G \in SUBSET T
  OBVIOUS
<1> HIDE DEF G
<1>5. IsFiniteSet(G) /\ Cardinality(G) <= Cardinality(T)
  BY <1>3, <1>4, FS_Subset
<1>6. Cardinality(G) \in Int /\ Cardinality(T) \in Int /\ Cardinality(I) \in Int
  BY <1>1, <1>3, <1>5, FS_CardinalityType
<1>7. IsFiniteSet(G) /\ Cardinality(G) <= num
  BY <1>1, <1>3, <1>5, <1>6
<1> QED
  BY <1>7 DEF G, T, I

\* A list of sequence numbers is finite.
LEMMA ListFinite ==
  ASSUME NEW S \in SUBSET SeqNums
  PROVE IsFiniteSet(S) /\ Cardinality(S) \in Nat
<1>1. IsFiniteSet(SeqNums)
  BY FS_Interval, ModAssumption DEF SeqNums
<1>2. IsFiniteSet(S)
  BY <1>1, FS_Subset
<1> QED
  BY <1>2, FS_CardinalityType

-----------------------------------------------------------------------------
(* NackListToSend *)

\* A list to request from: its entries stand for packets before n.
Ready(list, due, n) ==
    /\ due \subseteq DOMAIN list /\ n \in Indexes
    /\ \A s \in DOMAIN list : list[s] \in NackInfos
    /\ \A s \in DOMAIN list : Stands(s, list[s], n)

\* What is left after a request: entries that still stand for packets before n, each packet
\* counted once, and the packets whose entries were dropped excused.
Done(list, n, lost) ==
    /\ DOMAIN nack_list' \subseteq DOMAIN list
    /\ \A s \in DOMAIN nack_list' : nack_list'[s] \in NackInfos
    /\ \A s \in DOMAIN nack_list' :
         \E i \in Indexes : /\ s = Wrap(i)
                            /\ first <= i /\ n - kMaxPacketAge <= i /\ i < n
                            /\ nacks'[i] = nack_list'[s].retries
    /\ nacks' \in [Indexes -> Nat]
    /\ \A i \in Indexes : nacks'[i] <= kMaxNackRetries
    /\ \A i \in Indexes : i >= n => nacks'[i] = nacks[i]
    /\ excused' = excused \cup lost \cup {IndexOf(s, n) : s \in DOMAIN list \ DOMAIN nack_list'}

\* A request does that.
LEMMA RequestRight ==
  ASSUME NEW list, NEW due, NEW n, NEW lost, Ready(list, due, n), ListInv,
         Request(list, due, n, lost)
  PROVE Done(list, n, lost)
<1> USE DEF Ready
<1>a. /\ nacks \in [Indexes -> Nat] /\ now \in 0..MaxTime /\ first \in Int /\ n \in Int
      /\ \A i \in Indexes : nacks[i] <= kMaxNackRetries
  BY Sizes DEF ListInv, TypeOK, Requested
<1> DEFINE stamped == [s \in DOMAIN list |->
                         IF s \in due THEN [list[s] EXCEPT !.retries = @ + 1, !.sent = now]
                                      ELSE list[s]]
           dropped == {s \in due : Exhausted(stamped[s].retries)}
           counted == [i \in Indexes |->
                         IF \E s \in due : IndexOf(s, n) = i THEN nacks[i] + 1 ELSE nacks[i]]
<1>1. /\ nack_list' = Restricted(stamped, DOMAIN list \ dropped)
      /\ nacks' = counted
      /\ excused' = excused \cup lost \cup {IndexOf(s, n) : s \in dropped}
  BY DEF Request
<1>2. \A s \in DOMAIN list : stamped[s] = IF s \in due THEN [list[s] EXCEPT !.retries = @ + 1, !.sent = now]
                                                       ELSE list[s]
  OBVIOUS
<1>3. dropped \subseteq DOMAIN list /\ DOMAIN list \ (DOMAIN list \ dropped) = dropped
  OBVIOUS
<1>4. \A s : s \in dropped <=> s \in due /\ Exhausted(stamped[s].retries)
  OBVIOUS
<1>5. \A i \in Indexes : counted[i] = IF \E s \in due : IndexOf(s, n) = i THEN nacks[i] + 1 ELSE nacks[i]
  OBVIOUS
<1>6. DOMAIN counted = Indexes /\ counted = [i \in Indexes |-> counted[i]]
  OBVIOUS
<1> HIDE DEF stamped, dropped, counted
<1>7. /\ DOMAIN nack_list' = DOMAIN list \ dropped
      /\ \A s \in DOMAIN list \ dropped : nack_list'[s] = stamped[s]
  BY <1>1 DEF Restricted
<1>8. ASSUME NEW s \in DOMAIN list
      PROVE /\ s \in due => /\ stamped[s].retries = list[s].retries + 1
                            /\ stamped[s].sent = now
                            /\ stamped[s].created = list[s].created
                            /\ stamped[s] = [created |-> stamped[s].created, sent |-> stamped[s].sent,
                                             retries |-> stamped[s].retries]
            /\ s \notin due => stamped[s] = list[s]
            /\ list[s].retries \in 0..(kMaxNackRetries - 1)
            /\ list[s].created \in 0..MaxTime
  BY <1>2, <1>8 DEF NackInfos
<1>9. \A s \in DOMAIN list : IndexOf(s, n) \in Int /\
        \E i \in Indexes : /\ s = Wrap(i) /\ IndexOf(s, n) = i
                           /\ first <= i /\ n - kMaxPacketAge <= i /\ i < n
                           /\ nacks[i] = list[s].retries
  <2> SUFFICES ASSUME NEW s \in DOMAIN list
               PROVE IndexOf(s, n) \in Int /\
                  \E i \in Indexes : /\ s = Wrap(i) /\ IndexOf(s, n) = i
                           /\ first <= i /\ n - kMaxPacketAge <= i /\ i < n
                           /\ nacks[i] = list[s].retries
    OBVIOUS
  <2>1. PICK i \in Indexes : /\ s = Wrap(i)
                             /\ first <= i /\ n - kMaxPacketAge <= i /\ i < n
                             /\ nacks[i] = list[s].retries
    BY DEF Stands
  <2>2. i \in Int /\ n \in Int /\ i <= n /\ n - i < Mod
    BY <1>a, <2>1, Sizes
  <2>3. IndexOf(s, n) = i
    BY <2>1, <2>2, IndexRight
  <2> QED
    BY <2>1, <2>2, <2>3
<1>10. \A s, t \in DOMAIN list : IndexOf(s, n) = IndexOf(t, n) => s = t
  BY <1>9
<1>11. ASSUME NEW s \in DOMAIN list, s \notin dropped
       PROVE /\ nack_list'[s] \in NackInfos
             /\ \E i \in Indexes : /\ s = Wrap(i)
                                   /\ first <= i /\ n - kMaxPacketAge <= i /\ i < n
                                   /\ nacks'[i] = nack_list'[s].retries
  <2>1. PICK i \in Indexes : /\ s = Wrap(i) /\ IndexOf(s, n) = i
                             /\ first <= i /\ n - kMaxPacketAge <= i /\ i < n
                             /\ nacks[i] = list[s].retries
    BY <1>9
  <2>2. nack_list'[s] = stamped[s]
    BY <1>7, <1>11
  <2>3. s \in due <=> \E t \in due : IndexOf(t, n) = i
    BY <1>10, <2>1
  <2>4. nacks'[i] = IF s \in due THEN nacks[i] + 1 ELSE nacks[i]
    BY <1>1, <1>5, <2>3
  <2>5. stamped[s].retries = IF s \in due THEN list[s].retries + 1 ELSE list[s].retries
    BY <1>8
  <2>6. nacks'[i] = nack_list'[s].retries
    BY <2>1, <2>2, <2>4, <2>5
  <2>7. stamped[s] \in NackInfos
    <3>1. CASE s \notin due
      BY <1>8, <3>1
    <3>2. CASE s \in due
      <4>1. ~(stamped[s].retries >= kMaxNackRetries)
        BY <1>4, <1>11, <3>2 DEF Exhausted
      <4> DEFINE c == stamped[s].created
                 t == stamped[s].sent
                 r == stamped[s].retries
                 old == list[s].retries
      <4>2. r = old + 1 /\ t = now /\ stamped[s] = [created |-> c, sent |-> t, retries |-> r]
        BY <1>8, <3>2
      <4>3. old \in 0..(kMaxNackRetries - 1) /\ c \in 0..MaxTime
        BY <1>8, <3>2
      <4> HIDE DEF c, t, r, old
      <4>4. r \in 0..(kMaxNackRetries - 1)
        BY <4>1, <4>2, <4>3, Sizes DEF r
      <4>5. [created |-> c, sent |-> t, retries |-> r] \in NackInfos
        BY <1>a, <4>2, <4>3, <4>4 DEF NackInfos
      <4> QED
        BY <4>2, <4>5
    <3> QED
      BY <3>1, <3>2
  <2> QED
    BY <2>1, <2>2, <2>6, <2>7
<1>12. nacks' \in [Indexes -> Nat]
  <2>1. \A i \in Indexes : counted[i] \in Nat
    BY <1>a, <1>5
  <2> QED
    BY <1>1, <1>6, <2>1
<1>13. ASSUME NEW i \in Indexes
       PROVE nacks'[i] <= kMaxNackRetries /\ (i >= n => nacks'[i] = nacks[i])
  <2>1. CASE \E s \in due : IndexOf(s, n) = i
    <3>1. PICK s \in due : IndexOf(s, n) = i
      BY <2>1
    <3>2. nacks[i] = list[s].retries /\ i < n
      BY <1>9, <3>1
    <3>3. list[s].retries \in 0..(kMaxNackRetries - 1)
      BY <1>8
    <3>4. nacks'[i] = nacks[i] + 1
      BY <1>1, <1>5, <2>1
    <3>5. i \in Int /\ n \in Int /\ kMaxNackRetries \in Nat
      BY <1>a, Sizes
    <3> DEFINE r == list[s].retries
               k == nacks'[i]
    <3>6. r \in 0..(kMaxNackRetries - 1) /\ k = r + 1
      BY <3>2, <3>3, <3>4
    <3>7. ~(i >= n)
      BY <3>2, <3>5
    <3>8. k <= kMaxNackRetries
      <4> HIDE DEF r, k
      <4> QED
        BY <3>5, <3>6
    <3> QED
      BY <3>7, <3>8
  <2>2. CASE ~\E s \in due : IndexOf(s, n) = i
    <3>1. nacks'[i] = nacks[i]
      BY <1>1, <1>5, <2>2
    <3> QED
      BY <1>a, <3>1
  <2> QED
    BY <2>1, <2>2
<1>14. excused' = excused \cup lost \cup {IndexOf(s, n) : s \in DOMAIN list \ DOMAIN nack_list'}
  BY <1>1, <1>3, <1>7
<1> QED
  BY <1>7, <1>11, <1>12, <1>13, <1>14 DEF Done

-----------------------------------------------------------------------------
(* AddPacketsToNack *)

\* The numbers of the state, as the proofs use them.
LEMMA StateSizes ==
  ASSUME ListInv
  PROVE /\ top \in Indexes /\ first \in Indexes /\ cleared \in Indexes /\ got \subseteq Indexes
        /\ top \in Int /\ top >= 0 /\ first \in Int /\ first >= 0 /\ cleared \in Int /\ cleared >= 0
        /\ newest_seq_num = Wrap(top) /\ first <= top
        /\ \A m \in got : m \in Int /\ first <= m /\ m <= top + Jump /\ m - cleared < Half
  BY Sizes DEF ListInv, TypeOK, Tracks

\* A packet that may arrive is newer than newest_seq_num_ for the module when it is.
LEMMA NewerRight ==
  ASSUME ListInv, NEW n \in Indexes, MayArrive(n)
  PROVE /\ n \in Int /\ first <= n /\ top - Jump <= n /\ n <= top + Jump /\ n - cleared < Half
        /\ AheadOf(Wrap(n), newest_seq_num) <=> top < n
        /\ AheadOf(newest_seq_num, Wrap(n)) <=> n < top
        /\ Wrap(n) = newest_seq_num <=> n = top
<1>1. /\ n \in Int /\ first <= n /\ top - Jump <= n /\ n <= top + Jump
      /\ n - cleared < Half
  BY StateSizes, Sizes DEF MayArrive, Half
<1>2. top \in Int /\ newest_seq_num = Wrap(top)
  BY StateSizes
<1>3. n - top < Half /\ top - n < Half /\ n - top < Mod /\ top - n < Mod
  BY <1>1, <1>2, Sizes
<1>4. AheadOf(Wrap(n), Wrap(top)) <=> top < n
  BY <1>1, <1>2, <1>3, AheadRight DEF Half
<1>5. AheadOf(Wrap(top), Wrap(n)) <=> n < top
  BY <1>1, <1>2, <1>3, AheadRight DEF Half
<1>6. Wrap(n) = Wrap(top) <=> n = top
  BY <1>1, <1>2, <1>3, WrapInjective
<1> QED
  BY <1>1, <1>2, <1>4, <1>5, <1>6

\* The gap before a newer packet n is top+1 .. n-1.
LEMMA GapRight ==
  ASSUME ListInv, NEW n \in Indexes, top < n, n <= top + Jump
  PROVE LET start == GapStart(newest_seq_num)
            num == ForwardDiff(start, Wrap(n))
        IN /\ num = n - top - 1 /\ num \in Nat
           /\ NewNacks(start, num) = {Wrap(m) : m \in (top + 1)..(n - 1)} \ recovered_list
           /\ IsFiniteSet(NewNacks(start, num)) /\ Cardinality(NewNacks(start, num)) <= num
<1>1. top \in Int /\ n \in Int /\ newest_seq_num = Wrap(top) /\ 1 \in Int
  BY StateSizes, Sizes
<1> DEFINE a == top + 1
           start == GapStart(newest_seq_num)
           num == ForwardDiff(start, Wrap(n))
<1>2. a \in Int /\ a <= n /\ n - a < Mod /\ n - a = n - top - 1 /\ n - a \in Nat
  BY <1>1, Sizes
<1>3. start = Wrap(a)
  BY <1>1, WrapShift DEF GapStart
<1> HIDE DEF a
<1>4. num = n - a
  BY <1>1, <1>2, <1>3, DiffRight
<1> HIDE DEF num, start
<1>5. {Wrap(start + i) : i \in 0..(num - 1)} = {Wrap(m) : m \in a..(n - 1)}
  <2>1. \A i \in Int : Wrap(start + i) = Wrap(a + i)
    BY <1>2, <1>3, WrapShift
  <2>2. \A i \in 0..(num - 1) : a + i \in a..(n - 1) /\ Wrap(start + i) = Wrap(a + i)
    BY <1>1, <1>2, <1>4, <2>1
  <2>3. \A m \in a..(n - 1) : m - a \in 0..(num - 1) /\ Wrap(start + (m - a)) = Wrap(m)
    <3> SUFFICES ASSUME NEW m \in a..(n - 1)
                 PROVE m - a \in 0..(num - 1) /\ Wrap(start + (m - a)) = Wrap(m)
      OBVIOUS
    <3>1. m - a \in 0..(num - 1) /\ m - a \in Int /\ a + (m - a) = m
      BY <1>1, <1>2, <1>4
    <3> QED
      BY <2>1, <3>1
  <2> HIDE DEF num, start
  <2> QED
    BY <2>2, <2>3
<1>6. start \in Int
  BY <1>2, <1>3, WrapType
<1>7. num \in Nat
  BY <1>2, <1>4
<1>8. IsFiniteSet(NewNacks(start, num)) /\ Cardinality(NewNacks(start, num)) <= num
  BY <1>6, <1>7, GapSize DEF NewNacks
<1>9. NewNacks(start, num) = {Wrap(m) : m \in a..(n - 1)} \ recovered_list
  BY <1>5 DEF NewNacks
<1> QED
  BY <1>2, <1>4, <1>7, <1>8, <1>9 DEF a, num, start

\* The keyframes left when the newer packet n arrives are near it.
LEMMA KeysRight ==
  ASSUME ListInv, NEW n \in Indexes, top < n, n <= top + Jump, NEW k \in KeyFramesAfter(n)
  PROVE \E j \in (n - kMaxPacketAge)..(top + Jump) : k = Wrap(j)
<1>1. top \in Int /\ n \in Int
  BY StateSizes, Sizes
<1>2. k \in keyframe_list \/ k = Wrap(n)
  BY DEF KeyFramesAfter, FromLowerBound
<1>3. ~OlderThan(k, Wrap(n - kMaxPacketAge))
  BY DEF KeyFramesAfter, FromLowerBound
<1>4. PICK j \in Int : k = Wrap(j) /\ top - kMaxPacketAge <= j /\ j <= top + Jump
  <2>1. CASE k = Wrap(n)
    BY <1>1, <2>1, Sizes
  <2>2. CASE k \in keyframe_list
    <3>1. NearTop(k)
      BY <2>2 DEF ListInv, KeysNear
    <3>2. PICK j \in (top - kMaxPacketAge)..(top + Jump) : k = Wrap(j)
      BY <3>1 DEF NearTop
    <3> QED
      BY <3>2, <1>1, Sizes
  <2> QED
    BY <1>2, <2>1, <2>2
<1> DEFINE x == n - kMaxPacketAge
<1>5. x \in Int /\ j - x < Half /\ x - j < Half
  BY <1>1, <1>4, Sizes
<1> HIDE DEF x
<1>6. ~(j < x)
  BY <1>3, <1>4, <1>5, Order DEF x
<1> QED
  BY <1>1, <1>4, <1>5, <1>6, Sizes DEF x

\* AddPacketsToNack keeps entries that are not too old for n, as many as leave room for num
\* more, or none.
LEMMA RoomRight ==
  ASSUME ListInv, NEW n \in Indexes, top < n, n <= top + Jump, NEW num \in Nat
  PROVE LET room == MakeRoom(Wrap(n), KeyFramesAfter(n), num)
        IN /\ room.list \subseteq DOMAIN nack_list
           /\ \A s \in room.list : Stands(s, nack_list[s], n)
           /\ room.keys \subseteq KeyFramesAfter(n)
           /\ room.ok \in BOOLEAN
           /\ room.ok => Cardinality(room.list) + num <= kMaxNackPacketCount
           /\ ~room.ok => room.list = {}
<1> DEFINE x == n - kMaxPacketAge
           young == FromLowerBound(DOMAIN nack_list, Wrap(Wrap(n) - kMaxPacketAge))
           keys == KeyFramesAfter(n)
           Making == {k \in keys : Fits(FromLowerBound(young, k), num)}
           K == KeyFrameMakingRoom(young, keys, num)
           room == MakeRoom(Wrap(n), keys, num)
<1>1. top \in Int /\ n \in Int /\ x \in Int
  BY StateSizes, Sizes
<1>2. Wrap(Wrap(n) - kMaxPacketAge) = Wrap(x)
  <2>1. Wrap(Wrap(n) + (0 - kMaxPacketAge)) = Wrap(n + (0 - kMaxPacketAge))
    <3>1. 0 - kMaxPacketAge \in Int
      BY Sizes
    <3> QED
      BY <1>1, <3>1, WrapShift
  <2>2. Wrap(n) \in Int
    BY <1>1, WrapType
  <2>3. Wrap(n) + (0 - kMaxPacketAge) = Wrap(n) - kMaxPacketAge /\ n + (0 - kMaxPacketAge) = x
    BY <1>1, <2>2, Sizes
  <2> QED
    BY <2>1, <2>3
<1>3. young \subseteq DOMAIN nack_list
  BY DEF FromLowerBound
<1>4. ASSUME NEW s \in young PROVE Stands(s, nack_list[s], n)
  <2>1. s \in DOMAIN nack_list /\ ~OlderThan(s, Wrap(x))
    BY <1>2 DEF FromLowerBound
  <2>2. PICK i \in Indexes : /\ s = Wrap(i)
                             /\ first <= i /\ top - kMaxPacketAge <= i /\ i < top
                             /\ nacks[i] = nack_list[s].retries
    BY <2>1 DEF ListInv, EntriesStand, Stands
  <2>3. i \in Int /\ i - x < Half /\ x - i < Half
    BY <1>1, <2>2, Sizes
  <2> HIDE DEF x
  <2>4. ~(i < x)
    BY <1>1, <2>1, <2>2, <2>3, Order
  <2>5. n - kMaxPacketAge <= i /\ i < n
    BY <1>1, <2>2, <2>3, <2>4 DEF x
  <2> QED
    BY <2>2, <2>5 DEF Stands
<1> HIDE DEF young, x
<1>5. K # {} => \E k \in Making : K = {k}
  <2> SUFFICES ASSUME K # {} PROVE \E k \in Making : K = {k}
    OBVIOUS
  <2>1. Making # {} /\ K = {Oldest(Making)}
    BY DEF KeyFrameMakingRoom
  <2>2. ASSUME NEW k \in Making PROVE NearTop(k)
    <3>1. PICK j \in (n - kMaxPacketAge)..(top + Jump) : k = Wrap(j)
      BY KeysRight
    <3>2. j \in (top - kMaxPacketAge)..(top + Jump)
      BY <1>1, Sizes
    <3> QED
      BY <3>1, <3>2 DEF NearTop
  <2> HIDE DEF Making
  <2>3. Oldest(Making) \in Making
    BY <1>1, <2>1, <2>2, OldestMember
  <2> QED
    BY <2>1, <2>3
<1>6. \A k \in Making : k \in keys /\ Fits(FromLowerBound(young, k), num)
  OBVIOUS
<1>7. room = IF Fits(young, num) THEN [list |-> young, keys |-> keys, ok |-> TRUE]
             ELSE IF K # {}
               THEN LET k == CHOOSE y \in K : TRUE
                    IN [list |-> FromLowerBound(young, k), keys |-> FromLowerBound(keys, k), ok |-> TRUE]
               ELSE [list |-> {}, keys |-> {}, ok |-> FALSE]
  BY DEF MakeRoom, young
<1> HIDE DEF K, Making, room, keys
<1>8. CASE Fits(young, num)
  <2>1. room.list = young /\ room.keys = keys /\ room.ok = TRUE
    BY <1>7, <1>8
  <2> QED
    BY <1>3, <1>4, <1>8, <2>1 DEF Fits, room, keys
<1>9. CASE ~Fits(young, num) /\ K # {}
  <2>1. PICK k \in Making : K = {k}
    BY <1>5, <1>9
  <2>2. k = CHOOSE y \in K : TRUE
    BY <2>1
  <2>3. room = [list |-> FromLowerBound(young, k), keys |-> FromLowerBound(keys, k), ok |-> TRUE]
    BY <1>7, <1>9, <2>2
  <2>4. room.list = FromLowerBound(young, k) /\ room.keys = FromLowerBound(keys, k) /\ room.ok = TRUE
    BY <2>3
  <2>5. room.list \subseteq young /\ room.keys \subseteq keys
    BY <2>4 DEF FromLowerBound
  <2>6. Cardinality(room.list) + num <= kMaxNackPacketCount
    BY <1>6, <2>1, <2>4 DEF Fits
  <2> QED
    BY <1>3, <1>4, <2>4, <2>5, <2>6 DEF room, keys
<1>10. CASE ~Fits(young, num) /\ K = {}
  <2>1. room.list = {} /\ room.keys = {} /\ room.ok = FALSE
    BY <1>7, <1>10
  <2> QED
    BY <2>1 DEF room, keys
<1> QED
  BY <1>8, <1>9, <1>10

\* What a newer packet n does: it requests entries of a list that fits, made of entries that
\* were on the list and of the gap before n without the recovered packets; what is missing
\* from that list is given up.
LEMMA NewerStep ==
  ASSUME ListInv, NEW n \in Indexes, InsertNewer(n)
  PROVE /\ n \in Int /\ top < n /\ first <= n /\ n <= top + Jump /\ n - cleared < Half
        /\ keyframe_list' \subseteq KeyFramesAfter(n)
        /\ newest_seq_num' = Wrap(n)
        /\ \E list, due, lost :
             /\ Ready(list, due, n) /\ lost \subseteq Int
             /\ \A s \in DOMAIN list : \/ s \in DOMAIN nack_list
                                       \/ \E m \in (top + 1)..(n - 1) : s = Wrap(m) /\ s \notin recovered_list
             /\ IsFiniteSet(DOMAIN list) /\ Cardinality(DOMAIN list) <= kMaxNackPacketCount
             /\ \A s \in DOMAIN nack_list : s \in DOMAIN list \/ IndexOf(s, top) \in lost
             /\ \A m \in (top + 1)..(n - 1) :
                  m \in lost \/ Wrap(m) \in DOMAIN list \/ Wrap(m) \in recovered_list
             /\ Request(list, due, n, lost)
<1> DEFINE s0    == Wrap(n)
           start == GapStart(newest_seq_num)
           num   == ForwardDiff(start, s0)
           room  == MakeRoom(s0, KeyFramesAfter(n), num)
           new   == IF room.ok THEN NewNacks(start, num) ELSE {}
           fresh == [created |-> now, sent |-> NotSent, retries |-> 0]
           list  == [q \in room.list \cup new |->
                       IF q \in new THEN fresh
                                    ELSE nack_list[q]]
           due   == {q \in DOMAIN list : DelayPassed(list[q]) /\ SeqNumFilter(list[q], q, s0)}
           lost  == {IndexOf(q, top) : q \in DOMAIN nack_list \ room.list}
                      \cup (IF room.ok THEN {} ELSE (top + 1)..(n - 1))
<1>1. keyframe_list' = room.keys /\ newest_seq_num' = s0 /\ Request(list, due, n, lost)
  BY DEF InsertNewer
<1>2. /\ n \in Int /\ top < n /\ first <= n /\ n <= top + Jump /\ n - cleared < Half
      /\ top \in Int /\ top \in Indexes /\ first \in Int /\ first <= top
  BY StateSizes, NewerRight DEF InsertNewer
<1>3. /\ num = n - top - 1 /\ num \in Nat
      /\ NewNacks(start, num) = {Wrap(m) : m \in (top + 1)..(n - 1)} \ recovered_list
      /\ IsFiniteSet(NewNacks(start, num)) /\ Cardinality(NewNacks(start, num)) <= num
  BY <1>2, GapRight
<1> HIDE DEF num, start
<1>4. /\ room.list \subseteq DOMAIN nack_list
      /\ \A s \in room.list : Stands(s, nack_list[s], n)
      /\ room.keys \subseteq KeyFramesAfter(n)
      /\ room.ok \in BOOLEAN
      /\ room.ok => Cardinality(room.list) + num <= kMaxNackPacketCount
      /\ ~room.ok => room.list = {}
  BY <1>2, <1>3, RoomRight
<1> HIDE DEF room
<1>5. /\ \A q \in new : \E m \in (top + 1)..(n - 1) : q = Wrap(m) /\ q \notin recovered_list
      /\ room.ok => \A m \in (top + 1)..(n - 1) : Wrap(m) \in new \/ Wrap(m) \in recovered_list
  BY <1>3
<1>6. IsFiniteSet(room.list) /\ Cardinality(room.list) \in Nat
  <2>1. room.list \in SUBSET SeqNums
    BY <1>4 DEF ListInv, TypeOK
  <2> HIDE DEF room
  <2> QED
    BY <2>1, ListFinite
<1>7. IsFiniteSet(new) /\ Cardinality(new) \in Nat /\ (room.ok => Cardinality(new) <= num) /\ (~room.ok => new = {})
  BY <1>3, <1>4, FS_EmptySet, FS_CardinalityType
<1>8. new # {} => n - kMaxPacketAge <= top + 1
  <2> SUFFICES ASSUME new # {} PROVE n - kMaxPacketAge <= top + 1
    OBVIOUS
  <2>1. room.ok
    BY <1>4, <1>7
  <2> HIDE DEF new
  <2> QED
    BY <1>2, <1>3, <1>4, <1>6, <2>1, Sizes
<1> HIDE DEF new
<1>9. IsFiniteSet(room.list \cup new) /\ Cardinality(room.list \cup new) <= kMaxNackPacketCount
  <2>1. IsFiniteSet(room.list \cup new)
        /\ Cardinality(room.list \cup new) = Cardinality(room.list) + Cardinality(new) - Cardinality(room.list \cap new)
    BY <1>6, <1>7, FS_Union
  <2>2. Cardinality(room.list \cap new) \in Nat
    <3>1. IsFiniteSet(room.list \cap new)
      BY <1>6, FS_Subset
    <3> QED
      BY <3>1, FS_CardinalityType
  <2>3. CASE room.ok
    BY <1>3, <1>4, <1>6, <1>7, <2>1, <2>2, <2>3, Sizes
  <2>4. CASE ~room.ok
    <3>1. room.list \cup new = {}
      BY <1>4, <1>7, <2>4
    <3> QED
      BY <3>1, FS_EmptySet, Sizes
  <2> QED
    BY <1>4, <2>1, <2>3, <2>4
<1>10. fresh \in NackInfos /\ fresh.retries = 0
  <2>1. now \in 0..MaxTime /\ 0 \in 0..(kMaxNackRetries - 1)
    BY Sizes DEF ListInv, TypeOK
  <2> QED
    BY <2>1 DEF NackInfos
<1> HIDE DEF fresh
<1>11. /\ DOMAIN list = room.list \cup new
       /\ \A q \in new : list[q] = fresh
       /\ \A q \in room.list : q \notin new => list[q] = nack_list[q]
  OBVIOUS
<1>12. due \subseteq DOMAIN list
  OBVIOUS
<1>13. lost \subseteq Int
  <2> SUFFICES ASSUME NEW q \in DOMAIN nack_list PROVE IndexOf(q, top) \in Int
    BY <1>2
  <2>1. PICK i \in Indexes : q = Wrap(i) /\ top - kMaxPacketAge <= i /\ i < top
    BY DEF ListInv, EntriesStand, Stands
  <2>2. i \in Int /\ i <= top /\ top - i < Mod
    BY <1>2, <2>1, Sizes
  <2>3. IndexOf(q, top) = i
    BY <1>2, <2>1, <2>2, IndexRight
  <2> QED
    BY <2>2, <2>3
<1>14. \A s \in DOMAIN nack_list : s \in DOMAIN list \/ IndexOf(s, top) \in lost
  BY <1>11
<1>15. \A m \in (top + 1)..(n - 1) : m \in lost \/ Wrap(m) \in DOMAIN list \/ Wrap(m) \in recovered_list
  BY <1>4, <1>5, <1>11
<1> HIDE DEF list, lost, due
<1>16. ASSUME NEW s \in new PROVE Stands(s, fresh, n)
  <2>1. PICK m \in (top + 1)..(n - 1) : s = Wrap(m)
    BY <1>5
  <2>2. m \in Int /\ first <= m /\ n - kMaxPacketAge <= m /\ m < n /\ m > top
    BY <1>2, <1>8, <1>16, <2>1, Sizes
  <2>3. m \in Indexes
    BY <1>2, <2>2, NackConstants DEF Indexes
  <2>4. nacks[m] = 0
    BY <2>2, <2>3 DEF ListInv, Requested
  <2> QED
    BY <1>10, <2>1, <2>2, <2>3, <2>4 DEF Stands
<1>17. ASSUME NEW s \in DOMAIN list
       PROVE /\ list[s] \in NackInfos /\ Stands(s, list[s], n)
             /\ \/ s \in DOMAIN nack_list
                \/ \E m \in (top + 1)..(n - 1) : s = Wrap(m) /\ s \notin recovered_list
  <2>1. CASE s \in new
    BY <1>5, <1>10, <1>11, <1>16, <2>1
  <2>2. CASE s \notin new
    <3>1. s \in room.list /\ s \in DOMAIN nack_list /\ list[s] = nack_list[s]
      BY <1>4, <1>11, <2>2
    <3>2. nack_list[s] \in NackInfos
      BY <3>1 DEF ListInv, TypeOK
    <3> QED
      BY <1>4, <3>1, <3>2
  <2> QED
    BY <2>1, <2>2
<1>18. keyframe_list' \subseteq KeyFramesAfter(n) /\ newest_seq_num' = Wrap(n)
  BY <1>1, <1>4
<1>19. IsFiniteSet(DOMAIN list) /\ Cardinality(DOMAIN list) <= kMaxNackPacketCount
  BY <1>9, <1>11
<1>20. \A s \in DOMAIN list : list[s] \in NackInfos
  BY <1>17
<1>21. \A s \in DOMAIN list : Stands(s, list[s], n)
  BY <1>17
<1>r. Ready(list, due, n)
  BY <1>12, <1>20, <1>21 DEF Ready
<1>22. \A s \in DOMAIN list : \/ s \in DOMAIN nack_list
                              \/ \E m \in (top + 1)..(n - 1) : s = Wrap(m) /\ s \notin recovered_list
  BY <1>17
<1>23. Request(list, due, n, lost)
  BY <1>1
<1> HIDE DEF s0
<1> QED
  BY <1>2, <1>13, <1>14, <1>15, <1>18, <1>19, <1>r, <1>22, <1>23

-----------------------------------------------------------------------------
(* The invariant is inductive *)

\* Entries may leave the list at any time.
LEMMA FewerEntries ==
  ASSUME ListInv, NEW S \in SUBSET DOMAIN nack_list, nack_list' = Restricted(nack_list, S),
         UNCHANGED <<top, first, nacks>>
  PROVE /\ DOMAIN nack_list' = S /\ DOMAIN nack_list' \subseteq SeqNums
        /\ \A s \in DOMAIN nack_list' : nack_list'[s] \in NackInfos
        /\ EntriesStand'
        /\ Cardinality(DOMAIN nack_list') <= kMaxNackPacketCount
<1>1. DOMAIN nack_list' = S /\ \A s \in S : nack_list'[s] = nack_list[s]
  BY DEF Restricted
<1>2. DOMAIN nack_list \subseteq SeqNums /\ \A s \in DOMAIN nack_list : nack_list[s] \in NackInfos
  BY DEF ListInv, TypeOK
<1>3. EntriesStand'
  <2> SUFFICES ASSUME NEW s \in S
               PROVE \E i \in Indexes : /\ s = Wrap(i)
                                        /\ first <= i /\ top - kMaxPacketAge <= i /\ i < top
                                        /\ nacks[i] = nack_list[s].retries
    BY <1>1 DEF EntriesStand, Stands
  <2> QED
    BY DEF ListInv, EntriesStand, Stands
<1>4. Cardinality(S) <= kMaxNackPacketCount
  <2>1. IsFiniteSet(DOMAIN nack_list) /\ Cardinality(DOMAIN nack_list) \in Nat
    BY <1>2, ListFinite
  <2>2. IsFiniteSet(S) /\ Cardinality(S) <= Cardinality(DOMAIN nack_list)
    BY <2>1, FS_Subset
  <2>3. Cardinality(S) \in Nat
    BY <2>2, FS_CardinalityType
  <2>4. Cardinality(DOMAIN nack_list) <= kMaxNackPacketCount
    BY DEF ListInv
  <2> QED
    BY <2>1, <2>2, <2>3, <2>4, Sizes
<1> QED
  BY <1>1, <1>2, <1>3, <1>4

\* The invariant holds initially.
LEMMA ListInit == Init => ListInv
<1> SUFFICES ASSUME Init PROVE ListInv
  OBVIOUS
<1>1. DOMAIN nack_list = {}
  BY DEF Init
<1>2. 0 \in SeqNums /\ Wrap(0) = 0
  BY ModAssumption, WrapOnce DEF SeqNums
<1>3. TypeOK
  BY <1>1, <1>2, Sizes, NackConstants DEF Init, TypeOK
<1>4. Tracks
  BY <1>1, <1>2 DEF Init, Tracks
<1>5. Requested
  BY Sizes DEF Init, Requested
<1>6. EntriesStand /\ KeysNear
  BY <1>1 DEF Init, EntriesStand, KeysNear
<1>7. Cardinality(DOMAIN nack_list) <= kMaxNackPacketCount
  BY <1>1, FS_EmptySet, Sizes
<1> QED
  BY <1>3, <1>4, <1>5, <1>6, <1>7 DEF ListInv

\* The first packet.
LEMMA FirstKeeps ==
  ASSUME ListInv, NEW n \in Indexes, InsertFirst(n)
  PROVE ListInv'
<1>1. /\ top = 0 /\ first = 0 /\ got = {} /\ DOMAIN nack_list = {}
  BY DEF ListInv, Tracks, InsertFirst
<1>2. n \in Int /\ n >= 0 /\ Wrap(n) \in SeqNums
  BY Sizes, WrapType
<1>3. TypeOK'
  BY <1>1, <1>2 DEF ListInv, TypeOK, InsertFirst
<1>4. Tracks'
  BY <1>2, Sizes DEF Tracks, InsertFirst
<1>5. Requested'
  BY <1>1, <1>2, Sizes DEF ListInv, Requested, InsertFirst
<1>6. EntriesStand'
  BY <1>1 DEF EntriesStand, InsertFirst
<1>7. KeysNear'
  <2> SUFFICES ASSUME NEW k \in keyframe_list' PROVE \E j \in (n - kMaxPacketAge)..(n + Jump) : k = Wrap(j)
    BY DEF KeysNear, NearTop, InsertFirst
  <2>1. k = Wrap(n)
    BY DEF InsertFirst
  <2>2. n \in (n - kMaxPacketAge)..(n + Jump)
    BY <1>2, Sizes
  <2> QED
    BY <2>1, <2>2
<1>8. (Cardinality(DOMAIN nack_list) <= kMaxNackPacketCount)'
  BY DEF ListInv, InsertFirst
<1> QED
  BY <1>3, <1>4, <1>5, <1>6, <1>7, <1>8 DEF ListInv

\* A late packet.
LEMMA LateKeeps ==
  ASSUME ListInv, NEW n \in Indexes, InsertLate(n)
  PROVE ListInv'
<1>1. /\ n \in Int /\ first <= n /\ n <= top /\ n <= top + Jump /\ n - cleared < Half
  <2>1. MayArrive(n) /\ (Wrap(n) = newest_seq_num \/ AheadOf(newest_seq_num, Wrap(n)))
    BY DEF InsertLate
  <2> QED
    BY <2>1, NewerRight, StateSizes
<1>2. \E S \in SUBSET DOMAIN nack_list : nack_list' = Restricted(nack_list, S) \/ nack_list' = nack_list
  BY DEF InsertLate, LateList
<1>3. /\ DOMAIN nack_list' \subseteq SeqNums
      /\ \A s \in DOMAIN nack_list' : nack_list'[s] \in NackInfos
      /\ EntriesStand'
      /\ Cardinality(DOMAIN nack_list') <= kMaxNackPacketCount
  <2>1. CASE nack_list' = nack_list
    <3>1. EntriesStand'
      BY <2>1 DEF ListInv, EntriesStand, Stands, InsertLate
    <3> QED
      BY <2>1, <3>1 DEF ListInv, TypeOK
  <2>2. CASE \E S \in SUBSET DOMAIN nack_list : nack_list' = Restricted(nack_list, S)
    <3>1. PICK S \in SUBSET DOMAIN nack_list : nack_list' = Restricted(nack_list, S)
      BY <2>2
    <3>2. UNCHANGED <<top, first, nacks>>
      BY DEF InsertLate
    <3> QED
      BY <3>1, <3>2, FewerEntries
  <2> QED
    BY <1>2, <2>1, <2>2
<1>4. TypeOK'
  BY <1>3 DEF ListInv, TypeOK, InsertLate
<1>5. Tracks'
  BY <1>1 DEF ListInv, Tracks, InsertLate
<1>6. Requested' /\ KeysNear'
  BY DEF ListInv, Requested, KeysNear, NearTop, InsertLate
<1> QED
  BY <1>3, <1>4, <1>5, <1>6 DEF ListInv

\* A recovered packet ahead of the newest one.
LEMMA RecoveredKeeps ==
  ASSUME ListInv, NEW n \in Indexes, InsertRecovered(n)
  PROVE ListInv'
<1>1. /\ n \in Int /\ top < n /\ first <= n /\ n <= top + Jump /\ n - cleared < Half /\ top \in Int
  BY NewerRight, StateSizes DEF InsertRecovered
<1>2. Wrap(n) \in SeqNums
  BY <1>1, WrapType
<1>3. KeyFramesAfter(n) \subseteq SeqNums
  BY <1>2 DEF KeyFramesAfter, FromLowerBound, ListInv, TypeOK
<1>4. recovered_list' \subseteq SeqNums
  BY <1>2 DEF InsertRecovered, FromLowerBound, ListInv, TypeOK
<1>5. TypeOK'
  BY <1>3, <1>4 DEF ListInv, TypeOK, InsertRecovered
<1>6. Tracks'
  BY <1>1 DEF ListInv, Tracks, InsertRecovered
<1>7. Requested' /\ EntriesStand'
  BY DEF ListInv, Requested, EntriesStand, Stands, InsertRecovered
<1>8. KeysNear'
  <2> SUFFICES ASSUME NEW k \in KeyFramesAfter(n)
               PROVE \E j \in (top - kMaxPacketAge)..(top + Jump) : k = Wrap(j)
    BY DEF KeysNear, NearTop, InsertRecovered
  <2>1. PICK j \in (n - kMaxPacketAge)..(top + Jump) : k = Wrap(j)
    BY <1>1, KeysRight
  <2>2. j \in (top - kMaxPacketAge)..(top + Jump)
    BY <1>1, <2>1, Sizes
  <2> QED
    BY <2>1, <2>2
<1>9. (Cardinality(DOMAIN nack_list) <= kMaxNackPacketCount)'
  BY DEF ListInv, InsertRecovered
<1> QED
  BY <1>5, <1>6, <1>7, <1>8, <1>9 DEF ListInv

\* A frame becomes continuous.
LEMMA ClearKeeps ==
  ASSUME ListInv, NEW n \in Indexes, ClearUpTo(n)
  PROVE ListInv'
<1>1. n \in Int /\ n > cleared /\ n \in got /\ cleared \in Int /\ first \in Int /\ top \in Int
  BY StateSizes DEF ClearUpTo
<1>2. UNCHANGED <<top, first, nacks>> /\ UNCHANGED <<got, initialized, newest_seq_num>> /\ cleared' = n
  BY DEF ClearUpTo
<1>3. /\ DOMAIN nack_list' \subseteq SeqNums
      /\ DOMAIN nack_list' \subseteq DOMAIN nack_list
      /\ \A s \in DOMAIN nack_list' : nack_list'[s] \in NackInfos
      /\ EntriesStand'
      /\ Cardinality(DOMAIN nack_list') <= kMaxNackPacketCount
  <2> DEFINE S == FromLowerBound(DOMAIN nack_list, Wrap(n))
  <2>1. S \in SUBSET DOMAIN nack_list /\ nack_list' = Restricted(nack_list, S)
    BY DEF ClearUpTo, FromLowerBound
  <2> HIDE DEF S
  <2> QED
    BY <1>2, <2>1, FewerEntries
<1>4. keyframe_list' \subseteq keyframe_list /\ recovered_list' \subseteq recovered_list
  BY DEF ClearUpTo, FromLowerBound
<1>5. excused' \subseteq Int
  <2>1. first..(n - 1) \subseteq Int
    BY <1>1
  <2>2. excused \subseteq Int
    BY DEF ListInv, TypeOK
  <2>3. excused' = excused \cup first..(n - 1)
    BY DEF ClearUpTo
  <2> QED
    BY <2>1, <2>2, <2>3
<1>6. TypeOK'
  <2>1. UNCHANGED <<rtt_ms, now>>
    BY DEF ClearUpTo
  <2> QED
    BY <1>2, <1>3, <1>4, <1>5, <2>1 DEF ListInv, TypeOK
<1>7. Tracks'
  <2>1. \A m \in got : m - n < Half
    <3> SUFFICES ASSUME NEW m \in got PROVE m - n < Half
      OBVIOUS
    <3>1. m \in Int /\ m - cleared < Half
      BY StateSizes
    <3> QED
      BY <1>1, <3>1, Sizes
  <2>2. initialized
    BY DEF ClearUpTo
  <2> QED
    BY <1>2, <1>3, <1>4, <2>1, <2>2 DEF ListInv, Tracks
<1>8. Requested'
  BY <1>2 DEF ListInv, Requested
<1>9. KeysNear'
  BY <1>2, <1>4 DEF ListInv, KeysNear, NearTop
<1> QED
  BY <1>3, <1>6, <1>7, <1>8, <1>9 DEF ListInv

\* A newer packet.
LEMMA NewerKeeps ==
  ASSUME ListInv, NEW n \in Indexes, InsertNewer(n)
  PROVE ListInv'
<1>1. /\ n \in Int /\ top < n /\ first <= n /\ n <= top + Jump /\ n - cleared < Half
      /\ keyframe_list' \subseteq KeyFramesAfter(n) /\ newest_seq_num' = Wrap(n)
  BY NewerStep
<1>2. PICK list, due, lost :
        /\ Ready(list, due, n) /\ lost \subseteq Int
        /\ \A s \in DOMAIN list : \/ s \in DOMAIN nack_list
                                  \/ \E m \in (top + 1)..(n - 1) : s = Wrap(m) /\ s \notin recovered_list
        /\ IsFiniteSet(DOMAIN list) /\ Cardinality(DOMAIN list) <= kMaxNackPacketCount
        /\ Request(list, due, n, lost)
  BY NewerStep
<1>3. /\ top' = n /\ got' = got \cup {n}
      /\ UNCHANGED <<initialized, rtt_ms, recovered_list, now, first, cleared>> /\ initialized
  BY DEF InsertNewer
<1>4. first \in Int /\ top \in Int
  BY StateSizes
<1>5. Done(list, n, lost)
  BY <1>2, RequestRight
<1>6. excused' \subseteq Int
  <2>1. ASSUME NEW s \in DOMAIN list PROVE IndexOf(s, n) \in Int
    <3>1. PICK i \in Indexes : s = Wrap(i) /\ n - kMaxPacketAge <= i /\ i < n
      BY <1>2 DEF Ready, Stands
    <3>2. i \in Int /\ i <= n /\ n - i < Mod
      BY <1>1, <3>1, Sizes
    <3> QED
      BY <1>1, <3>1, <3>2, IndexRight
  <2>2. excused \subseteq Int
    BY DEF ListInv, TypeOK
  <2> QED
    BY <1>2, <1>5, <2>1, <2>2 DEF Done
<1>7. DOMAIN nack_list' \subseteq SeqNums /\ Wrap(n) \in SeqNums
  <2>1. ASSUME NEW s \in DOMAIN nack_list' PROVE s \in SeqNums
    <3>1. PICK i \in Indexes : s = Wrap(i)
      BY <1>5 DEF Done
    <3> QED
      BY <3>1, WrapType, Sizes
  <2> QED
    BY <1>1, <2>1, WrapType
<1>8. KeyFramesAfter(n) \subseteq SeqNums
  BY <1>7 DEF KeyFramesAfter, FromLowerBound, ListInv, TypeOK
<1>9. TypeOK'
  <2>1. got' \subseteq Indexes /\ {top', first', cleared'} \subseteq Indexes
    BY <1>3 DEF ListInv, TypeOK
  <2>2. recovered_list' \subseteq SeqNums /\ rtt_ms' \in Rtts /\ now' \in 0..MaxTime /\ initialized' \in BOOLEAN
    BY <1>3 DEF ListInv, TypeOK
  <2>3. newest_seq_num' \in SeqNums /\ keyframe_list' \subseteq SeqNums
    BY <1>1, <1>7, <1>8
  <2> QED
    BY <1>5, <1>6, <1>7, <2>1, <2>2, <2>3 DEF TypeOK, Done
<1>10. Tracks'
  <2>1. \A m \in got' : first <= m /\ m <= n + Jump /\ m - cleared < Half
    <3> SUFFICES ASSUME NEW m \in got' PROVE first <= m /\ m <= n + Jump /\ m - cleared < Half
      OBVIOUS
    <3>1. CASE m = n
      BY <1>1, <3>1, Sizes
    <3>2. CASE m \in got
      <4>1. m \in Int /\ first <= m /\ m <= top + Jump /\ m - cleared < Half
        BY <3>2, StateSizes
      <4> QED
        BY <1>1, <1>4, <4>1, Sizes
    <3> QED
      BY <1>3, <3>1, <3>2
  <2> QED
    BY <1>1, <1>3, <2>1 DEF Tracks
<1>11. EntriesStand'
  BY <1>3, <1>5 DEF EntriesStand, Stands, Done
<1>12. Requested'
  <2> SUFFICES ASSUME NEW i \in Indexes PROVE nacks'[i] <= kMaxNackRetries /\ (i > n => nacks'[i] = 0)
    BY <1>3 DEF Requested
  <2>1. i \in Int
    BY Sizes
  <2>2. ASSUME i > n PROVE nacks'[i] = 0
    <3>1. i >= n /\ i > top
      BY <1>1, <1>4, <2>1, <2>2
    <3> QED
      BY <1>5, <3>1 DEF ListInv, Requested, Done
  <2> QED
    BY <1>5, <2>2 DEF Done
<1>13. KeysNear'
  <2> SUFFICES ASSUME NEW k \in KeyFramesAfter(n)
               PROVE \E j \in (n - kMaxPacketAge)..(n + Jump) : k = Wrap(j)
    BY <1>1, <1>3 DEF KeysNear, NearTop
  <2>1. PICK j \in (n - kMaxPacketAge)..(top + Jump) : k = Wrap(j)
    BY <1>1, KeysRight
  <2>2. j \in (n - kMaxPacketAge)..(n + Jump)
    BY <1>1, <1>4, <2>1, Sizes
  <2> QED
    BY <2>1, <2>2
<1>14. (Cardinality(DOMAIN nack_list) <= kMaxNackPacketCount)'
  <2>1. IsFiniteSet(DOMAIN nack_list') /\ Cardinality(DOMAIN nack_list') <= Cardinality(DOMAIN list)
    BY <1>2, <1>5, FS_Subset DEF Done
  <2>2. Cardinality(DOMAIN nack_list') \in Nat /\ Cardinality(DOMAIN list) \in Nat
    BY <1>2, <2>1, FS_CardinalityType
  <2> QED
    BY <1>2, <2>1, <2>2, Sizes
<1> QED
  BY <1>9, <1>10, <1>11, <1>12, <1>13, <1>14 DEF ListInv

\* The repeating task requests entries of the list as it is.
LEMMA PeriodicKeeps ==
  ASSUME ListInv, PeriodicUpdate
  PROVE ListInv'
<1> DEFINE due == {q \in DOMAIN nack_list : DelayPassed(nack_list[q]) /\ TimeFilter(nack_list[q])}
<1>1. /\ Request(nack_list, due, top, {})
      /\ UNCHANGED <<initialized, newest_seq_num, rtt_ms, keyframe_list, recovered_list,
                     now, top, first, got, cleared>>
  BY DEF PeriodicUpdate
<1>2. due \in SUBSET DOMAIN nack_list
  OBVIOUS
<1> HIDE DEF due
<1>3. Ready(nack_list, due, top) /\ top \in Int
  BY <1>2, StateSizes DEF ListInv, TypeOK, EntriesStand, Ready
<1>4. Done(nack_list, top, {})
  BY <1>1, <1>3, RequestRight
<1>5. excused' \subseteq Int
  <2>1. ASSUME NEW s \in DOMAIN nack_list PROVE IndexOf(s, top) \in Int
    <3>1. PICK i \in Indexes : s = Wrap(i) /\ top - kMaxPacketAge <= i /\ i < top
      BY <1>3 DEF Ready, Stands
    <3>2. i \in Int /\ top \in Int /\ i <= top /\ top - i < Mod
      BY <1>3, <3>1, Sizes
    <3> QED
      BY <3>1, <3>2, IndexRight
  <2>2. excused \subseteq Int
    BY DEF ListInv, TypeOK
  <2> QED
    BY <1>4, <2>1, <2>2 DEF Done
<1>6. TypeOK'
  BY <1>1, <1>4, <1>5 DEF ListInv, TypeOK, Done
<1>7. Tracks'
  BY <1>1, <1>4 DEF ListInv, Tracks, Done
<1>8. EntriesStand'
  BY <1>1, <1>4 DEF EntriesStand, Stands, Done
<1>9. Requested'
  <2> SUFFICES ASSUME NEW i \in Indexes PROVE nacks'[i] <= kMaxNackRetries /\ (i > top => nacks'[i] = 0)
    BY <1>1 DEF Requested
  <2>1. i \in Int /\ top \in Int
    BY <1>3, Sizes
  <2> QED
    BY <1>4, <2>1 DEF ListInv, Requested, Done
<1>10. KeysNear'
  BY <1>1 DEF ListInv, KeysNear, NearTop
<1>11. (Cardinality(DOMAIN nack_list) <= kMaxNackPacketCount)'
  <2>1. DOMAIN nack_list \subseteq SeqNums
    BY DEF ListInv, TypeOK
  <2>2. IsFiniteSet(DOMAIN nack_list) /\ Cardinality(DOMAIN nack_list) \in Nat
    BY <2>1, ListFinite
  <2>3. IsFiniteSet(DOMAIN nack_list') /\ Cardinality(DOMAIN nack_list') <= Cardinality(DOMAIN nack_list)
    BY <1>4, <2>2, FS_Subset DEF Done
  <2>4. Cardinality(DOMAIN nack_list') \in Nat
    BY <2>3, FS_CardinalityType
  <2>5. Cardinality(DOMAIN nack_list) <= kMaxNackPacketCount
    BY DEF ListInv
  <2> QED
    BY <2>2, <2>3, <2>4, <2>5, Sizes
<1> QED
  BY <1>6, <1>7, <1>8, <1>9, <1>10, <1>11 DEF ListInv

\* Every step preserves the invariant.
LEMMA ListStep == ListInv /\ [Next]_vars => ListInv'
<1> SUFFICES ASSUME ListInv, [Next]_vars PROVE ListInv'
  OBVIOUS
<1>1. ASSUME NEW n \in Indexes, InsertFirst(n) PROVE ListInv'
  BY <1>1, FirstKeeps
<1>2. ASSUME NEW n \in Indexes, InsertLate(n) PROVE ListInv'
  BY <1>2, LateKeeps
<1>3. ASSUME NEW n \in Indexes, InsertRecovered(n) PROVE ListInv'
  BY <1>3, RecoveredKeeps
<1>4. ASSUME NEW n \in Indexes, InsertNewer(n) PROVE ListInv'
  BY <1>4, NewerKeeps
<1>5. ASSUME NEW n \in Indexes, ClearUpTo(n) PROVE ListInv'
  BY <1>5, ClearKeeps
<1>6. CASE PeriodicUpdate
  BY <1>6, PeriodicKeeps
<1>7. ASSUME UNCHANGED <<initialized, newest_seq_num, nack_list, keyframe_list, recovered_list,
                         top, first, got, excused, cleared, nacks>>,
             rtt_ms' \in Rtts, now' \in 0..MaxTime
      PROVE ListInv'
  BY <1>7 DEF ListInv, TypeOK, Tracks, EntriesStand, Stands, Requested, KeysNear, NearTop
<1>8. now \in 0..MaxTime /\ rtt_ms \in Rtts
  BY DEF ListInv, TypeOK
<1>9. CASE UpdateRtt
  BY <1>7, <1>8, <1>9 DEF UpdateRtt
<1>10. CASE Tick
  <2>1. now' \in 0..MaxTime
    BY <1>8, <1>10, NackConstants DEF Tick
  <2> QED
    BY <1>7, <1>8, <1>10, <2>1 DEF Tick, module
<1>11. CASE UNCHANGED vars
  BY <1>7, <1>8, <1>11 DEF vars, module
<1> QED
  BY <1>1, <1>2, <1>3, <1>4, <1>5, <1>6, <1>9, <1>10, <1>11 DEF Next

\* The module's lists always stand for packets near the newest one.
THEOREM ListInvariant == Spec => []ListInv
<1> QED
  BY ListInit, ListStep, PTL DEF Spec

\* What NackModuleImpl asks for is bounded, on the arrival path (AddPacketsToNack) and on the
\* timer path together: the size of nack_list_ and the requests for each packet.
THEOREM BudgetKept == Spec => []NackBudget
<1>1. ListInv => NackBudget
  BY DEF ListInv, Requested, NackBudget
<1> QED
  BY <1>1, ListInvariant, PTL

-----------------------------------------------------------------------------
(* Nothing is lost silently *)

LossInv == RecoveredStand /\ NoSilentLoss

\* An entry stands for the index that its number has.
LEMMA OnList ==
  ASSUME ListInv, NEW s \in DOMAIN nack_list
  PROVE /\ IndexOf(s, top) \in Indexes /\ IndexOf(s, top) \in Int /\ s = Wrap(IndexOf(s, top))
        /\ first <= IndexOf(s, top) /\ top - kMaxPacketAge <= IndexOf(s, top) /\ IndexOf(s, top) < top
<1>1. PICK i \in Indexes : s = Wrap(i) /\ first <= i /\ top - kMaxPacketAge <= i /\ i < top
  BY DEF ListInv, EntriesStand, Stands
<1>2. i \in Int /\ top \in Int /\ i <= top /\ top - i < Mod
  BY <1>1, StateSizes, Sizes
<1>3. IndexOf(s, top) = i
  BY <1>1, <1>2, IndexRight
<1> QED
  BY <1>1, <1>2, <1>3

\* An entry of a list to request from stands for the index that its number has before n.
LEMMA ReadyIndex ==
  ASSUME NEW list, NEW due, NEW n, Ready(list, due, n), NEW s \in DOMAIN list
  PROVE \E i \in Indexes : /\ i \in Int /\ s = Wrap(i) /\ IndexOf(s, n) = i
                           /\ n - kMaxPacketAge <= i /\ i < n
<1>1. PICK i \in Indexes : s = Wrap(i) /\ n - kMaxPacketAge <= i /\ i < n
  BY DEF Ready, Stands
<1>2. i \in Int /\ n \in Int /\ i <= n /\ n - i < Mod
  BY <1>1, Sizes DEF Ready
<1>3. IndexOf(s, n) = i
  BY <1>1, <1>2, IndexRight
<1> QED
  BY <1>1, <1>2, <1>3

\* The index of an entry does not change when a newer packet arrives.
LEMMA SameIndex ==
  ASSUME ListInv, NEW n \in Int, n <= top + Jump, top < n, NEW i \in Int, n - kMaxPacketAge <= i, i < n,
         NEW s \in DOMAIN nack_list, s = Wrap(i)
  PROVE i = IndexOf(s, top)
<1> DEFINE j == IndexOf(s, top)
<1>1. j \in Int /\ s = Wrap(j) /\ top - kMaxPacketAge <= j /\ j < top
  BY OnList
<1> HIDE DEF j
<1>2. top \in Int
  BY StateSizes
<1>3. i - j < Mod /\ j - i < Mod
  BY <1>1, <1>2, Sizes
<1>4. i = j
  BY <1>1, <1>3, WrapInjective
<1> QED
  BY <1>4 DEF j

\* What ClearUpTo(n) drops is before n.
LEMMA ClearDrops ==
  ASSUME ListInv, NEW n \in Int, n > cleared, n <= top, initialized, NEW i \in Int,
         top - kMaxPacketAge <= i, i <= top
  PROVE OlderThan(Wrap(i), Wrap(n)) <=> i < n
<1>1. top \in Int /\ cleared \in Int /\ top - cleared < Half
  BY StateSizes DEF ListInv, Tracks
<1>2. i - n < Half /\ n - i < Half
  BY <1>1, Sizes
<1> QED
  BY <1>2, Order

\* ClearUpTo(n) keeps the packets from n on, of those not before the previous one.
LEMMA ClearKeepsFrom ==
  ASSUME ListInv, NEW n \in got, n > cleared, NEW r \in got, r >= cleared
  PROVE OlderThan(Wrap(r), Wrap(n)) <=> r < n
<1>1. /\ n \in Int /\ r \in Int /\ cleared \in Int
      /\ n - cleared < Half /\ r - cleared < Half
  BY StateSizes
<1>2. r - n < Half /\ n - r < Half
  BY <1>1, Sizes
<1> QED
  BY <1>1, <1>2, Order

\* The recovered list holds arrived packets from the last ClearUpTo on.
LEMMA RecoveredStep ==
  ASSUME ListInv, RecoveredStand, ~ClearsAheadOfNewest, [Next]_vars
  PROVE RecoveredStand'
<1>0. /\ top \in Int /\ cleared \in Int /\ cleared <= top
      /\ \A s \in recovered_list : \E r \in got : s = Wrap(r) /\ cleared <= r
  BY StateSizes DEF RecoveredStand
<1>1. ASSUME NEW n \in Indexes, InsertFirst(n) PROVE RecoveredStand'
  <2>1. recovered_list = {} /\ n \in Int
    BY <1>1, Sizes DEF ListInv, Tracks, InsertFirst
  <2> QED
    BY <1>1, <2>1 DEF RecoveredStand, InsertFirst
<1>2. ASSUME got \subseteq got', recovered_list' = recovered_list, cleared' = cleared, top <= top', top' \in Int
      PROVE RecoveredStand'
  <2>1. cleared' <= top'
    BY <1>0, <1>2
  <2> QED
    BY <1>0, <1>2, <2>1 DEF RecoveredStand
<1>3. ASSUME NEW n \in Indexes, InsertLate(n) PROVE RecoveredStand'
  <2>1. got \subseteq got' /\ recovered_list' = recovered_list /\ cleared' = cleared /\ top' = top
    BY <1>3 DEF InsertLate
  <2> QED
    BY <1>0, <1>2, <2>1
<1>4. ASSUME NEW n \in Indexes, InsertNewer(n) PROVE RecoveredStand'
  <2>1. n \in Int /\ top < n
    BY <1>4, NewerStep
  <2>2. got \subseteq got' /\ recovered_list' = recovered_list /\ cleared' = cleared /\ top' = n
    BY <1>4 DEF InsertNewer
  <2>3. top <= n
    BY <1>0, <2>1
  <2> QED
    BY <1>2, <2>1, <2>2, <2>3
<1>5. ASSUME NEW n \in Indexes, InsertRecovered(n) PROVE RecoveredStand'
  <2>1. n \in Int /\ top < n
    BY <1>5, NewerRight DEF InsertRecovered
  <2>2. cleared <= n
    BY <1>0, <2>1
  <2>3. recovered_list' \subseteq recovered_list \cup {Wrap(n)}
    BY <1>5 DEF InsertRecovered, FromLowerBound
  <2>4. got' = got \cup {n} /\ cleared' = cleared /\ top' = top
    BY <1>5 DEF InsertRecovered
  <2> QED
    BY <1>0, <2>2, <2>3, <2>4 DEF RecoveredStand
<1>6. ASSUME NEW n \in Indexes, ClearUpTo(n) PROVE RecoveredStand'
  <2>1. n \in got /\ n > cleared /\ n <= top /\ n \in Int
    BY <1>6, StateSizes DEF ClearUpTo
  <2>2. /\ recovered_list' = FromLowerBound(recovered_list, Wrap(n))
        /\ got' = got /\ cleared' = n /\ top' = top
    BY <1>6 DEF ClearUpTo
  <2>3. ASSUME NEW s \in recovered_list' PROVE \E r \in got : s = Wrap(r) /\ n <= r
    <3>1. s \in recovered_list /\ ~OlderThan(s, Wrap(n))
      BY <2>2 DEF FromLowerBound
    <3>2. PICK r \in got : s = Wrap(r) /\ cleared <= r
      BY <1>0, <3>1
    <3>3. r \in Int /\ r >= cleared
      BY <1>0, <3>2, StateSizes
    <3>4. OlderThan(Wrap(r), Wrap(n)) <=> r < n
      BY <2>1, <3>3, ClearKeepsFrom
    <3>5. n <= r
      BY <2>1, <3>1, <3>2, <3>3, <3>4
    <3> QED
      BY <3>2, <3>5
  <2> QED
    BY <2>1, <2>2, <2>3 DEF RecoveredStand
<1>7. ASSUME UNCHANGED <<got, recovered_list, cleared, top>> PROVE RecoveredStand'
  BY <1>0, <1>7 DEF RecoveredStand
<1>8. CASE UpdateRtt \/ PeriodicUpdate \/ Tick \/ UNCHANGED vars
  BY <1>7, <1>8 DEF UpdateRtt, PeriodicUpdate, Tick, vars, module
<1> QED
  BY <1>1, <1>3, <1>4, <1>5, <1>6, <1>8 DEF Next

\* Packet m has arrived, is on the list, or was dropped from it for a reason.
Known(m) ==
    \/ m \in got \/ m \in excused
    \/ Wrap(m) \in DOMAIN nack_list /\ IndexOf(Wrap(m), top) = m

\* A late packet takes its own entry off the list, no other.
LEMMA LateLoses ==
  ASSUME ListInv, NEW n \in Indexes, InsertLate(n), NEW m \in Int, Known(m)
  PROVE Known(m)'
<1>1. /\ n \in Int /\ n <= top /\ top - Jump <= n /\ top \in Int
      /\ MayArrive(n) /\ (Wrap(n) = newest_seq_num \/ AheadOf(newest_seq_num, Wrap(n)))
  <2>1. MayArrive(n) /\ (Wrap(n) = newest_seq_num \/ AheadOf(newest_seq_num, Wrap(n)))
    BY DEF InsertLate
  <2> QED
    BY <2>1, NewerRight, StateSizes
<1>2. IndexOf(Wrap(n), top) = n
  <2>1. top - n < Mod
    BY <1>1, Sizes
  <2> QED
    BY <1>1, <2>1, IndexRight
<1>3. got' = got \cup {n} /\ excused' = excused /\ top' = top
  BY DEF InsertLate
<1>4. CASE m \in got \/ m \in excused
  BY <1>3, <1>4 DEF Known
<1>5. CASE Wrap(m) \in DOMAIN nack_list /\ IndexOf(Wrap(m), top) = m
  <2>1. CASE m = n
    BY <1>3, <2>1 DEF Known
  <2>2. CASE m # n
    <3>1. Wrap(m) # Wrap(n)
      BY <1>2, <1>5, <2>2
    <3>2. Wrap(m) \in DOMAIN nack_list'
      BY <1>5, <3>1 DEF InsertLate, LateList, Restricted
    <3> QED
      BY <1>3, <1>5, <3>2 DEF Known
  <2> QED
    BY <2>1, <2>2
<1> QED
  BY <1>4, <1>5 DEF Known

\* ClearUpTo drops entries of packets before the frame's end, which it excuses.
LEMMA ClearLoses ==
  ASSUME ListInv, ~ClearsAheadOfNewest, NEW n \in Indexes, ClearUpTo(n),
         NEW m \in Int, first <= m, m <= top, Known(m)
  PROVE Known(m)'
<1>1. n \in Int /\ n > cleared /\ n <= top /\ initialized /\ first \in Int
  BY StateSizes DEF ClearUpTo
<1>2. /\ got' = got /\ excused' = excused \cup first..(n - 1) /\ top' = top
      /\ nack_list' = Restricted(nack_list, FromLowerBound(DOMAIN nack_list, Wrap(n)))
  BY DEF ClearUpTo
<1>3. CASE m \in got \/ m \in excused
  BY <1>2, <1>3 DEF Known
<1>4. CASE Wrap(m) \in DOMAIN nack_list /\ IndexOf(Wrap(m), top) = m
  <2>1. top - kMaxPacketAge <= m
    BY <1>4, OnList
  <2>2. OlderThan(Wrap(m), Wrap(n)) <=> m < n
    BY <1>1, <2>1, ClearDrops
  <2>3. CASE m < n
    <3>1. m \in first..(n - 1)
      BY <1>1, <2>3
    <3> QED
      BY <1>2, <3>1 DEF Known
  <2>4. CASE ~(m < n)
    <3>1. Wrap(m) \in DOMAIN nack_list'
      BY <1>2, <1>4, <2>2, <2>4 DEF Restricted, FromLowerBound
    <3> QED
      BY <1>2, <1>4, <3>1 DEF Known
  <2> QED
    BY <2>3, <2>4
<1> QED
  BY <1>3, <1>4 DEF Known

\* A request drops only entries that it excuses.
LEMMA DoneLoses ==
  ASSUME NEW list, NEW n, NEW lost, Done(list, n, lost), top' = n,
         NEW m, Wrap(m) \in DOMAIN list, IndexOf(Wrap(m), n) = m
  PROVE Known(m)'
<1>1. CASE Wrap(m) \in DOMAIN nack_list'
  BY <1>1 DEF Known
<1>2. CASE Wrap(m) \notin DOMAIN nack_list'
  <2>1. m \in excused'
    BY <1>2 DEF Done
  <2> QED
    BY <2>1 DEF Known
<1> QED
  BY <1>1, <1>2

\* A newer packet n: what was known stays known, and the gap before n becomes known.
LEMMA NewerLoses ==
  ASSUME ListInv, RecoveredStand, NEW n \in Indexes, InsertNewer(n),
         NEW m \in Int, m <= n, m <= top => Known(m)
  PROVE Known(m)'
<1>1. /\ n \in Int /\ top < n /\ n <= top + Jump /\ n - cleared < Half /\ top \in Int /\ cleared \in Int
  BY NewerStep, StateSizes
<1>2. PICK list, due, lost :
        /\ Ready(list, due, n)
        /\ \A s \in DOMAIN nack_list : s \in DOMAIN list \/ IndexOf(s, top) \in lost
        /\ \A k \in (top + 1)..(n - 1) :
             k \in lost \/ Wrap(k) \in DOMAIN list \/ Wrap(k) \in recovered_list
        /\ Request(list, due, n, lost)
  BY NewerStep
<1>3. Done(list, n, lost)
  BY <1>2, RequestRight
<1>4. excused \subseteq excused' /\ lost \subseteq excused'
  BY <1>3 DEF Done
<1>5. got' = got \cup {n} /\ top' = n
  BY DEF InsertNewer
<1>6. CASE m = n
  BY <1>5, <1>6 DEF Known
<1>7. CASE m <= top
  <2>1. CASE m \in got \/ m \in excused
    BY <1>4, <1>5, <2>1 DEF Known
  <2>2. CASE Wrap(m) \in DOMAIN nack_list /\ IndexOf(Wrap(m), top) = m
    <3>1. CASE m \in lost
      BY <1>4, <3>1 DEF Known
    <3>2. CASE Wrap(m) \in DOMAIN list
      <4>1. PICK i \in Indexes : /\ i \in Int /\ Wrap(m) = Wrap(i) /\ IndexOf(Wrap(m), n) = i
                                 /\ n - kMaxPacketAge <= i /\ i < n
        BY <1>2, <3>2, ReadyIndex
      <4>2. i = m
        BY <1>1, <2>2, <4>1, SameIndex
      <4> QED
        BY <1>3, <1>5, <3>2, <4>1, <4>2, DoneLoses
    <3> QED
      BY <1>2, <2>2, <3>1, <3>2
  <2> QED
    BY <1>7, <2>1, <2>2 DEF Known
<1>8. CASE top < m /\ m < n
  <2>1. m \in (top + 1)..(n - 1)
    BY <1>1, <1>8
  <2>2. CASE m \in lost
    BY <1>4, <2>2 DEF Known
  <2>3. CASE Wrap(m) \in DOMAIN list
    <3>1. m <= n /\ n - m < Mod
      BY <1>1, <1>8, Sizes
    <3>2. IndexOf(Wrap(m), n) = m
      BY <1>1, <3>1, IndexRight
    <3> QED
      BY <1>3, <1>5, <2>3, <3>2, DoneLoses
  <2>4. CASE Wrap(m) \in recovered_list
    <3>1. PICK r \in got : Wrap(m) = Wrap(r) /\ cleared <= r
      BY <2>4 DEF RecoveredStand
    <3>2. r \in Int /\ r <= top + Jump
      BY StateSizes
    <3>3. m - r < Mod /\ r - m < Mod
      BY <1>1, <1>8, <3>1, <3>2, Sizes
    <3>4. m = r
      BY <3>1, <3>2, <3>3, WrapInjective
    <3> QED
      BY <1>5, <3>4 DEF Known
  <2> QED
    BY <1>2, <2>1, <2>2, <2>3, <2>4
<1> QED
  BY <1>1, <1>6, <1>7, <1>8

\* Every step accounts for every packet up to the newest one.
LEMMA LossStep ==
  ASSUME ListInv, LossInv, ~ClearsAheadOfNewest, [Next]_vars
  PROVE LossInv'
<1>1. RecoveredStand'
  BY RecoveredStep DEF LossInv
<1>2. first \in Int /\ top \in Int /\ RecoveredStand
  BY StateSizes DEF LossInv
<1>3. initialized => \A m \in first..top : Known(m)
  BY DEF LossInv, NoSilentLoss, Known
<1>4. ASSUME initialized' => \A m \in first'..top' : Known(m)' PROVE NoSilentLoss'
  BY <1>4 DEF NoSilentLoss, Known
<1>5. ASSUME NEW n \in Indexes, InsertFirst(n) PROVE NoSilentLoss'
  <2>1. n \in Int /\ first' = n /\ top' = n /\ got' = {n}
    BY <1>5, Sizes DEF InsertFirst
  <2>2. \A m \in first'..top' : Known(m)'
    <3> SUFFICES ASSUME NEW m \in first'..top' PROVE Known(m)'
      OBVIOUS
    <3>1. m = n
      BY <2>1
    <3> QED
      BY <2>1, <3>1 DEF Known
  <2> QED
    BY <1>4, <2>2
<1>6. ASSUME NEW n \in Indexes, InsertLate(n) PROVE NoSilentLoss'
  <2>1. initialized /\ first' = first /\ top' = top
    BY <1>6 DEF InsertLate
  <2>2. \A m \in first'..top' : Known(m)'
    <3> SUFFICES ASSUME NEW m \in first..top PROVE Known(m)'
      BY <2>1
    <3>1. m \in Int /\ Known(m)
      BY <1>2, <1>3, <2>1
    <3> QED
      BY <1>6, <3>1, LateLoses
  <2> QED
    BY <1>4, <2>2
<1>7. ASSUME NEW n \in Indexes, InsertRecovered(n) PROVE NoSilentLoss'
  <2>1. initialized /\ UNCHANGED <<first, top, excused, nack_list>> /\ got' = got \cup {n}
    BY <1>7 DEF InsertRecovered
  <2>2. \A m \in first'..top' : Known(m)'
    BY <1>3, <2>1 DEF Known
  <2> QED
    BY <1>4, <2>2
<1>8. ASSUME NEW n \in Indexes, InsertNewer(n) PROVE NoSilentLoss'
  <2>1. initialized /\ first' = first /\ top' = n
    BY <1>8 DEF InsertNewer
  <2>2. \A m \in first'..top' : Known(m)'
    <3> SUFFICES ASSUME NEW m \in first..n PROVE Known(m)'
      BY <2>1
    <3>1. m \in Int /\ first <= m /\ m <= n
      BY <1>2, Sizes
    <3>2. m <= top => Known(m)
      BY <1>2, <1>3, <2>1, <3>1
    <3> QED
      BY <1>2, <1>8, <3>1, <3>2, NewerLoses
  <2> QED
    BY <1>4, <2>2
<1>9. ASSUME NEW n \in Indexes, ClearUpTo(n) PROVE NoSilentLoss'
  <2>1. initialized /\ first' = first /\ top' = top
    BY <1>9 DEF ClearUpTo
  <2>2. \A m \in first'..top' : Known(m)'
    <3> SUFFICES ASSUME NEW m \in first..top PROVE Known(m)'
      BY <2>1
    <3>1. m \in Int /\ Known(m) /\ first <= m /\ m <= top
      BY <1>2, <1>3, <2>1
    <3> QED
      BY <1>9, <3>1, ClearLoses
  <2> QED
    BY <1>4, <2>2
<1>10. ASSUME PeriodicUpdate PROVE NoSilentLoss'
  <2> DEFINE due == {q \in DOMAIN nack_list : DelayPassed(nack_list[q]) /\ TimeFilter(nack_list[q])}
  <2>1. /\ Request(nack_list, due, top, {})
        /\ UNCHANGED <<initialized, top, first, got>>
    BY <1>10 DEF PeriodicUpdate
  <2>2. due \in SUBSET DOMAIN nack_list
    OBVIOUS
  <2> HIDE DEF due
  <2>3. Ready(nack_list, due, top)
    BY <2>2, StateSizes DEF ListInv, TypeOK, EntriesStand, Ready
  <2>4. Done(nack_list, top, {})
    BY <2>1, <2>3, RequestRight
  <2>5. initialized => \A m \in first'..top' : Known(m)'
    <3> SUFFICES ASSUME initialized, NEW m \in first..top PROVE Known(m)'
      BY <2>1
    <3>1. Known(m)
      BY <1>3
    <3>2. CASE m \in got \/ m \in excused
      BY <2>1, <2>4, <3>2 DEF Known, Done
    <3>3. CASE Wrap(m) \in DOMAIN nack_list /\ IndexOf(Wrap(m), top) = m
      BY <2>1, <2>4, <3>3, DoneLoses
    <3> QED
      BY <3>1, <3>2, <3>3 DEF Known
  <2> QED
    BY <1>4, <2>1, <2>5
<1>11. ASSUME UNCHANGED <<initialized, first, top, got, excused, nack_list>> PROVE NoSilentLoss'
  BY <1>11 DEF LossInv, NoSilentLoss
<1>12. ASSUME UpdateRtt \/ Tick \/ UNCHANGED vars PROVE NoSilentLoss'
  BY <1>11, <1>12 DEF UpdateRtt, Tick, vars, module
<1>13. NoSilentLoss'
  BY <1>5, <1>6, <1>7, <1>8, <1>9, <1>10, <1>12 DEF Next
<1> QED
  BY <1>1, <1>13 DEF LossInv

\* While frames become continuous only up to newest_seq_num_, every packet between the first
\* and the newest one has arrived, is on nack_list_, or was dropped from it by
\* AddPacketsToNack, NackListToSend or ClearUpTo for a reason.
THEOREM NothingLostSilently ==
  ASSUME ~ClearsAheadOfNewest
  PROVE Spec => []NoSilentLoss
<1>1. Init => LossInv
  BY Sizes DEF Init, LossInv, RecoveredStand, NoSilentLoss
<1>2. ListInv /\ LossInv /\ [Next]_vars => LossInv'
  BY LossStep
<1>3. LossInv => NoSilentLoss
  BY DEF LossInv
<1> QED
  BY <1>1, <1>2, <1>3, ListInvariant, PTL DEF Spec

-----------------------------------------------------------------------------
(* Nothing that has arrived is requested *)

ReceivedInv == AheadRecovered /\ NoNackForReceived

\* A recovered packet is remembered while it is ahead of the newest one.
LEMMA RecoveredRemembered ==
  ASSUME ListInv, AheadRecovered, Jump <= kMaxPacketAge + 1, NEW n \in Indexes, InsertRecovered(n)
  PROVE AheadRecovered'
<1>1. /\ n \in Int /\ top < n /\ n <= top + Jump /\ top \in Int
  BY NewerRight, StateSizes DEF InsertRecovered
<1> DEFINE x == n - kMaxPacketAge
<1>2. x \in Int /\ x <= top + 1 /\ top < x + kMaxPacketAge
  BY <1>1, Sizes
<1>3. /\ recovered_list' = FromLowerBound(recovered_list \cup {Wrap(n)}, Wrap(x))
      /\ got' = got \cup {n} /\ top' = top
  BY DEF InsertRecovered
<1> SUFFICES ASSUME NEW m \in got', m > top PROVE Wrap(m) \in recovered_list'
  BY <1>3 DEF AheadRecovered
<1>4. m \in Int /\ m <= top + Jump
  BY <1>1, <1>3, StateSizes
<1>5. Wrap(m) \in recovered_list \cup {Wrap(n)}
  BY <1>3 DEF AheadRecovered
<1>6. m - x < Half /\ x - m < Half /\ ~(m < x)
  BY <1>1, <1>2, <1>4, Sizes
<1> HIDE DEF x
<1>7. ~OlderThan(Wrap(m), Wrap(x))
  BY <1>2, <1>4, <1>6, Order
<1> QED
  BY <1>3, <1>5, <1>7 DEF FromLowerBound

\* The list that a newer packet leaves holds no packet that has arrived.
LEMMA NewerUnreceived ==
  ASSUME ListInv, ReceivedInv, NEW n \in Indexes, InsertNewer(n)
  PROVE ReceivedInv'
<1>1. n \in Int /\ top < n /\ n <= top + Jump /\ top \in Int
  BY NewerStep, StateSizes
<1>2. PICK list, due, lost :
        /\ Ready(list, due, n)
        /\ \A s \in DOMAIN list : \/ s \in DOMAIN nack_list
                                  \/ \E m \in (top + 1)..(n - 1) : s = Wrap(m) /\ s \notin recovered_list
        /\ Request(list, due, n, lost)
  BY NewerStep
<1>3. Done(list, n, lost)
  BY <1>2, RequestRight
<1>4. got' = got \cup {n} /\ top' = n /\ recovered_list' = recovered_list
  BY DEF InsertNewer
<1>5. AheadRecovered'
  <2> SUFFICES ASSUME NEW m \in got', m > n PROVE Wrap(m) \in recovered_list
    BY <1>4 DEF AheadRecovered
  <2>1. m \in got /\ m \in Int
    BY <1>1, <1>4, StateSizes
  <2>2. m > top
    BY <1>1, <2>1
  <2> QED
    BY <2>1, <2>2 DEF ReceivedInv, AheadRecovered
<1>6. ASSUME NEW s \in DOMAIN nack_list' PROVE IndexOf(s, n) \notin got'
  <2>1. s \in DOMAIN list
    BY <1>3 DEF Done
  <2>2. PICK i \in Indexes : /\ i \in Int /\ s = Wrap(i) /\ IndexOf(s, n) = i
                             /\ n - kMaxPacketAge <= i /\ i < n
    BY <1>2, <2>1, ReadyIndex
  <2>3. i # n
    BY <1>1, <2>2
  <2>4. CASE s \in DOMAIN nack_list
    <3>1. i = IndexOf(s, top)
      BY <1>1, <2>2, <2>4, SameIndex
    <3>2. IndexOf(s, top) \notin got
      BY <2>4 DEF ReceivedInv, NoNackForReceived
    <3> QED
      BY <1>4, <2>2, <2>3, <3>1, <3>2
  <2>5. CASE \E m \in (top + 1)..(n - 1) : s = Wrap(m) /\ s \notin recovered_list
    <3>1. PICK m \in (top + 1)..(n - 1) : s = Wrap(m) /\ s \notin recovered_list
      BY <2>5
    <3>2. m \in Int /\ top < m /\ m < n /\ i - m < Mod /\ m - i < Mod
      BY <1>1, <2>2, Sizes
    <3>3. i = m
      BY <2>2, <3>1, <3>2, WrapInjective
    <3>4. m \notin got
      BY <3>1, <3>2 DEF ReceivedInv, AheadRecovered
    <3> QED
      BY <1>4, <2>2, <2>3, <3>3, <3>4
  <2> QED
    BY <1>2, <2>1, <2>4, <2>5
<1>7. NoNackForReceived'
  BY <1>4, <1>6 DEF NoNackForReceived
<1> QED
  BY <1>5, <1>7 DEF ReceivedInv

\* No step puts a packet that has arrived on the list.
LEMMA ReceivedStep ==
  ASSUME ListInv, ReceivedInv, ~ClearsAheadOfNewest, Jump <= kMaxPacketAge + 1, [Next]_vars
  PROVE ReceivedInv'
<1>0. AheadRecovered /\ NoNackForReceived /\ top \in Int
  BY StateSizes DEF ReceivedInv
<1>1. ASSUME NEW n \in Indexes, InsertFirst(n) PROVE ReceivedInv'
  <2>1. DOMAIN nack_list = {} /\ n \in Int
    BY <1>1, Sizes DEF ListInv, Tracks, InsertFirst
  <2> QED
    BY <1>1, <2>1 DEF ReceivedInv, AheadRecovered, NoNackForReceived, InsertFirst
<1>2. ASSUME NEW n \in Indexes, InsertLate(n) PROVE ReceivedInv'
  <2>1. /\ n \in Int /\ n <= top
        /\ Wrap(n) = newest_seq_num => n = top
    <3>1. MayArrive(n) /\ (Wrap(n) = newest_seq_num \/ AheadOf(newest_seq_num, Wrap(n)))
      BY <1>2 DEF InsertLate
    <3> QED
      BY <1>0, <3>1, NewerRight
  <2>2. got' = got \cup {n} /\ top' = top /\ recovered_list' = recovered_list
    BY <1>2 DEF InsertLate
  <2>3. AheadRecovered'
    <3>1. ~(n > top)
      BY <1>0, <2>1
    <3> QED
      BY <1>0, <2>2, <3>1 DEF AheadRecovered
  <2>4. ASSUME NEW s \in DOMAIN nack_list' PROVE IndexOf(s, top) \notin got'
    <3>1. s \in DOMAIN nack_list /\ (s # Wrap(n) \/ n = top)
      BY <1>2, <2>1 DEF InsertLate, LateList, Restricted
    <3>2. s = Wrap(IndexOf(s, top)) /\ IndexOf(s, top) < top /\ IndexOf(s, top) \in Int
      BY <3>1, OnList
    <3>3. IndexOf(s, top) # n
      BY <1>0, <3>1, <3>2
    <3> QED
      BY <1>0, <2>2, <3>1, <3>3 DEF NoNackForReceived
  <2> QED
    BY <2>2, <2>3, <2>4 DEF ReceivedInv, NoNackForReceived
<1>3. ASSUME NEW n \in Indexes, InsertRecovered(n) PROVE ReceivedInv'
  <2>1. n \in Int /\ top < n
    BY <1>3, NewerRight DEF InsertRecovered
  <2>2. got' = got \cup {n} /\ top' = top /\ nack_list' = nack_list
    BY <1>3 DEF InsertRecovered
  <2>3. AheadRecovered'
    BY <1>0, <1>3, RecoveredRemembered
  <2>4. ASSUME NEW s \in DOMAIN nack_list PROVE IndexOf(s, top) \notin got'
    <3>1. IndexOf(s, top) < top /\ IndexOf(s, top) \in Int
      BY OnList
    <3>2. IndexOf(s, top) # n
      BY <1>0, <2>1, <3>1
    <3> QED
      BY <1>0, <2>2, <3>2 DEF NoNackForReceived
  <2> QED
    BY <2>2, <2>3, <2>4 DEF ReceivedInv, NoNackForReceived
<1>4. ASSUME NEW n \in Indexes, InsertNewer(n) PROVE ReceivedInv'
  BY <1>4, NewerUnreceived
<1>5. ASSUME DOMAIN nack_list' \subseteq DOMAIN nack_list, UNCHANGED <<got, top>>, AheadRecovered' PROVE ReceivedInv'
  BY <1>0, <1>5 DEF ReceivedInv, NoNackForReceived
<1>6. ASSUME NEW n \in Indexes, ClearUpTo(n) PROVE ReceivedInv'
  <2>1. n \in got /\ n > cleared /\ n <= top /\ n \in Int /\ cleared \in Int
    BY <1>6, StateSizes DEF ClearUpTo
  <2>2. /\ recovered_list' = FromLowerBound(recovered_list, Wrap(n))
        /\ UNCHANGED <<got, top>>
        /\ nack_list' = Restricted(nack_list, FromLowerBound(DOMAIN nack_list, Wrap(n)))
    BY <1>6 DEF ClearUpTo
  <2>3. DOMAIN nack_list' \subseteq DOMAIN nack_list
    BY <2>2 DEF Restricted, FromLowerBound
  <2>4. AheadRecovered'
    <3> SUFFICES ASSUME NEW m \in got, m > top PROVE Wrap(m) \in recovered_list'
      BY <2>2 DEF AheadRecovered
    <3>1. m \in Int
      BY StateSizes
    <3>2. m >= cleared /\ ~(m < n)
      BY <1>0, <2>1, <3>1
    <3>3. ~OlderThan(Wrap(m), Wrap(n))
      BY <2>1, <3>2, ClearKeepsFrom
    <3>4. Wrap(m) \in recovered_list
      BY <1>0 DEF AheadRecovered
    <3> QED
      BY <2>2, <3>3, <3>4 DEF FromLowerBound
  <2> QED
    BY <1>5, <2>2, <2>3, <2>4
<1>7. CASE PeriodicUpdate
  <2> DEFINE due == {q \in DOMAIN nack_list : DelayPassed(nack_list[q]) /\ TimeFilter(nack_list[q])}
  <2>1. Request(nack_list, due, top, {}) /\ UNCHANGED <<top, got, recovered_list>>
    BY <1>7 DEF PeriodicUpdate
  <2>2. due \in SUBSET DOMAIN nack_list
    OBVIOUS
  <2> HIDE DEF due
  <2>3. Ready(nack_list, due, top)
    BY <2>2, StateSizes DEF ListInv, TypeOK, EntriesStand, Ready
  <2>4. Done(nack_list, top, {})
    BY <2>1, <2>3, RequestRight
  <2>5. AheadRecovered'
    BY <1>0, <2>1 DEF AheadRecovered
  <2> QED
    BY <1>5, <2>1, <2>4, <2>5 DEF Done
<1>8. ASSUME UNCHANGED <<nack_list, got, top, recovered_list>> PROVE ReceivedInv'
  BY <1>0, <1>8 DEF ReceivedInv, AheadRecovered, NoNackForReceived
<1>9. CASE UpdateRtt \/ Tick \/ UNCHANGED vars
  BY <1>8, <1>9 DEF UpdateRtt, Tick, vars, module
<1> QED
  BY <1>1, <1>2, <1>3, <1>4, <1>6, <1>7, <1>9 DEF Next

\* While frames become continuous only up to newest_seq_num_, and no packet is recovered more
\* than kMaxPacketAge + 1 ahead of it, a packet that arrived late or was recovered by FEC or
\* RTX is not on nack_list_.
THEOREM NothingReceivedRequested ==
  ASSUME ~ClearsAheadOfNewest, Jump <= kMaxPacketAge + 1
  PROVE Spec => []NoNackForReceived
<1>1. Init => ReceivedInv
  BY DEF Init, ReceivedInv, AheadRecovered, NoNackForReceived
<1>2. ListInv /\ ReceivedInv /\ [Next]_vars => ReceivedInv'
  BY ReceivedStep
<1>3. ReceivedInv => NoNackForReceived
  BY DEF ReceivedInv
<1> QED
  BY <1>1, <1>2, <1>3, ListInvariant, PTL DEF Spec

=============================================================================

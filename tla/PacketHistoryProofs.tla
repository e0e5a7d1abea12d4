------------------------ MODULE PacketHistoryProofs ------------------------
(***************************************************************************)
(* Proofs about PacketHistory, for every capacity, every round-trip time    *)
(* and every sequence of sends, NACKs, padding and resets in which a        *)
(* number is not used again while the packet that had it is still stored    *)
(* or waits in the pacer.                                                   *)
(***************************************************************************)
EXTENDS PacketHistory, SeqNumProofs, FiniteSetTheorems, SequenceTheorems, WellFoundedInduction

-----------------------------------------------------------------------------
(* The invariant *)

Entry == [order : Nat, seq : SeqNums, send_time : Nat, pending : BOOLEAN, num_retransmitted : Nat]
Slot == Entry \cup {Hole}
Queued == [seq : SeqNums, order : Nat, rtt : Nat]

Packets(h) == {h[i] : i \in {j \in DOMAIN h : Populated(h[j])}}

\* The history starts with a packet; the others are at the places their numbers say, in
\* the order they were stored.
IsHistory(h) ==
    /\ h \in Seq(Slot) /\ Len(h) <= Mod \div 2
    /\ h # <<>> => Populated(h[1])
    /\ \A i \in 1..Len(h) : Populated(h[i]) => h[i].seq = Wrap(h[1].seq + (i - 1))
    /\ \A i, j \in 1..Len(h) :
        Populated(h[i]) /\ Populated(h[j]) /\ i < j => h[i].order < h[j].order

\* The counters are ahead of the packets.
Aged(S, inserted, time, sent_) ==
    \A e \in S : e.order < inserted /\ e.send_time <= time /\ e.num_retransmitted <= sent_

\* A packet and the retransmissions q in the pacer: the one with its number is its own, there is
\* one exactly while the packet is pending, and it waited for the round-trip time.
Matches(e, q, time) ==
    /\ \A k \in 1..Len(q) : e.order = q[k].order <=> e.seq = q[k].seq
    /\ e.pending = TRUE <=> \E k \in 1..Len(q) : q[k].order = e.order
    /\ \A k, l \in 1..Len(q) : q[k].order = e.order /\ q[l].order = e.order => k = l
    /\ \A k \in 1..Len(q) : q[k].order = e.order /\ e.num_retransmitted > 0 =>
           time - e.send_time >= q[k].rtt

Agree(S, q, inserted, time) ==
    /\ q \in Seq(Queued) /\ \A k \in 1..Len(q) : q[k].order < inserted
    /\ \A e \in S : Matches(e, q, time)

Prioritized(P, h) ==
    /\ P \subseteq Orders(h) /\ IsFiniteSet(P)
    /\ Cardinality(P) < kMaxPaddingtHistory

Counters ==
    /\ packets_inserted \in Nat /\ now \in Nat /\ sends \in Nat
    /\ media_seq_num \in SeqNums /\ rtt_ms \in Int /\ storing \in BOOLEAN

HistoryInv ==
    /\ Counters
    /\ IsHistory(packet_history)
    /\ Aged(Packets(packet_history), packets_inserted, now, sends)
    /\ storing = FALSE => packet_history = <<>>
    /\ Prioritized(padding_priority, packet_history)
    /\ Agree(Packets(packet_history), pacer, packets_inserted, now)
    /\ RetransmissionsSpaced

\* The next number is less than half the range ahead of the packets still stored, and not that
\* of a retransmission still queued.
NumbersFresh ==
    /\ \A e \in Stored : ForwardDiff(e.seq, media_seq_num) \in 1..(Mod \div 2 - 1)
    /\ \A k \in DOMAIN pacer : pacer[k].seq # media_seq_num

-----------------------------------------------------------------------------
(* Places *)

\* A set of numbers that is not empty has a first one.
LEMMA FirstNumber ==
  ASSUME NEW S \in SUBSET Nat, S # {}
  PROVE \E m \in S : \A y \in S : m <= y
<1>1. PICK m \in S : \A y \in S : ~(<<y, m>> \in OpToRel(<, Nat))
  BY WFMin, NatLessThanWellFounded
<1>2. ASSUME NEW y \in S PROVE m <= y
  <2>1. y \in Nat /\ m \in Nat
    OBVIOUS
  <2>2. ~(y < m)
    BY <1>1, <2>1 DEF OpToRel
  <2> QED
    BY <2>1, <2>2
<1> QED
  BY <1>2

\* What is not a hole is a packet.
LEMMA SlotEntry ==
  ASSUME NEW e \in Slot
  PROVE /\ Populated(e) <=> e \in Entry
        /\ Populated(e) => /\ e.order \in Nat /\ e.seq \in SeqNums /\ e.send_time \in Nat
                           /\ e.pending \in BOOLEAN /\ e.num_retransmitted \in Nat
<1>1. Hole.order = -1
  BY DEF Hole
<1>2. Hole \notin Entry
  BY <1>1 DEF Entry
<1> QED
  BY <1>2 DEF Slot, Populated, Entry

LEMMA HistoryShape ==
  ASSUME NEW h, IsHistory(h)
  PROVE /\ Len(h) \in Nat /\ DOMAIN h = 1..Len(h) /\ Len(h) <= Mod \div 2
        /\ \A i \in 1..Len(h) : h[i] \in Slot
        /\ h # <<>> => 1 \in 1..Len(h) /\ Populated(h[1])
<1>1. h \in Seq(Slot)
  BY DEF IsHistory
<1>2. Len(h) \in Nat /\ DOMAIN h = 1..Len(h) /\ \A i \in 1..Len(h) : h[i] \in Slot
  BY <1>1, LenProperties, ElementOfSeq
<1>3. h # <<>> => Len(h) \in Nat \ {0}
  BY <1>1, EmptySeq
<1> QED
  BY <1>2, <1>3 DEF IsHistory

\* The packets of a history by their places.
LEMMA PacketPlace ==
  ASSUME NEW h, IsHistory(h), NEW e
  PROVE e \in Packets(h) <=> \E i \in 1..Len(h) : e = h[i] /\ Populated(h[i])
  BY HistoryShape DEF Packets

LEMMA PacketEntry ==
  ASSUME NEW h, IsHistory(h), NEW e \in Packets(h)
  PROVE /\ e \in Entry /\ e.order \in Nat /\ e.seq \in SeqNums /\ e.send_time \in Nat
        /\ e.pending \in BOOLEAN /\ e.num_retransmitted \in Nat
  BY PacketPlace, HistoryShape, SlotEntry

\* The index of a packet's number is the packet's own.
LEMMA IndexOfPacket ==
  ASSUME NEW h, IsHistory(h), NEW i \in 1..Len(h), Populated(h[i])
  PROVE GetPacketIndex(h, h[i].seq) = i - 1 /\ HasPacket(h, h[i].seq) /\ GetStoredPacket(h, h[i].seq) = h[i]
<1> DEFINE first == h[1].seq
           a == first + (i - 1)
           seq == h[i].seq
<1>1. /\ h # <<>> /\ Len(h) \in Nat /\ i \in Int /\ 1 <= i /\ i <= Len(h)
      /\ first \in Int /\ 0 <= first /\ first < Mod /\ seq = Wrap(a)
  <2>1. h # <<>> /\ Len(h) \in Nat /\ i \in Int /\ 1 <= i /\ i <= Len(h)
    BY HistoryShape
  <2>2. h[1] \in Slot /\ Populated(h[1])
    BY <2>1, HistoryShape
  <2>3. first \in SeqNums
    BY <2>2, SlotEntry
  <2>4. seq = Wrap(a)
    BY DEF IsHistory
  <2> QED
    BY <2>1, <2>3, <2>4, ModAssumption DEF SeqNums
<1>2. Mod \div 2 \in Int /\ 2 * (Mod \div 2) = Mod /\ Mod \div 2 >= 1 /\ Mod \in Int /\ i - 1 < Mod \div 2
  BY <1>1, HalfRange DEF IsHistory
<1>3. Wrap(first) = first
  BY <1>1, WrapOnce
<1>4. a \in Int /\ first <= a /\ a - first < Mod \div 2 /\ first - a < Mod \div 2 /\ a - first < Mod
      /\ a - first = i - 1
  BY <1>1, <1>2
<1>5. AheadOf(seq, first) <=> first < a
  BY <1>1, <1>3, <1>4, AheadRight
<1>6. ForwardDiff(first, seq) = i - 1 /\ ReverseDiff(first, first) = 0
  <2>1. ForwardDiff(first, seq) = i - 1
    BY <1>1, <1>3, <1>4, DiffRight
  <2> QED
    BY <1>1, <2>1 DEF ReverseDiff
<1>7. GetPacketIndex(h, seq) = IF AheadOf(seq, first) THEN ForwardDiff(first, seq) ELSE -ReverseDiff(first, seq)
  BY <1>1 DEF GetPacketIndex
<1>8. GetPacketIndex(h, seq) = i - 1
  <2>1. CASE first < a
    BY <1>5, <1>6, <1>7, <2>1
  <2>2. CASE ~(first < a)
    <3>1. i = 1
      BY <1>1, <2>2
    <3> QED
      BY <1>5, <1>6, <1>7, <2>2, <3>1
  <2> QED
    BY <2>1, <2>2
<1>9. (i - 1) + 1 = i /\ i - 1 >= 0 /\ i - 1 < Len(h)
  BY <1>1
<1> QED
  BY <1>8, <1>9 DEF HasPacket, Holds, GetStoredPacket

\* A number that is found is that of the packet.
LEMMA HeldPacket ==
  ASSUME NEW h, IsHistory(h), NEW seq \in SeqNums, HasPacket(h, seq)
  PROVE \E i \in 1..Len(h) : /\ Populated(h[i]) /\ h[i].seq = seq
                             /\ GetPacketIndex(h, seq) = i - 1
<1> DEFINE n == GetPacketIndex(h, seq)
           first == h[1].seq
<1>1. n >= 0 /\ n < Len(h) /\ Populated(h[n + 1])
  BY DEF HasPacket, Holds
<1>2. Len(h) \in Nat /\ h # <<>>
  <2>1. Len(h) \in Nat
    BY HistoryShape
  <2>2. h = <<>> => n = 0 /\ Len(h) = 0
    BY EmptySeq DEF GetPacketIndex
  <2> QED
    BY <1>1, <2>1, <2>2
<1>3. n = IF AheadOf(seq, first) THEN ForwardDiff(first, seq) ELSE -ReverseDiff(first, seq)
  BY <1>2 DEF GetPacketIndex
<1>4. first \in Int /\ 0 <= first /\ first < Mod /\ seq \in Int /\ 0 <= seq /\ seq < Mod /\ Mod \in Int
  <2>1. first \in SeqNums
    BY <1>2, HistoryShape, SlotEntry
  <2> QED
    BY <2>1, ModAssumption DEF SeqNums
<1> HIDE DEF n
<1>5. n \in Int /\ (first + n = seq \/ first + n = seq + Mod)
  <2>1. CASE AheadOf(seq, first)
    BY <1>3, <1>4, <2>1 DEF ForwardDiff
  <2>2. CASE ~AheadOf(seq, first)
    <3>1. n = -ReverseDiff(first, seq) /\ ReverseDiff(first, seq) \in Int /\ ReverseDiff(first, seq) >= 0
      BY <1>3, <1>4, <2>2 DEF ReverseDiff
    <3>2. ReverseDiff(first, seq) = 0 /\ n = 0
      BY <1>1, <3>1
    <3>3. first = seq
      BY <1>4, <3>2 DEF ReverseDiff
    <3> QED
      BY <1>4, <3>2, <3>3
  <2> QED
    BY <2>1, <2>2
<1>6. n + 1 \in 1..Len(h) /\ (n + 1) - 1 = n
  BY <1>1, <1>2, <1>5
<1>7. h[n + 1].seq = Wrap(first + n)
  BY <1>1, <1>6 DEF IsHistory
<1>8. Wrap(first + n) = seq
  <2>1. CASE first + n = seq
    BY <1>4, <2>1, WrapOnce
  <2>2. CASE first + n = seq + Mod
    <3>1. seq + Mod \in Int /\ Mod <= seq + Mod /\ seq + Mod < 2 * Mod /\ (seq + Mod) - Mod = seq
      BY <1>4
    <3> QED
      BY <2>2, <3>1, WrapOnce
  <2> QED
    BY <1>5, <2>1, <2>2
<1> QED
  BY <1>1, <1>6, <1>7, <1>8 DEF n

-----------------------------------------------------------------------------
(* Operations on the history *)

Exchange(h, i, e) == [h EXCEPT ![i] = e]

\* A packet is replaced by one with its number and order.
LEMMA ChangeOne ==
  ASSUME NEW h, IsHistory(h), NEW i \in 1..Len(h), Populated(h[i]), NEW e \in Entry,
         e.order = h[i].order, e.seq = h[i].seq
  PROVE /\ IsHistory(Exchange(h, i, e)) /\ Orders(Exchange(h, i, e)) = Orders(h)
        /\ \A x \in Packets(Exchange(h, i, e)) : x = e \/ (x \in Packets(h) /\ x.order # e.order)
<1> DEFINE g == [h EXCEPT ![i] = e]
<1>1. h \in Seq(Slot) /\ e \in Slot /\ Populated(e) /\ Len(h) \in Nat
  BY HistoryShape, SlotEntry DEF IsHistory, Slot
<1>2. g \in Seq(Slot) /\ Len(g) = Len(h) /\ \A j \in 1..Len(h) : g[j] = IF j = i THEN e ELSE h[j]
  BY <1>1, ExceptSeq
<1> HIDE DEF g
<1>3. /\ \A j \in 1..Len(h) : Populated(g[j]) <=> Populated(h[j])
      /\ \A j \in 1..Len(h) : Populated(h[j]) => g[j].order = h[j].order /\ g[j].seq = h[j].seq
  BY <1>1, <1>2
<1>4. DOMAIN g = 1..Len(h) /\ DOMAIN h = 1..Len(h)
  BY <1>1, <1>2, LenProperties
<1>5. IsHistory(g)
  <2>1. g # <<>> => 1 \in 1..Len(h) /\ Populated(h[1])
    <3>1. g # <<>> => Len(h) # 0
      BY <1>1, <1>2, EmptySeq
    <3>2. Len(h) # 0 => h # <<>>
      BY EmptySeq
    <3> QED
      BY <1>1, <3>1, <3>2 DEF IsHistory
  <2>2. h # <<>>
    BY <1>1, EmptySeq
  <2>3. 1 \in 1..Len(h) /\ Populated(h[1])
    BY <2>2, HistoryShape
  <2>4. g[1].seq = h[1].seq
    BY <1>3, <2>3
  <2>5. \A j \in 1..Len(g) : Populated(g[j]) => g[j].seq = Wrap(g[1].seq + (j - 1))
    BY <1>2, <1>3, <2>4 DEF IsHistory
  <2>6. \A j, k \in 1..Len(g) : Populated(g[j]) /\ Populated(g[k]) /\ j < k => g[j].order < g[k].order
    BY <1>2, <1>3 DEF IsHistory
  <2> QED
    BY <1>2, <1>3, <2>1, <2>5, <2>6 DEF IsHistory
<1>6. Orders(g) = Orders(h)
  BY <1>3, <1>4 DEF Orders
<1>7. ASSUME NEW x \in Packets(g), x # e PROVE x \in Packets(h) /\ x.order # e.order
  <2>1. PICK j \in 1..Len(h) : x = g[j] /\ Populated(g[j])
    BY <1>2, <1>5, PacketPlace
  <2>2. j # i /\ x = h[j] /\ Populated(h[j])
    BY <1>2, <1>7, <2>1
  <2>3. h[i].order \in Nat /\ h[j].order \in Nat /\ i \in Nat /\ j \in Nat
    BY <1>1, <2>2, HistoryShape, SlotEntry
  <2>4. (i < j \/ j < i) => h[j].order # h[i].order
    BY <2>2, <2>3 DEF IsHistory
  <2> QED
    BY <2>2, <2>3, <2>4, PacketPlace
<1> QED
  BY <1>5, <1>6, <1>7 DEF g, Exchange

\* The rest of a history, from one of its packets.
Rest(h, m) == SubSeq(h, m, Len(h))

LEMMA RestOfHistory ==
  ASSUME NEW h, IsHistory(h), NEW m \in 1..Len(h), Populated(h[m])
  PROVE /\ IsHistory(Rest(h, m)) /\ Len(Rest(h, m)) = Len(h) - m + 1
        /\ \A i \in 1..Len(Rest(h, m)) : Rest(h, m)[i] = h[m + i - 1]
<1> DEFINE g == SubSeq(h, m, Len(h))
<1>1. /\ h \in Seq(Slot) /\ Len(h) \in Nat /\ m \in Nat /\ m >= 1 /\ m <= Len(h) /\ m \in Int /\ Len(h) \in Int
      /\ \A i \in 1..Len(h) : h[i] \in Slot
  BY HistoryShape DEF IsHistory
<1>2. \A i \in m..Len(h) : h[i] \in Slot
  BY <1>1
<1>3. /\ g \in Seq(Slot) /\ Len(g) = Len(h) - m + 1
      /\ \A i \in 1..(Len(h) - m + 1) : g[i] = h[m + i - 1]
  BY <1>1, <1>2, SubSeqProperties
<1>4. \A i \in 1..Len(g) : m + i - 1 \in 1..Len(h) /\ g[i] = h[m + i - 1]
  BY <1>1, <1>3
<1>5. g[1] = h[m] /\ 1 \in 1..Len(g)
  <2>1. 1 \in 1..Len(g) /\ m + 1 - 1 = m
    BY <1>1, <1>3
  <2> QED
    BY <1>4, <2>1
<1>6. ASSUME NEW i \in 1..Len(g), Populated(g[i]) PROVE g[i].seq = Wrap(g[1].seq + (i - 1))
  <2>1. g[i].seq = Wrap(h[1].seq + ((m + i - 1) - 1)) /\ g[1].seq = Wrap(h[1].seq + (m - 1))
    BY <1>4, <1>5, <1>6 DEF IsHistory
  <2>2. h[1].seq \in Int
    <3>1. h # <<>>
      BY <1>1, EmptySeq
    <3> QED
      BY <3>1, HistoryShape, SlotEntry, ModAssumption DEF SeqNums
  <2> DEFINE f == h[1].seq
             a == f + (m - 1)
             k == i - 1
  <2>3. a \in Int /\ k \in Int /\ a + k = f + ((m + i - 1) - 1)
    <3>1. f \in Int /\ i \in Int /\ m \in Int
      BY <1>1, <1>3, <2>2
    <3> HIDE DEF f
    <3> QED
      BY <3>1
  <2>4. Wrap(Wrap(a) + k) = Wrap(a + k)
    BY <2>3, WrapShift
  <2> QED
    BY <2>1, <2>3, <2>4
<1>7. ASSUME NEW i \in 1..Len(g), NEW j \in 1..Len(g), Populated(g[i]), Populated(g[j]), i < j
      PROVE g[i].order < g[j].order
  <2>1. m + i - 1 < m + j - 1
    BY <1>1, <1>3, <1>7
  <2> QED
    BY <1>4, <1>7, <2>1 DEF IsHistory
<1>8. Len(g) <= Mod \div 2
  BY <1>1, <1>3, HalfRange DEF IsHistory
<1>9. g = Rest(h, m)
  BY DEF Rest
<1> HIDE DEF g
<1>10. IsHistory(g)
  BY <1>3, <1>4, <1>5, <1>6, <1>7, <1>8 DEF IsHistory
<1> QED
  BY <1>3, <1>4, <1>9, <1>10

\* Nothing is stored in an empty history.
LEMMA EmptyHistory == IsHistory(<<>>) /\ Packets(<<>>) = {} /\ Orders(<<>>) = {}
<1>1. <<>> \in Seq(Slot) /\ Len(<<>>) = 0 /\ DOMAIN <<>> = 1..0
  BY EmptySeq, LenProperties
<1>2. Mod \div 2 \in Int /\ Mod \div 2 >= 1
  BY HalfRange
<1>3. \A i : i \notin 1..0
  OBVIOUS
<1> QED
  BY <1>1, <1>2, <1>3 DEF IsHistory, Packets, Orders

\* Culling drops entries from the front, none of which CullOldPackets keeps.
LEMMA CullRight ==
  ASSUME NEW h, IsHistory(h), NEW rtt
  PROVE /\ IsHistory(CullOldPackets(h, rtt)) /\ Packets(CullOldPackets(h, rtt)) \subseteq Packets(h)
        /\ h = <<>> => CullOldPackets(h, rtt) = <<>>
        /\ \A i \in 1..Len(h) : Populated(h[i]) => h[i] \in Packets(CullOldPackets(h, rtt)) \/ ~Keeps(h, i, rtt)
<1> DEFINE g == CullOldPackets(h, rtt)
<1> DEFINE keeps == {i \in DOMAIN h : Keeps(h, i, rtt)}
<1>1. Len(h) \in Nat /\ DOMAIN h = 1..Len(h)
  BY HistoryShape
<1>2. CASE keeps = {}
  <2>1. g = <<>>
    BY <1>2 DEF CullOldPackets
  <2> HIDE DEF g
  <2> QED
    BY <1>1, <1>2, <2>1, EmptyHistory DEF g
<1>3. CASE keeps # {}
  <2>1. keeps \in SUBSET Nat
    BY <1>1
  <2>2. \E m \in keeps : \A y \in keeps : m <= y
    BY <1>3, <2>1, FirstNumber
  <2> DEFINE m == Min(keeps)
  <2>3. m \in keeps /\ \A y \in keeps : m <= y
    BY <2>2 DEF Min
  <2>4. g = Rest(h, m)
    BY <1>3 DEF CullOldPackets, Rest
  <2> HIDE DEF g
  <2>5. m \in 1..Len(h) /\ Populated(h[m])
    BY <1>1, <2>3 DEF Keeps
  <2> HIDE DEF m
  <2>6. /\ IsHistory(g) /\ Len(g) = Len(h) - m + 1
        /\ \A i \in 1..Len(g) : g[i] = h[m + i - 1]
    BY <2>4, <2>5, RestOfHistory
  <2>7. Packets(g) \subseteq Packets(h)
    <3> SUFFICES ASSUME NEW e \in Packets(g) PROVE e \in Packets(h)
      OBVIOUS
    <3>1. PICK i \in 1..Len(g) : e = g[i] /\ Populated(g[i])
      BY <2>6, PacketPlace
    <3>2. m + i - 1 \in 1..Len(h) /\ e = h[m + i - 1] /\ Populated(h[m + i - 1])
      BY <1>1, <2>5, <2>6, <3>1
    <3> QED
      BY <3>2, PacketPlace
  <2>8. ASSUME NEW i \in 1..Len(h), Populated(h[i]), Keeps(h, i, rtt) PROVE h[i] \in Packets(g)
    <3>1. m <= i
      BY <1>1, <2>3, <2>8
    <3>2. i - m + 1 \in 1..Len(g) /\ m + (i - m + 1) - 1 = i
      BY <1>1, <2>5, <2>6, <3>1
    <3>3. g[i - m + 1] = h[i]
      BY <2>6, <3>2
    <3> QED
      BY <2>6, <2>8, <3>2, <3>3, PacketPlace
  <2>9. h # <<>>
    BY <2>5, EmptySeq
  <2> QED
    BY <2>6, <2>7, <2>8, <2>9 DEF g
<1> QED
  BY <1>2, <1>3

\* A number ahead of all that is stored.
Ahead(S, seq) == \A x \in S : ForwardDiff(x.seq, seq) \in 1..(Mod \div 2 - 1)

\* The index of such a number is behind every packet.
LEMMA IndexOfNew ==
  ASSUME NEW h, IsHistory(h), NEW seq \in SeqNums, Ahead(Packets(h), seq)
  PROVE /\ GetPacketIndex(h, seq) \in Nat /\ GetPacketIndex(h, seq) < Mod \div 2
        /\ h = <<>> => GetPacketIndex(h, seq) = 0
        /\ \A i \in 1..Len(h) : Populated(h[i]) => i - 1 < GetPacketIndex(h, seq)
        /\ h # <<>> => seq = Wrap(h[1].seq + GetPacketIndex(h, seq))
<1>0. Mod \div 2 \in Int /\ 2 * (Mod \div 2) = Mod /\ Mod \div 2 >= 1 /\ Mod \in Int
  BY HalfRange
<1>1. CASE h = <<>>
  <2>1. GetPacketIndex(h, seq) = 0 /\ Len(h) = 0
    BY <1>1, EmptySeq DEF GetPacketIndex
  <2> QED
    BY <1>0, <1>1, <2>1
<1>2. CASE h # <<>>
  <2> DEFINE first == h[1].seq
             f == ForwardDiff(first, seq)
  <2>1. 1 \in 1..Len(h) /\ Populated(h[1]) /\ Len(h) \in Nat /\ Len(h) <= Mod \div 2 /\ first \in SeqNums
    BY <1>2, HistoryShape, SlotEntry
  <2>2. h[1] \in Packets(h)
    BY <2>1, PacketPlace
  <2>3. f \in 1..(Mod \div 2 - 1)
    BY <2>2 DEF Ahead
  <2>4. first \in Int /\ 0 <= first /\ first < Mod /\ seq \in Int /\ 0 <= seq /\ seq < Mod
    BY <2>1, ModAssumption DEF SeqNums
  <2>5. first + f = seq \/ first + f = seq + Mod
    BY <1>0, <2>4 DEF ForwardDiff
  <2>6. seq = Wrap(first + f)
    <3>1. first + f \in Int
      BY <1>0, <2>3, <2>4
    <3>2. CASE first + f = seq
      BY <2>4, <3>2, WrapOnce
    <3>3. CASE first + f = seq + Mod
      <4>1. Mod <= first + f /\ first + f < 2 * Mod /\ (first + f) - Mod = seq
        BY <1>0, <2>4, <3>3
      <4> QED
        BY <3>1, <4>1, WrapOnce
    <3> QED
      BY <2>5, <3>2, <3>3
  <2>7. AheadOf(seq, first)
    <3>1. Wrap(first) = first
      BY <2>4, WrapOnce
    <3> DEFINE a == first + f
    <3>2. a \in Int /\ a - first < Mod \div 2 /\ first - a < Mod \div 2 /\ first < a
      BY <1>0, <2>3, <2>4
    <3>3. seq = Wrap(a)
      BY <2>6
    <3> HIDE DEF a
    <3> QED
      BY <2>4, <3>1, <3>2, <3>3, AheadRight
  <2>8. GetPacketIndex(h, seq) = f
    BY <1>2, <2>7 DEF GetPacketIndex
  <2>9. ASSUME NEW i \in 1..Len(h), Populated(h[i]) PROVE i - 1 < f
    <3> DEFINE s == h[i].seq
               k == ForwardDiff(s, seq)
               a == first + f
               b == first + (i - 1) + k
    <3>1. h[i] \in Packets(h)
      BY <2>9, PacketPlace
    <3>2. k \in 1..(Mod \div 2 - 1)
      BY <3>1 DEF Ahead
    <3>3. s = Wrap(first + (i - 1)) /\ s \in SeqNums
      BY <2>9, <3>1, PacketEntry DEF IsHistory
    <3>4. s \in Int /\ 0 <= s /\ s < Mod
      BY <3>3, ModAssumption DEF SeqNums
    <3>5. s + k = seq \/ s + k = seq + Mod
      <4> HIDE DEF s
      <4>1. k = IF s <= seq THEN seq - s ELSE Mod - (s - seq)
        BY DEF ForwardDiff
      <4> HIDE DEF k
      <4> QED
        BY <1>0, <2>4, <3>4, <4>1
    <3> HIDE DEF k, s, f, first
    <3>6. Wrap(s + k) = seq
      <4>1. s + k \in Int
        BY <1>0, <3>2, <3>4
      <4>2. CASE s + k = seq
        BY <2>4, <4>2, WrapOnce
      <4>3. CASE s + k = seq + Mod
        <5>1. Mod <= s + k /\ s + k < 2 * Mod /\ (s + k) - Mod = seq
          BY <1>0, <2>4, <4>3
        <5> QED
          BY <4>1, <5>1, WrapOnce
      <4> QED
        BY <3>5, <4>2, <4>3
    <3>7. i \in Int /\ 1 <= i /\ i <= Len(h)
      BY <2>1
    <3>8. Wrap(b) = seq
      <4> DEFINE c == first + (i - 1)
      <4>1. c \in Int /\ k \in Int
        BY <1>0, <2>4, <3>2, <3>7
      <4>2. s = Wrap(c)
        BY <3>3
      <4>3. b = c + k
        OBVIOUS
      <4> HIDE DEF c, b
      <4> QED
        BY <3>6, <4>1, <4>2, <4>3, WrapShift
    <3>9. a \in Int /\ b \in Int /\ a - b < Mod /\ b - a < Mod
      BY <1>0, <2>1, <2>3, <2>4, <3>2, <3>7
    <3>10. a = b
      <4>1. Wrap(a) = Wrap(b)
        BY <2>6, <3>8
      <4> HIDE DEF a, b
      <4> QED
        BY <3>9, <4>1, WrapInjective
    <3> QED
      BY <1>0, <2>3, <2>4, <3>2, <3>7, <3>10
  <2>10. f \in Nat /\ f < Mod \div 2
    BY <1>0, <2>3
  <2> HIDE DEF f
  <2> QED
    BY <1>2, <2>6, <2>8, <2>9, <2>10
<1> QED
  BY <1>1, <1>2

\* A packet stored at its index.
Stow(h, e) == PutAt(h, GetPacketIndex(h, e.seq), e)

\* A new packet behind the others: it replaces none.
LEMMA PutNew ==
  ASSUME NEW h, IsHistory(h), NEW e \in Entry, Ahead(Packets(h), e.seq),
         \A x \in Packets(h) : x.order < e.order
  PROVE /\ ~Holds(h, GetPacketIndex(h, e.seq))
        /\ IsHistory(Stow(h, e)) /\ Packets(Stow(h, e)) = Packets(h) \cup {e}
<1> DEFINE n == GetPacketIndex(h, e.seq)
           at == n + 1
           grown == h \o Holes(Max({0, at - Len(h)}))
           g == [grown EXCEPT ![at] = e]
<1>1. /\ h \in Seq(Slot) /\ Len(h) \in Nat /\ Len(h) <= Mod \div 2
      /\ e \in Slot /\ Populated(e) /\ e.seq \in SeqNums /\ e.order \in Nat
  BY HistoryShape, SlotEntry DEF IsHistory, Slot
<1>2. /\ n \in Nat /\ n < Mod \div 2 /\ (h = <<>> => n = 0)
      /\ \A i \in 1..Len(h) : Populated(h[i]) => i - 1 < n
      /\ h # <<>> => e.seq = Wrap(h[1].seq + n)
  BY <1>1, IndexOfNew
<1>3. Stow(h, e) = g
  <2>1. ~(n < 0)
    BY <1>2
  <2> QED
    BY <2>1 DEF Stow, PutAt
<1> HIDE DEF n
<1>4. ~Holds(h, n)
  BY <1>1, <1>2 DEF Holds
<1> DEFINE more == Max({0, at - Len(h)})
<1>5. more \in Nat /\ Len(h) + more >= at /\ (more = 0 \/ Len(h) + more = at)
  <2>1. more \in {0, at - Len(h)} /\ more >= 0 /\ more >= at - Len(h)
    <3> DEFINE b == at - Len(h)
    <3>1. b \in Int
      BY <1>1, <1>2
    <3> HIDE DEF b
    <3>2. \E x \in {0, b} : \A y \in {0, b} : x >= y
      <4>1. CASE b >= 0
        BY <3>1, <4>1
      <4>2. CASE ~(b >= 0)
        BY <3>1, <4>2
      <4> QED
        BY <4>1, <4>2
    <3>3. Max({0, b}) \in {0, b} /\ \A y \in {0, b} : Max({0, b}) >= y
      BY <3>2 DEF Max
    <3> QED
      BY <3>3 DEF b
  <2> HIDE DEF more
  <2> QED
    BY <1>1, <1>2, <2>1
<1> HIDE DEF more
<1>6. /\ Holes(more) \in Seq(Slot) /\ Len(Holes(more)) = more
      /\ \A i \in 1..more : Holes(more)[i] = Hole
  <2>1. Hole \in Slot
    BY DEF Slot
  <2> QED
    BY <1>5, <2>1 DEF Holes
<1>7. /\ grown \in Seq(Slot) /\ Len(grown) = Len(h) + more
      /\ \A i \in 1..(Len(h) + more) : grown[i] = IF i <= Len(h) THEN h[i] ELSE Hole
  <2> DEFINE t == Holes(more)
  <2>1. grown = h \o t
    BY DEF more
  <2> HIDE DEF t, grown
  <2>2. t \in Seq(Slot) /\ Len(t) = more /\ \A i \in 1..more : t[i] = Hole
    BY <1>6 DEF t
  <2>3. /\ grown \in Seq(Slot) /\ Len(grown) = Len(h) + more
        /\ \A i \in 1..(Len(h) + more) : grown[i] = IF i <= Len(h) THEN h[i] ELSE t[i - Len(h)]
    BY <1>1, <2>1, <2>2, ConcatProperties
  <2>4. \A i \in 1..(Len(h) + more) : ~(i <= Len(h)) => i - Len(h) \in 1..more
    BY <1>1, <1>5
  <2> QED
    BY <2>2, <2>3, <2>4
<1>8. at \in 1..Len(grown)
  BY <1>1, <1>2, <1>5, <1>7
<1> HIDE DEF grown
<1>9. /\ g \in Seq(Slot) /\ Len(g) = Len(h) + more
      /\ \A i \in 1..(Len(h) + more) : g[i] = IF i = at THEN e ELSE grown[i]
  BY <1>1, <1>7, <1>8, ExceptSeq
<1> HIDE DEF g
<1>10. \A i \in 1..Len(h) : Populated(h[i]) => i < at
  BY <1>1, <1>2
<1>11. \A i \in 1..Len(g) : Populated(g[i]) => i = at \/ (i < at /\ i \in 1..Len(h) /\ g[i] = h[i])
  <2> SUFFICES ASSUME NEW i \in 1..Len(g), Populated(g[i]), i # at
               PROVE i < at /\ i \in 1..Len(h) /\ g[i] = h[i]
    OBVIOUS
  <2>1. g[i] = grown[i] /\ grown[i] = IF i <= Len(h) THEN h[i] ELSE Hole
    BY <1>7, <1>9
  <2>2. i <= Len(h)
    BY <2>1 DEF Populated
  <2>3. i \in 1..Len(h)
    BY <1>1, <1>5, <1>9, <2>2
  <2> QED
    BY <1>10, <2>1, <2>2, <2>3
<1>12. at \in 1..Len(g) /\ g[at] = e /\ \A i \in 1..Len(h) : Populated(h[i]) => i \in 1..Len(g) /\ g[i] = h[i]
  <2>1. at \in 1..Len(g) /\ g[at] = e
    BY <1>7, <1>8, <1>9
  <2>2. ASSUME NEW i \in 1..Len(h), Populated(h[i]) PROVE i \in 1..Len(g) /\ g[i] = h[i]
    <3>1. i < at /\ i \in 1..(Len(h) + more) /\ i <= Len(h)
      BY <1>1, <1>5, <1>10, <2>2
    <3> QED
      BY <1>7, <1>9, <3>1
  <2> QED
    BY <2>1, <2>2
<1>13. IsHistory(g)
  <2>1. Len(g) <= Mod \div 2
    BY <1>1, <1>2, <1>5, <1>9, HalfRange
  <2>2. Populated(g[1]) /\ 1 \in 1..Len(g) /\ (h # <<>> => g[1].seq = h[1].seq)
    <3>1. CASE h = <<>>
      <4>1. at = 1
        BY <1>2, <3>1
      <4> QED
        BY <1>1, <1>12, <3>1, <4>1
    <3>2. CASE h # <<>>
      BY <1>12, <3>2, HistoryShape
    <3> QED
      BY <3>1, <3>2
  <2>3. ASSUME NEW i \in 1..Len(g), Populated(g[i]) PROVE g[i].seq = Wrap(g[1].seq + (i - 1))
    <3>1. CASE i = at
      <4>1. CASE h = <<>>
        <5>1. at = 1 /\ i - 1 = 0 /\ g[1] = e
          BY <1>2, <1>12, <3>1, <4>1
        <5>2. Wrap(e.seq) = e.seq /\ e.seq + 0 = e.seq
          BY <1>1, WrapOnce, ModAssumption DEF SeqNums
        <5> QED
          BY <3>1, <5>1, <5>2
      <4>2. CASE h # <<>>
        <5>1. i - 1 = n
          BY <1>2, <3>1
        <5> QED
          BY <1>2, <1>12, <2>2, <3>1, <4>2, <5>1
      <4> QED
        BY <4>1, <4>2
    <3>2. CASE i # at
      <4>1. i \in 1..Len(h) /\ g[i] = h[i]
        BY <1>11, <2>3, <3>2
      <4>2. h # <<>>
        BY <1>1, <4>1, EmptySeq
      <4> QED
        BY <2>2, <2>3, <4>1, <4>2 DEF IsHistory
    <3> QED
      BY <3>1, <3>2
  <2>4. ASSUME NEW i \in 1..Len(g), NEW j \in 1..Len(g), Populated(g[i]), Populated(g[j]), i < j
        PROVE g[i].order < g[j].order
    <3>1. i # at
      <4>1. ~(j < at) => j = at
        BY <1>11, <2>4
      <4> QED
        BY <1>2, <1>9, <2>4, <4>1
    <3>2. i \in 1..Len(h) /\ g[i] = h[i] /\ Populated(h[i])
      BY <1>11, <2>4, <3>1
    <3>3. CASE j = at
      <4>1. h[i] \in Packets(h)
        BY <3>2, PacketPlace
      <4> QED
        BY <1>12, <3>2, <3>3, <4>1
    <3>4. CASE j # at
      <4>1. j \in 1..Len(h) /\ g[j] = h[j] /\ Populated(h[j])
        BY <1>11, <2>4, <3>4
      <4> QED
        BY <2>4, <3>2, <4>1 DEF IsHistory
    <3> QED
      BY <3>3, <3>4
  <2> QED
    BY <1>9, <2>1, <2>2, <2>3, <2>4 DEF IsHistory
<1>14. Packets(g) = Packets(h) \cup {e}
  <2>1. ASSUME NEW x \in Packets(g) PROVE x \in Packets(h) \cup {e}
    <3>1. PICK i \in 1..Len(g) : x = g[i] /\ Populated(g[i])
      BY <1>13, PacketPlace
    <3> QED
      BY <1>11, <1>12, <3>1, PacketPlace
  <2>2. ASSUME NEW x \in Packets(h) PROVE x \in Packets(g)
    <3>1. PICK i \in 1..Len(h) : x = h[i] /\ Populated(h[i])
      BY PacketPlace
    <3> QED
      BY <1>12, <1>13, <3>1, PacketPlace
  <2>3. e \in Packets(g)
    BY <1>1, <1>12, <1>13, PacketPlace
  <2> QED
    BY <2>1, <2>2, <2>3
<1> QED
  BY <1>3, <1>4, <1>13, <1>14 DEF n

-----------------------------------------------------------------------------
(* Padding *)

\* The orders are those of the packets, and tell them apart.
LEMMA OrdersOfPackets ==
  ASSUME NEW h, IsHistory(h)
  PROVE /\ Orders(h) = {e.order : e \in Packets(h)} /\ Orders(h) \subseteq Nat
        /\ \A e, x \in Packets(h) : e.order = x.order => e = x
<1>1. Len(h) \in Nat /\ DOMAIN h = 1..Len(h)
  BY HistoryShape
<1>2. Orders(h) = {e.order : e \in Packets(h)}
  BY DEF Orders, Packets
<1>3. Orders(h) \subseteq Nat
  BY <1>2, PacketEntry
<1>4. ASSUME NEW e \in Packets(h), NEW x \in Packets(h), e.order = x.order PROVE e = x
  <2>1. PICK i \in 1..Len(h) : e = h[i] /\ Populated(h[i])
    BY PacketPlace
  <2>2. PICK j \in 1..Len(h) : x = h[j] /\ Populated(h[j])
    BY PacketPlace
  <2>3. e.order \in Nat /\ x.order \in Nat
    BY PacketEntry
  <2>4. ~(i < j) /\ ~(j < i)
    <3>1. i < j => e.order < x.order
      BY <2>1, <2>2 DEF IsHistory
    <3>2. j < i => x.order < e.order
      BY <2>1, <2>2 DEF IsHistory
    <3> QED
      BY <1>4, <2>3, <3>1, <3>2
  <2> QED
    BY <1>1, <2>1, <2>2, <2>4
<1> QED
  BY <1>2, <1>3, <1>4

LEMMA EntryOfOrder ==
  ASSUME NEW h, IsHistory(h), NEW o \in Orders(h)
  PROVE EntryOf(h, o) \in Packets(h) /\ EntryOf(h, o).order = o
<1> DEFINE k == CHOOSE i \in DOMAIN h : Populated(h[i]) /\ h[i].order = o
<1>1. \E i \in DOMAIN h : Populated(h[i]) /\ h[i].order = o
  BY DEF Orders
<1>2. k \in DOMAIN h /\ Populated(h[k]) /\ h[k].order = o
  BY <1>1
<1> QED
  BY <1>2 DEF EntryOf, Packets

\* Something that is not empty has a first element by two numbers.
LEMMA FirstOfTwo ==
  ASSUME NEW P, P # {}, NEW A \in [P -> Nat], NEW B \in [P -> Nat]
  PROVE \E o \in P : \A q \in P : A[o] < A[q] \/ (A[o] = A[q] /\ B[o] <= B[q])
<1> DEFINE S == {A[q] : q \in P}
<1>1. S \in SUBSET Nat /\ S # {}
  OBVIOUS
<1>2. PICK m \in S : \A y \in S : m <= y
  BY <1>1, FirstNumber
<1> DEFINE T == {B[q] : q \in {p \in P : A[p] = m}}
<1>3. T \in SUBSET Nat /\ T # {}
  BY <1>2
<1>4. PICK l \in T : \A y \in T : l <= y
  BY <1>3, FirstNumber
<1>5. PICK o \in P : A[o] = m /\ B[o] = l
  BY <1>4
<1>6. ASSUME NEW q \in P PROVE A[o] < A[q] \/ (A[o] = A[q] /\ B[o] <= B[q])
  <2>1. A[q] \in S /\ A[q] \in Nat /\ A[o] \in Nat
    OBVIOUS
  <2>2. A[o] <= A[q]
    BY <1>2, <1>5, <2>1
  <2>3. A[o] = A[q] => B[q] \in T
    BY <1>5
  <2> QED
    BY <1>4, <1>5, <2>1, <2>2, <2>3
<1> QED
  BY <1>5, <1>6

LEMMA BestAndWorst ==
  ASSUME NEW h, IsHistory(h), NEW N \in Nat, NEW T, NEW S \in Nat, Aged(Packets(h), N, T, S),
         NEW P, P # {}, P \subseteq Orders(h)
  PROVE Best(h, P) \in P /\ Worst(h, P) \in P
<1> DEFINE r(o) == EntryOf(h, o).num_retransmitted
<1>1. \A o \in P : /\ r(o) \in Nat /\ r(o) <= S /\ o \in Nat /\ o < N /\ EntryOf(h, o).order = o
  <2> SUFFICES ASSUME NEW o \in P
               PROVE r(o) \in Nat /\ r(o) <= S /\ o \in Nat /\ o < N /\ EntryOf(h, o).order = o
    OBVIOUS
  <2>1. EntryOf(h, o) \in Packets(h) /\ EntryOf(h, o).order = o
    BY EntryOfOrder
  <2> QED
    BY <2>1, PacketEntry DEF Aged
<1>2. \E o \in P : \A q \in P \ {o} : Before(EntryOf(h, o), EntryOf(h, q))
  <2> DEFINE A == [o \in P |-> r(o)]
             B == [o \in P |-> N - o]
  <2>1. A \in [P -> Nat] /\ B \in [P -> Nat]
    BY <1>1
  <2>2. PICK o \in P : \A q \in P : A[o] < A[q] \/ (A[o] = A[q] /\ B[o] <= B[q])
    <3> HIDE DEF A, B
    <3> QED
      BY <2>1, FirstOfTwo
  <2>3. ASSUME NEW q \in P \ {o} PROVE Before(EntryOf(h, o), EntryOf(h, q))
    <3>1. r(o) < r(q) \/ (r(o) = r(q) /\ N - o <= N - q)
      BY <2>2
    <3>2. o \in Nat /\ q \in Nat /\ o # q /\ EntryOf(h, o).order = o /\ EntryOf(h, q).order = q
      BY <1>1
    <3>3. N - o <= N - q => o > q
      BY <3>2
    <3> QED
      BY <3>1, <3>2, <3>3 DEF Before
  <2> QED
    BY <2>3
<1>3. \E o \in P : \A q \in P \ {o} : Before(EntryOf(h, q), EntryOf(h, o))
  <2> DEFINE A == [o \in P |-> S - r(o)]
             B == [o \in P |-> o]
  <2>1. A \in [P -> Nat] /\ B \in [P -> Nat]
    <3>1. \A o \in P : S - r(o) \in Nat
      <4> HIDE DEF r
      <4> QED
        BY <1>1
    <3> QED
      BY <1>1, <3>1
  <2>2. PICK o \in P : \A q \in P : A[o] < A[q] \/ (A[o] = A[q] /\ B[o] <= B[q])
    <3> HIDE DEF A, B
    <3> QED
      BY <2>1, FirstOfTwo
  <2>3. ASSUME NEW q \in P \ {o} PROVE Before(EntryOf(h, q), EntryOf(h, o))
    <3>1. S - r(o) < S - r(q) \/ (S - r(o) = S - r(q) /\ o <= q)
      BY <2>2
    <3>2. /\ o \in Nat /\ q \in Nat /\ o # q /\ EntryOf(h, o).order = o /\ EntryOf(h, q).order = q
          /\ r(o) \in Nat /\ r(q) \in Nat
      BY <1>1
    <3>3. r(q) < r(o) \/ (r(q) = r(o) /\ q > o)
      <4> HIDE DEF r
      <4> QED
        BY <3>1, <3>2
    <3> QED
      BY <3>2, <3>3 DEF Before
  <2> QED
    BY <2>3
<1> QED
  BY <1>2, <1>3 DEF Best, Worst

\* What is left of the priorities when packets go.
LEMMA PriorityKept ==
  ASSUME NEW h, NEW g, NEW P, Prioritized(P, h)
  PROVE Prioritized(PriorityAfter(P, g), g)
<1> DEFINE Q == PriorityAfter(P, g)
<1>1. Q \subseteq P /\ Q \subseteq Orders(g) /\ IsFiniteSet(P)
  BY DEF PriorityAfter, Prioritized
<1>2. IsFiniteSet(Q) /\ Cardinality(Q) <= Cardinality(P) /\ Cardinality(Q) \in Nat /\ Cardinality(P) \in Nat
  BY <1>1, FS_Subset, FS_CardinalityType
<1>3. kMaxPaddingtHistory \in Nat /\ Cardinality(P) < kMaxPaddingtHistory
  BY HistoryConstants DEF Prioritized
<1> HIDE DEF Q
<1>4. Cardinality(Q) < kMaxPaddingtHistory
  BY <1>2, <1>3
<1> QED
  BY <1>1, <1>2, <1>4 DEF Prioritized, Q

\* A packet more keeps the priorities bounded: the last one makes room.
LEMMA PriorityGrows ==
  ASSUME NEW h, IsHistory(h), NEW N \in Nat, NEW T, NEW S \in Nat, Aged(Packets(h), N, T, S),
         NEW P, Prioritized(P, h), NEW o \in Orders(h)
  PROVE Prioritized(PriorityWith(h, P, o), h)
<1> DEFINE k == kMaxPaddingtHistory
           R == IF Cardinality(P) >= k - 1 THEN P \ {Worst(h, P)} ELSE P
<1>1. k \in Nat /\ k >= 2
  BY HistoryConstants
<1>2. IsFiniteSet(P) /\ Cardinality(P) \in Nat /\ Cardinality(P) < k /\ P \subseteq Orders(h)
  BY FS_CardinalityType DEF Prioritized
<1>3. IsFiniteSet(R) /\ Cardinality(R) \in Nat /\ Cardinality(R) <= k - 2 /\ R \subseteq Orders(h)
  <2>1. CASE Cardinality(P) >= k - 1
    <3>1. P # {}
      BY <1>1, <1>2, <2>1, FS_EmptySet
    <3>2. Worst(h, P) \in P
      BY <1>2, <3>1, BestAndWorst
    <3>3. IsFiniteSet(P \ {Worst(h, P)}) /\ Cardinality(P \ {Worst(h, P)}) = Cardinality(P) - 1
      BY <1>2, <3>2, FS_RemoveElement
    <3>4. R = P \ {Worst(h, P)}
      BY <2>1
    <3> HIDE DEF k
    <3> QED
      BY <1>1, <1>2, <2>1, <3>1, <3>3, <3>4
  <2>2. CASE ~(Cardinality(P) >= k - 1)
    BY <1>1, <1>2, <2>2
  <2> QED
    BY <2>1, <2>2
<1>4. PriorityWith(h, P, o) = R \cup {o}
  BY DEF PriorityWith
<1> HIDE DEF R
<1>5. IsFiniteSet(R \cup {o}) /\ Cardinality(R \cup {o}) <= Cardinality(R) + 1 /\ Cardinality(R \cup {o}) \in Nat
  <2>1. IsFiniteSet(R \cup {o})
    BY <1>3, FS_AddElement
  <2>2. Cardinality(R \cup {o}) = IF o \in R THEN Cardinality(R) ELSE Cardinality(R) + 1
    BY <1>3, FS_AddElement
  <2> QED
    BY <1>3, <2>1, <2>2
<1>6. Cardinality(R \cup {o}) < k
  BY <1>1, <1>3, <1>5
<1> QED
  BY <1>3, <1>4, <1>5, <1>6 DEF Prioritized

-----------------------------------------------------------------------------
(* Packets and their retransmissions *)

\* The numbers tell the packets apart too.
LEMMA NumbersApart ==
  ASSUME NEW h, IsHistory(h), NEW e \in Packets(h), NEW x \in Packets(h), e.seq = x.seq
  PROVE e = x
<1>1. PICK i \in 1..Len(h) : e = h[i] /\ Populated(h[i])
  BY PacketPlace
<1>2. PICK j \in 1..Len(h) : x = h[j] /\ Populated(h[j])
  BY PacketPlace
<1>3. GetStoredPacket(h, e.seq) = e
  BY <1>1, IndexOfPacket
<1>4. GetStoredPacket(h, x.seq) = x
  BY <1>2, IndexOfPacket
<1> QED
  BY <1>3, <1>4

\* The packet found by its number.
LEMMA FoundPacket ==
  ASSUME NEW h, IsHistory(h), NEW seq \in SeqNums, HasPacket(h, seq)
  PROVE /\ GetStoredPacket(h, seq) \in Packets(h) /\ GetStoredPacket(h, seq).seq = seq
        /\ GetPacketIndex(h, seq) + 1 \in 1..Len(h)
        /\ h[GetPacketIndex(h, seq) + 1] = GetStoredPacket(h, seq)
        /\ Populated(h[GetPacketIndex(h, seq) + 1])
<1>1. PICK i \in 1..Len(h) : Populated(h[i]) /\ h[i].seq = seq /\ GetPacketIndex(h, seq) = i - 1
  BY HeldPacket
<1>2. (i - 1) + 1 = i
  BY HistoryShape
<1>3. GetPacketIndex(h, seq) + 1 = i
  BY <1>1, <1>2
<1> QED
  BY <1>1, <1>3, PacketPlace DEF GetStoredPacket

\* A packet that is stored is found by its number.
LEMMA StoredIsFound ==
  ASSUME NEW h, IsHistory(h), NEW e \in Packets(h)
  PROVE HasPacket(h, e.seq) /\ GetStoredPacket(h, e.seq) = e
<1>1. PICK i \in 1..Len(h) : e = h[i] /\ Populated(h[i])
  BY PacketPlace
<1> QED
  BY <1>1, IndexOfPacket

\* Fewer packets, later.
LEMMA AgreeLater ==
  ASSUME NEW S, \A e \in S : e \in Entry, NEW q, NEW N \in Nat, NEW T \in Nat, Agree(S, q, N, T),
         NEW R, R \subseteq S, NEW M \in Nat, N <= M, NEW U \in Nat, T <= U
  PROVE Agree(R, q, M, U)
<1>1. q \in Seq(Queued) /\ Len(q) \in Nat /\ \A k \in 1..Len(q) : q[k] \in Queued
  BY LenProperties, ElementOfSeq DEF Agree
<1>2. \A k \in 1..Len(q) : q[k].order \in Nat /\ q[k].rtt \in Nat
  BY <1>1 DEF Queued
<1>3. \A k \in 1..Len(q) : q[k].order < M
  BY <1>2 DEF Agree
<1>4. ASSUME NEW e \in R PROVE Matches(e, q, U)
  <2>1. Matches(e, q, T) /\ e.send_time \in Nat
    BY DEF Agree, Entry
  <2>2. \A k \in 1..Len(q) : q[k].order = e.order /\ e.num_retransmitted > 0 => U - e.send_time >= q[k].rtt
    <3> SUFFICES ASSUME NEW k \in 1..Len(q), q[k].order = e.order, e.num_retransmitted > 0
                 PROVE U - e.send_time >= q[k].rtt
      OBVIOUS
    <3>1. T - e.send_time >= q[k].rtt
      BY <2>1 DEF Matches
    <3> QED
      BY <1>2, <2>1, <3>1
  <2> QED
    BY <2>1, <2>2 DEF Matches
<1> QED
  BY <1>1, <1>3, <1>4 DEF Agree

\* A packet just sent has no retransmission.
LEMMA AgreeWithNew ==
  ASSUME NEW S, NEW q, NEW N \in Nat, NEW T, Agree(S, q, N, T), NEW e,
         e.order = N, e.pending = FALSE, \A k \in 1..Len(q) : q[k].seq # e.seq
  PROVE Agree(S \cup {e}, q, N + 1, T)
<1>1. q \in Seq(Queued) /\ \A k \in 1..Len(q) : q[k] \in Queued
  BY LenProperties, ElementOfSeq DEF Agree
<1>2. \A k \in 1..Len(q) : q[k].order \in Nat /\ q[k].order < N /\ q[k].order # e.order
  BY <1>1 DEF Queued, Agree
<1>3. \A k \in 1..Len(q) : q[k].order < N + 1
  BY <1>2
<1>4. Matches(e, q, T)
  BY <1>2 DEF Matches
<1> QED
  BY <1>1, <1>3, <1>4 DEF Agree

\* A packet marked pending with its retransmission queued.
LEMMA AgreeMarked ==
  ASSUME NEW S, NEW q, NEW N \in Nat, NEW T \in Nat, Agree(S, q, N, T),
         NEW e \in S, e \in Entry, e.pending = FALSE, e.order < N, NEW rtt \in Nat,
         e.num_retransmitted > 0 => T - e.send_time >= rtt,
         NEW f, f.order = e.order, f.seq = e.seq, f.pending = TRUE, f.send_time = e.send_time,
         f.num_retransmitted = e.num_retransmitted, NEW R,
         \A x \in R : x = f \/ (x \in S /\ x.order # e.order /\ x.seq # e.seq),
         NEW r \in Queued, r.seq = e.seq, r.order = e.order, r.rtt = rtt
  PROVE Agree(R, Append(q, r), N, T)
<1> DEFINE p == Append(q, r)
<1>1. /\ q \in Seq(Queued) /\ Len(q) \in Nat /\ e.seq \in SeqNums /\ e.order \in Nat
      /\ e.send_time \in Nat /\ e.num_retransmitted \in Nat
  BY LenProperties DEF Agree, Entry
<1>2. r \in Queued /\ r.seq = e.seq /\ r.order = e.order /\ r.rtt = rtt
  OBVIOUS
<1>3. /\ p \in Seq(Queued) /\ Len(p) = Len(q) + 1
      /\ \A k \in 1..Len(q) : p[k] = q[k]
      /\ p[Len(q) + 1] = r
  BY <1>1, <1>2, AppendProperties
<1> HIDE DEF p
<1>4. \A k \in 1..Len(p) : (k \in 1..Len(q) /\ p[k] = q[k]) \/ (k = Len(q) + 1 /\ p[k] = r)
  BY <1>1, <1>3
<1>5. \A k \in 1..Len(q) : k \in 1..Len(p) /\ p[k] = q[k]
  BY <1>1, <1>3
<1>6. Len(q) + 1 \in 1..Len(p)
  BY <1>1, <1>3
<1>7. \A k \in 1..Len(p) : p[k].order < N
  BY <1>2, <1>4 DEF Agree
<1>8. /\ f.order = e.order /\ f.seq = e.seq /\ f.pending = TRUE
      /\ f.send_time = e.send_time /\ f.num_retransmitted = e.num_retransmitted
  OBVIOUS
<1>9. Matches(e, q, T)
  BY DEF Agree
<1>10. \A k \in 1..Len(q) : q[k].order # e.order /\ q[k].seq # e.seq
  BY <1>9 DEF Matches
<1>11. Matches(f, p, T)
  <2>1. \A k \in 1..Len(p) : f.order = p[k].order <=> f.seq = p[k].seq
    BY <1>2, <1>4, <1>8, <1>10
  <2>2. \E k \in 1..Len(p) : p[k].order = f.order
    BY <1>2, <1>3, <1>6, <1>8
  <2>3. \A k \in 1..Len(p) : p[k].order = f.order => k = Len(q) + 1 /\ p[k] = r
    BY <1>4, <1>8, <1>10
  <2>4. \A k \in 1..Len(p) : p[k].order = f.order /\ f.num_retransmitted > 0 => T - f.send_time >= p[k].rtt
    BY <1>2, <1>8, <2>3
  <2> QED
    BY <1>8, <2>1, <2>2, <2>3, <2>4 DEF Matches
<1>12. ASSUME NEW x \in S, x.order # e.order, x.seq # e.seq PROVE Matches(x, p, T)
  <2>1. Matches(x, q, T)
    BY DEF Agree
  <2>2. \A k \in 1..Len(p) : x.order = p[k].order => k \in 1..Len(q) /\ p[k] = q[k]
    BY <1>2, <1>4, <1>12
  <2>3. \A k \in 1..Len(p) : x.order = p[k].order <=> x.seq = p[k].seq
    <3>1. \A k \in 1..Len(q) : x.order = q[k].order <=> x.seq = q[k].seq
      BY <2>1 DEF Matches
    <3> SUFFICES ASSUME NEW k \in 1..Len(p) PROVE x.order = p[k].order <=> x.seq = p[k].seq
      OBVIOUS
    <3>2. CASE k \in 1..Len(q) /\ p[k] = q[k]
      BY <3>1, <3>2
    <3>3. CASE p[k].order = e.order /\ p[k].seq = e.seq
      BY <1>12, <3>3
    <3> QED
      BY <1>2, <1>4, <3>2, <3>3
  <2>4. (\E k \in 1..Len(p) : p[k].order = x.order) <=> (\E k \in 1..Len(q) : q[k].order = x.order)
    BY <1>5, <2>2
  <2> QED
    BY <2>1, <2>2, <2>3, <2>4 DEF Matches
<1> QED
  BY <1>3, <1>7, <1>11, <1>12 DEF Agree, p

\* The first retransmission of the queue leaves; its packet, if it is still stored, is not
\* pending any more.
LEMMA AgreeSent ==
  ASSUME NEW S, NEW q, NEW N \in Nat, NEW T \in Nat, Agree(S, q, N, T), q # <<>>,
         NEW R,
         \A x \in R : \/ x \in S /\ x.order # Head(q).order
                      \/ \E e \in S : /\ x.order = e.order /\ x.seq = e.seq /\ x.pending = FALSE
                                      /\ e.order = Head(q).order
  PROVE Agree(R, Tail(q), N, T)
<1> DEFINE p == Tail(q)
<1>1. q \in Seq(Queued) /\ Len(q) \in Nat \ {0} /\ Head(q) = q[1] /\ 1 \in 1..Len(q)
  BY EmptySeq, LenProperties, HeadTailProperties DEF Agree
<1>2. p \in Seq(Queued) /\ Len(p) = Len(q) - 1 /\ \A k \in 1..Len(p) : p[k] = q[k + 1]
  BY <1>1, HeadTailProperties, EmptySeq
<1> HIDE DEF p
<1>3. \A k \in 1..Len(p) : k + 1 \in 1..Len(q) /\ p[k] = q[k + 1] /\ k + 1 # 1
  BY <1>1, <1>2
<1>4. \A k \in 1..Len(q) : k # 1 => k - 1 \in 1..Len(p) /\ p[k - 1] = q[k]
  <2> SUFFICES ASSUME NEW k \in 1..Len(q), k # 1 PROVE k - 1 \in 1..Len(p) /\ p[k - 1] = q[k]
    OBVIOUS
  <2>1. k - 1 \in 1..Len(p) /\ (k - 1) + 1 = k
    BY <1>1, <1>2
  <2> QED
    BY <1>3, <2>1
<1>5. \A k \in 1..Len(p) : p[k].order < N
  BY <1>3 DEF Agree
<1>6. ASSUME NEW x \in S, x.order # Head(q).order PROVE Matches(x, p, T)
  <2>1. Matches(x, q, T)
    BY DEF Agree
  <2>2. (\E k \in 1..Len(p) : p[k].order = x.order) <=> (\E k \in 1..Len(q) : q[k].order = x.order)
    <3>1. ASSUME NEW k \in 1..Len(p), p[k].order = x.order
          PROVE \E l \in 1..Len(q) : q[l].order = x.order
      <4>1. k + 1 \in 1..Len(q) /\ q[k + 1].order = x.order
        BY <1>3, <3>1
      <4> QED
        BY <4>1
    <3>2. ASSUME NEW k \in 1..Len(q), q[k].order = x.order
          PROVE \E l \in 1..Len(p) : p[l].order = x.order
      <4>1. k # 1
        BY <1>1, <1>6, <3>2
      <4>2. k - 1 \in 1..Len(p) /\ p[k - 1].order = x.order
        BY <1>4, <3>2, <4>1
      <4> QED
        BY <4>2
    <3> QED
      BY <3>1, <3>2
  <2>3. \A k, l \in 1..Len(p) : p[k].order = x.order /\ p[l].order = x.order => k = l
    <3> SUFFICES ASSUME NEW k \in 1..Len(p), NEW l \in 1..Len(p), p[k].order = x.order, p[l].order = x.order
                 PROVE k = l
      OBVIOUS
    <3>1. \A i, j \in 1..Len(q) : q[i].order = x.order /\ q[j].order = x.order => i = j
      BY <2>1 DEF Matches
    <3>2. /\ k + 1 \in 1..Len(q) /\ q[k + 1].order = x.order
          /\ l + 1 \in 1..Len(q) /\ q[l + 1].order = x.order
      BY <1>3
    <3> DEFINE i == k + 1
               j == l + 1
    <3>3. i = j
      <4> HIDE DEF i, j
      <4>1. i \in 1..Len(q) /\ q[i].order = x.order /\ j \in 1..Len(q) /\ q[j].order = x.order
        BY <3>2 DEF i, j
      <4> QED
        BY <3>1, <4>1
    <3> QED
      BY <1>1, <1>2, <3>3
  <2>4. \A k \in 1..Len(p) : x.order = p[k].order <=> x.seq = p[k].seq
    BY <1>3, <2>1 DEF Matches
  <2>5. \A k \in 1..Len(p) : p[k].order = x.order /\ x.num_retransmitted > 0 => T - x.send_time >= p[k].rtt
    BY <1>3, <2>1 DEF Matches
  <2> QED
    BY <2>1, <2>2, <2>3, <2>4, <2>5 DEF Matches
<1>7. ASSUME NEW x, NEW e \in S, x.order = e.order, x.seq = e.seq, x.pending = FALSE, e.order = Head(q).order
      PROVE Matches(x, p, T)
  <2>1. Matches(e, q, T)
    BY DEF Agree
  <2>2. \A k \in 1..Len(p) : p[k].order # x.order
    BY <1>1, <1>3, <1>7, <2>1 DEF Matches
  <2>3. \A k \in 1..Len(p) : p[k].seq # x.seq
    <3> SUFFICES ASSUME NEW k \in 1..Len(p) PROVE p[k].seq # x.seq
      OBVIOUS
    <3>1. k + 1 \in 1..Len(q) /\ p[k] = q[k + 1] /\ p[k].order # e.order
      BY <1>3, <1>7, <2>2
    <3>2. e.order = q[k + 1].order <=> e.seq = q[k + 1].seq
      BY <2>1, <3>1 DEF Matches
    <3> QED
      BY <1>7, <3>1, <3>2
  <2> QED
    BY <1>7, <2>2, <2>3 DEF Matches
<1> QED
  BY <1>2, <1>5, <1>6, <1>7 DEF Agree, p

\* A packet without a retransmission is sent once more as padding.
LEMMA AgreePadded ==
  ASSUME NEW S, NEW q, NEW N, NEW T, Agree(S, q, N, T), NEW R,
         \A x \in R : \/ x \in S
                      \/ \E e \in S : /\ x.order = e.order /\ x.seq = e.seq /\ x.pending = FALSE
                                      /\ e.pending = FALSE
  PROVE Agree(R, q, N, T)
<1>1. ASSUME NEW x, NEW e \in S, x.order = e.order, x.seq = e.seq, x.pending = FALSE, e.pending = FALSE
      PROVE Matches(x, q, T)
  <2>1. Matches(e, q, T)
    BY DEF Agree
  <2> QED
    BY <1>1, <2>1 DEF Matches
<1> QED
  BY <1>1 DEF Agree

-----------------------------------------------------------------------------
(* OnReceivedNack *)

\* The state of the loop that resends: the packets are those of h, and agree with the queue.
Resending(st, h) ==
    /\ st = [x \in {"h", "queue", "stop", "rtt"} |-> st[x]]
    /\ IsHistory(st.h) /\ Orders(st.h) = Orders(h) /\ st.rtt \in Nat
    /\ Aged(Packets(st.h), packets_inserted, now, sends)
    /\ Agree(Packets(st.h), st.queue, packets_inserted, now)

LEMMA ResendKeeps ==
  ASSUME Counters, NEW h, NEW st, Resending(st, h), NEW seq \in SeqNums, NEW fails
  PROVE Resending(Resend(st, seq, fails), h)
<1>1. CASE st.stop \/ ~MayMarkPending(st.h, seq, st.rtt)
  BY <1>1 DEF Resend
<1>2. CASE ~(st.stop \/ ~MayMarkPending(st.h, seq, st.rtt)) /\ seq \in fails
  <2> DEFINE t == [st EXCEPT !.stop = TRUE]
  <2>1. Resend(st, seq, fails) = t
    BY <1>2 DEF Resend
  <2>2. t = [x \in {"h", "queue", "stop", "rtt"} |-> t[x]]
    BY DEF Resending
  <2>3. t.h = st.h /\ t.queue = st.queue /\ t.rtt = st.rtt
    BY DEF Resending
  <2> HIDE DEF t
  <2>4. Resending(t, h)
    BY <2>2, <2>3 DEF Resending
  <2> QED
    BY <2>1, <2>4
<1>3. CASE ~(st.stop \/ ~MayMarkPending(st.h, seq, st.rtt)) /\ ~(seq \in fails)
  <2> DEFINE i == GetPacketIndex(st.h, seq) + 1
             e == GetStoredPacket(st.h, seq)
             f == [e EXCEPT !.pending = TRUE]
             g == WithPending(st.h, seq, TRUE)
             r == [seq |-> seq, order |-> e.order, rtt |-> st.rtt]
             t == [st EXCEPT !.h = g, !.queue = Append(@, r)]
  <2>1. HasPacket(st.h, seq) /\ e.pending # TRUE /\ CanBeTransmitted(e, st.rtt)
    BY <1>3 DEF MayMarkPending
  <2>2. IsHistory(st.h) /\ st.rtt \in Nat
    BY DEF Resending
  <2>3. e \in Packets(st.h) /\ e.seq = seq /\ i \in 1..Len(st.h) /\ st.h[i] = e /\ Populated(st.h[i])
    BY <2>1, <2>2, FoundPacket
  <2>4. Resend(st, seq, fails) = t
    BY <1>3 DEF Resend
  <2>5. e \in Entry /\ e.pending = FALSE
    BY <2>1, <2>2, <2>3, PacketEntry
  <2>6. e.send_time \in Nat /\ e.num_retransmitted \in Nat /\ e.order \in Nat /\ e.seq \in SeqNums
    BY <2>5 DEF Entry
  <2>7. e.num_retransmitted > 0 => now - e.send_time >= st.rtt
    <3>1. e.send_time # Never
      BY <2>6 DEF Never
    <3>2. ~(e.num_retransmitted > 0 /\ now - e.send_time < st.rtt)
      BY <2>1, <3>1 DEF CanBeTransmitted
    <3> QED
      BY <2>2, <2>6, <3>2 DEF Counters
  <2>8. /\ f \in Entry /\ f.order = e.order /\ f.seq = e.seq /\ f.send_time = e.send_time
        /\ f.num_retransmitted = e.num_retransmitted /\ f.pending = TRUE
    BY <2>5 DEF Entry
  <2>9. g = Exchange(st.h, i, f)
    BY <2>3 DEF WithPending, Exchange
  <2> HIDE DEF g, f, e, i
  <2>10. /\ IsHistory(g) /\ Orders(g) = Orders(st.h)
         /\ \A x \in Packets(g) : x = f \/ (x \in Packets(st.h) /\ x.order # f.order)
    BY <2>2, <2>3, <2>8, <2>9, ChangeOne
  <2>11. Aged(Packets(g), packets_inserted, now, sends)
    BY <2>3, <2>8, <2>10 DEF Aged, Resending
  <2>12. Agree(Packets(g), Append(st.queue, r), packets_inserted, now)
    <3>1. Agree(Packets(st.h), st.queue, packets_inserted, now) /\ packets_inserted \in Nat /\ now \in Nat
      BY DEF Resending, Counters
    <3>2. e.order < packets_inserted
      BY <2>3 DEF Resending, Aged
    <3>3. \A x \in Packets(g) : x = f \/ (x \in Packets(st.h) /\ x.order # e.order /\ x.seq # e.seq)
      BY <2>2, <2>3, <2>8, <2>10, NumbersApart
    <3>4. r \in Queued /\ r.seq = e.seq /\ r.order = e.order /\ r.rtt = st.rtt
      BY <2>2, <2>3, <2>6 DEF Queued
    <3> HIDE DEF r
    <3> DEFINE S == Packets(st.h)
               q == st.queue
               R == Packets(g)
               k == st.rtt
    <3>6. Agree(S, q, packets_inserted, now) /\ e \in S /\ k \in Nat /\ e \in Entry /\ e.pending = FALSE
      BY <2>2, <2>3, <2>5, <3>1
    <3>7. e.num_retransmitted > 0 => now - e.send_time >= k
      BY <2>7
    <3>8. r \in Queued /\ r.seq = e.seq /\ r.order = e.order /\ r.rtt = k
      BY <3>4
    <3>9. \A x \in R : x = f \/ (x \in S /\ x.order # e.order /\ x.seq # e.seq)
      BY <3>3
    <3> HIDE DEF S, q, R, k
    <3>10. Agree(R, Append(q, r), packets_inserted, now)
      BY <2>8, <3>1, <3>2, <3>6, <3>7, <3>8, <3>9, AgreeMarked
    <3> QED
      BY <3>10 DEF R, q
  <2> HIDE DEF r
  <2>13. t.h = g /\ t.queue = Append(st.queue, r) /\ t.rtt = st.rtt
    BY DEF Resending
  <2>14. Resending(t, h)
    <3>1. t = [x \in {"h", "queue", "stop", "rtt"} |-> t[x]]
      BY DEF Resending
    <3> HIDE DEF t
    <3> QED
      BY <2>10, <2>11, <2>12, <2>13, <3>1 DEF Resending
  <2> QED
    BY <2>4, <2>14
<1> QED
  BY <1>1, <1>2, <1>3

\* The loop over the first n numbers of a list, as the function OnReceivedNack defines.
IsLoop(f, start, list, fails, n) ==
    f = [i \in 0..n |-> IF i = 0 THEN start ELSE Resend(f[i - 1], list[i], fails)]

LEMMA LoopExists ==
  ASSUME NEW start, NEW list, NEW fails, NEW n \in Nat
  PROVE \E f : IsLoop(f, start, list, fails, n)
<1> DEFINE S == {m \in Nat : ~(\E f : IsLoop(f, start, list, fails, m))}
<1> SUFFICES ASSUME S # {} PROVE FALSE
  OBVIOUS
<1>1. PICK m \in S : \A y \in S : m <= y
  BY FirstNumber
<1>2. m # 0
  <2> DEFINE f == [k \in 0..0 |-> start]
  <2>1. IsLoop(f, start, list, fails, 0)
    BY DEF IsLoop
  <2> QED
    BY <1>1, <2>1
<1>3. m - 1 \in Nat /\ ~(m <= m - 1)
  BY <1>1, <1>2
<1>4. PICK v : IsLoop(v, start, list, fails, m - 1)
  BY <1>1, <1>3
<1> DEFINE f == [k \in 0..m |-> IF k = m THEN Resend(v[m - 1], list[m], fails) ELSE v[k]]
<1>5. v = [k \in 0..m - 1 |-> IF k = 0 THEN start ELSE Resend(v[k - 1], list[k], fails)]
  BY <1>4 DEF IsLoop
<1>6. \A k \in 0..m : f[k] = IF k = 0 THEN start ELSE Resend(f[k - 1], list[k], fails)
  <2> SUFFICES ASSUME NEW k \in 0..m PROVE f[k] = IF k = 0 THEN start ELSE Resend(f[k - 1], list[k], fails)
    OBVIOUS
  <2>1. CASE k = 0
    BY <1>2, <1>3, <1>5, <2>1
  <2>2. CASE k # 0
    <3>1. k - 1 \in 0..m /\ k - 1 # m
      BY <1>1, <2>2
    <3>2. f[k - 1] = v[k - 1]
      BY <3>1
    <3>3. CASE k = m
      BY <2>2, <3>2, <3>3
    <3>4. CASE k # m
      <4>1. k \in 0..m - 1
        BY <1>1, <3>4
      <4>2. v[k] = Resend(v[k - 1], list[k], fails)
        BY <1>5, <2>2, <4>1
      <4> QED
        BY <2>2, <3>2, <3>4, <4>2
    <3> QED
      BY <3>3, <3>4
  <2> QED
    BY <2>1, <2>2
<1>7. DOMAIN f = 0..m /\ f = [k \in 0..m |-> f[k]]
  OBVIOUS
<1> HIDE DEF f
<1>8. IsLoop(f, start, list, fails, m)
  BY <1>6, <1>7 DEF IsLoop
<1> QED
  BY <1>1, <1>8

LEMMA LoopKeeps ==
  ASSUME Counters, NEW h, NEW start, Resending(start, h), NEW fails, NEW n \in Nat,
         NEW list, \A i \in 1..n : list[i] \in SeqNums, NEW f, IsLoop(f, start, list, fails, n)
  PROVE Resending(f[n], h)
<1> DEFINE S == {m \in Nat : m <= n /\ ~Resending(f[m], h)}
<1> SUFFICES ASSUME S # {} PROVE FALSE
  OBVIOUS
<1>1. PICK m \in S : \A y \in S : m <= y
  BY FirstNumber
<1>2. m \in 0..n /\ ~Resending(f[m], h)
  BY <1>1
<1>3. f[m] = IF m = 0 THEN start ELSE Resend(f[m - 1], list[m], fails)
  BY <1>2 DEF IsLoop
<1>4. m # 0
  BY <1>2, <1>3
<1>5. m - 1 \in Nat /\ ~(m <= m - 1) /\ m - 1 <= n /\ m \in 1..n
  BY <1>2, <1>4
<1>6. Resending(f[m - 1], h)
  BY <1>1, <1>5
<1>7. Resending(Resend(f[m - 1], list[m], fails), h)
  BY <1>5, <1>6, ResendKeeps
<1> QED
  BY <1>2, <1>3, <1>4, <1>7

-----------------------------------------------------------------------------
(* The steps *)

LEMMA StoredPackets == Stored = Packets(packet_history)
  BY DEF Stored, Packets

\* A packet sent once more.
LEMMA SentOnceMore ==
  ASSUME Counters, NEW h, IsHistory(h), NEW e \in Packets(h), NEW g, g = Retransmitted(h, e.seq, FALSE)
  PROVE /\ IsHistory(g) /\ Orders(g) = Orders(h)
        /\ \A x \in Packets(g) :
              \/ x \in Packets(h) /\ x.order # e.order
              \/ /\ x.order = e.order /\ x.seq = e.seq /\ x.pending = FALSE
                 /\ x.send_time = now /\ x.num_retransmitted = e.num_retransmitted + 1
<1> DEFINE i == GetPacketIndex(h, e.seq) + 1
           f == [e EXCEPT !.send_time = now, !.pending = FALSE, !.num_retransmitted = @ + 1]
<1>1. e \in Entry /\ e.seq \in SeqNums /\ HasPacket(h, e.seq) /\ GetStoredPacket(h, e.seq) = e
  BY PacketEntry, StoredIsFound
<1>2. i \in 1..Len(h) /\ h[i] = e /\ Populated(h[i])
  BY <1>1, FoundPacket
<1>3. /\ f \in Entry /\ f.order = e.order /\ f.seq = e.seq /\ f.pending = FALSE
      /\ f.send_time = now /\ f.num_retransmitted = e.num_retransmitted + 1
  <2> DEFINE n == e.num_retransmitted + 1
  <2>1. n \in Nat /\ now \in Nat
    BY <1>1 DEF Entry, Counters
  <2>2. f = [e EXCEPT !.send_time = now, !.pending = FALSE, !.num_retransmitted = n]
    OBVIOUS
  <2> HIDE DEF n, f
  <2>3. f = [order |-> e.order, seq |-> e.seq, send_time |-> now, pending |-> FALSE, num_retransmitted |-> n]
    BY <1>1, <2>2 DEF Entry
  <2>4. e.order \in Nat /\ e.seq \in SeqNums
    BY <1>1 DEF Entry
  <2> QED
    BY <2>1, <2>3, <2>4 DEF Entry, n
<1>4. g = Exchange(h, i, f)
  BY <1>1 DEF Retransmitted, Exchange
<1> HIDE DEF f, i
<1>5. /\ IsHistory(g) /\ Orders(g) = Orders(h)
      /\ \A x \in Packets(g) : x = f \/ (x \in Packets(h) /\ x.order # f.order)
  <2>1. f \in Entry /\ f.order = h[i].order /\ f.seq = h[i].seq /\ i \in 1..Len(h) /\ Populated(h[i])
    BY <1>2, <1>3
  <2> DEFINE c == Exchange(h, i, f)
  <2>2. /\ IsHistory(c) /\ Orders(c) = Orders(h)
        /\ \A x \in Packets(c) : x = f \/ (x \in Packets(h) /\ x.order # f.order)
    BY <2>1, ChangeOne
  <2> HIDE DEF c
  <2>3. g = c
    BY <1>4 DEF c
  <2> QED
    BY <2>2, <2>3
<1> QED
  BY <1>3, <1>5

\* Nothing is stored at first.
LEMMA HistoryInit == Init => HistoryInv
<1> SUFFICES ASSUME Init PROVE HistoryInv
  OBVIOUS
<1>1. Counters
  <2>1. media_seq_num \in SeqNums
    BY HistoryConstants DEF Init
  <2>2. rtt_ms \in Int
    BY DEF Init
  <2>3. storing \in BOOLEAN
    BY DEF Init
  <2>4. packets_inserted \in Nat /\ now \in Nat /\ sends \in Nat
    BY DEF Init
  <2> QED
    BY <2>1, <2>2, <2>3, <2>4 DEF Counters
<1>2. IsHistory(packet_history) /\ Packets(packet_history) = {} /\ Orders(packet_history) = {}
  BY EmptyHistory DEF Init
<1>3. Prioritized(padding_priority, packet_history)
  <2>1. IsFiniteSet({}) /\ Cardinality({}) = 0
    BY FS_EmptySet
  <2>2. padding_priority = {} /\ 0 < kMaxPaddingtHistory
    BY HistoryConstants DEF Init
  <2> QED
    BY <2>1, <2>2 DEF Prioritized
<1>4. Agree(Packets(packet_history), pacer, packets_inserted, now)
  <2>1. pacer = <<>> /\ Len(pacer) = 0 /\ pacer \in Seq(Queued)
    BY EmptySeq DEF Init
  <2> QED
    BY <1>2, <2>1 DEF Agree
<1>5. RetransmissionsSpaced
  BY DEF Init, RetransmissionsSpaced, NothingSent
<1> QED
  BY <1>1, <1>2, <1>3, <1>4, <1>5 DEF HistoryInv, Aged, Init

\* Media: the packet goes behind those that culling leaves.
LEMMA MediaStored ==
  ASSUME HistoryInv, NumbersFresh, SendMedia
  PROVE \E e \in Entry :
           /\ e.order = packets_inserted /\ e.seq = media_seq_num /\ e.send_time = now
           /\ e.pending = FALSE /\ e.num_retransmitted = 0
           /\ IsHistory(packet_history')
           /\ Packets(packet_history') = Packets(CullOldPackets(packet_history, rtt_ms)) \cup {e}
           /\ LET P == PriorityAfter(padding_priority, CullOldPackets(packet_history, rtt_ms))
              IN padding_priority' = IF enable_padding_prio
                                     THEN PriorityWith(packet_history', P, packets_inserted) ELSE P
           /\ packets_inserted' = packets_inserted + 1
<1> DEFINE h == packet_history
           culled == CullOldPackets(h, rtt_ms)
           seq == media_seq_num
           e == [order |-> packets_inserted, seq |-> seq, send_time |-> now,
                 pending |-> now = Never, num_retransmitted |-> 0]
           P == PriorityAfter(padding_priority, culled)
           g == Stow(culled, e)
<1>1. Counters /\ IsHistory(h) /\ Aged(Packets(h), packets_inserted, now, sends)
  BY DEF HistoryInv
<1>2. packets_inserted \in Nat /\ now \in Nat /\ sends \in Nat /\ seq \in SeqNums
  BY <1>1 DEF Counters
<1>3. IsHistory(culled) /\ Packets(culled) \subseteq Packets(h)
  <2> HIDE DEF h
  <2> QED
    BY <1>1, CullRight
<1>4. (now = Never) = FALSE
  BY <1>2 DEF Never
<1>5. /\ e \in Entry /\ e.order = packets_inserted /\ e.seq = seq /\ e.send_time = now
      /\ e.pending = FALSE /\ e.num_retransmitted = 0
  BY <1>2, <1>4 DEF Entry
<1>6. Ahead(Packets(culled), seq)
  BY <1>3, StoredPackets DEF NumbersFresh, Ahead
<1>7. \A x \in Packets(culled) : x.order < packets_inserted
  BY <1>1, <1>3 DEF Aged
<1> HIDE DEF culled
<1>8. /\ ~Holds(culled, GetPacketIndex(culled, seq))
      /\ IsHistory(g) /\ Packets(g) = Packets(culled) \cup {e}
  <2> HIDE DEF e
  <2> QED
    BY <1>3, <1>5, <1>6, <1>7, PutNew
<1>9. /\ packet_history' = g
      /\ padding_priority' = IF enable_padding_prio THEN PriorityWith(g, P, packets_inserted) ELSE P
      /\ packets_inserted' = packets_inserted + 1
  <2>1. GetPacketIndex(culled, seq) = GetPacketIndex(culled, e.seq)
    BY <1>5
  <2>2. packet_history' = PutAt(culled, GetPacketIndex(culled, seq), e)
    BY <1>8 DEF SendMedia, Put, culled
  <2>3. packet_history' = g
    BY <2>1, <2>2 DEF Stow
  <2>4. packets_inserted' = packets_inserted + 1
    BY DEF SendMedia, Put
  <2>5. padding_priority' = IF enable_padding_prio THEN PriorityWith(packet_history', P, packets_inserted) ELSE P
    BY <1>8 DEF SendMedia, Put, culled
  <2> QED
    BY <2>3, <2>4, <2>5
<1> HIDE DEF g, e
<1> QED
  BY <1>5, <1>8, <1>9 DEF culled

LEMMA HistorySendMedia == HistoryInv /\ NumbersFresh /\ SendMedia => HistoryInv'
<1> SUFFICES ASSUME HistoryInv, NumbersFresh, SendMedia PROVE HistoryInv'
  OBVIOUS
<1> DEFINE h == packet_history
           culled == CullOldPackets(h, rtt_ms)
           seq == media_seq_num
           P == PriorityAfter(padding_priority, culled)
           g == packet_history'
<1>1. Counters /\ IsHistory(h) /\ Aged(Packets(h), packets_inserted, now, sends)
  BY DEF HistoryInv
<1>2. packets_inserted \in Nat /\ now \in Nat /\ sends \in Nat /\ seq \in SeqNums
  BY <1>1 DEF Counters
<1>3. IsHistory(culled) /\ Packets(culled) \subseteq Packets(h)
  BY <1>1, CullRight
<1>4. PICK e \in Entry :
         /\ e.order = packets_inserted /\ e.seq = seq /\ e.send_time = now
         /\ e.pending = FALSE /\ e.num_retransmitted = 0
         /\ IsHistory(g) /\ Packets(g) = Packets(culled) \cup {e}
         /\ padding_priority' = IF enable_padding_prio THEN PriorityWith(g, P, packets_inserted) ELSE P
         /\ packets_inserted' = packets_inserted + 1
  BY MediaStored
<1>5. /\ e \in Entry /\ e.order = packets_inserted /\ e.seq = seq /\ e.send_time = now
      /\ e.pending = FALSE /\ e.num_retransmitted = 0
  BY <1>4
<1>8. IsHistory(g) /\ Packets(g) = Packets(culled) \cup {e}
  BY <1>4
<1>9. /\ padding_priority' = IF enable_padding_prio THEN PriorityWith(g, P, packets_inserted) ELSE P
      /\ packets_inserted' = packets_inserted + 1
  BY <1>4
<1> HIDE DEF g, P, culled
<1>10. /\ media_seq_num' = Wrap(seq + 1)
       /\ storing' = storing /\ storing = TRUE /\ rtt_ms' = rtt_ms /\ pacer' = pacer
       /\ now' = now /\ sends' = sends /\ sent' = sent
  <2>1. storing = TRUE
    BY <1>1 DEF SendMedia, Counters
  <2> QED
    BY <2>1 DEF SendMedia, settings
<1>11. Counters'
  <2>1. seq + 1 \in Int
    BY <1>2, ModAssumption DEF SeqNums
  <2>2. media_seq_num' \in SeqNums
    BY <1>10, <2>1, WrapType
  <2>3. rtt_ms \in Int /\ storing \in BOOLEAN
    BY <1>1 DEF Counters
  <2> QED
    BY <1>2, <1>9, <1>10, <2>2, <2>3 DEF Counters
<1>12. Aged(Packets(g), packets_inserted + 1, now, sends)
  <2> SUFFICES ASSUME NEW x \in Packets(g)
               PROVE x.order < packets_inserted + 1 /\ x.send_time <= now /\ x.num_retransmitted <= sends
    BY DEF Aged
  <2>1. CASE x = e
    BY <1>2, <1>5, <2>1
  <2>2. CASE x # e
    <3>1. x \in Packets(h)
      BY <1>3, <1>8, <2>2
    <3>2. x.order \in Nat /\ x.order < packets_inserted /\ x.send_time <= now /\ x.num_retransmitted <= sends
      BY <1>1, <3>1, PacketEntry DEF Aged
    <3> QED
      BY <1>2, <3>2
  <2> QED
    BY <2>1, <2>2
<1>13. Prioritized(padding_priority', g)
  <2>1. Prioritized(P, culled)
    BY PriorityKept DEF HistoryInv, P
  <2>2. Orders(culled) \subseteq Orders(g) /\ packets_inserted \in Orders(g)
    BY <1>3, <1>5, <1>8, OrdersOfPackets
  <2>3. Prioritized(P, g)
    BY <2>1, <2>2 DEF Prioritized
  <2>4. packets_inserted + 1 \in Nat
    BY <1>2
  <2>5. Prioritized(PriorityWith(g, P, packets_inserted), g)
    BY <1>2, <1>8, <1>12, <2>2, <2>3, <2>4, PriorityGrows
  <2> QED
    BY <1>9, <2>3, <2>5
<1>14. Agree(Packets(g), pacer, packets_inserted + 1, now)
  <2>1. Agree(Packets(culled), pacer, packets_inserted, now)
    <3>1. \A x \in Packets(h) : x \in Entry
      BY <1>1, PacketEntry
    <3>2. Agree(Packets(h), pacer, packets_inserted, now)
      BY DEF HistoryInv
    <3>3. packets_inserted <= packets_inserted /\ now <= now
      BY <1>2
    <3> QED
      BY <1>2, <1>3, <3>1, <3>2, <3>3, AgreeLater
  <2>2. \A k \in 1..Len(pacer) : pacer[k].seq # e.seq
    <3>1. pacer \in Seq(Queued)
      BY DEF HistoryInv, Agree
    <3>2. DOMAIN pacer = 1..Len(pacer)
      BY <3>1, LenProperties
    <3> QED
      BY <1>5, <3>2 DEF NumbersFresh
  <2>3. Agree(Packets(culled) \cup {e}, pacer, packets_inserted + 1, now)
    <3> DEFINE S == Packets(culled)
    <3> HIDE DEF S
    <3>1. Agree(S, pacer, packets_inserted, now)
      BY <2>1 DEF S
    <3>2. Agree(S \cup {e}, pacer, packets_inserted + 1, now)
      BY <1>2, <1>5, <2>2, <3>1, AgreeWithNew
    <3> QED
      BY <3>2 DEF S
  <2> QED
    BY <1>8, <2>3
<1>15. RetransmissionsSpaced'
  BY <1>10 DEF HistoryInv, RetransmissionsSpaced
<1> QED
  BY <1>8, <1>9, <1>10, <1>11, <1>12, <1>13, <1>14, <1>15 DEF HistoryInv, g

\* A NACK: what culling leaves agrees with the pacer, and the loop keeps it so.
LEMMA NackResends ==
  ASSUME HistoryInv, NEW rtt \in Nat, NEW nack_list, Len(nack_list) \in Nat,
         \A i \in 1..Len(nack_list) : nack_list[i] \in SeqNums, NEW fails,
         OnReceivedNack(nack_list, rtt, fails)
  PROVE /\ IsHistory(packet_history') /\ Orders(packet_history') = Orders(CullOldPackets(packet_history, rtt))
        /\ Aged(Packets(packet_history'), packets_inserted, now, sends)
        /\ Agree(Packets(packet_history'), pacer', packets_inserted, now)
<1> DEFINE culled == CullOldPackets(packet_history, rtt)
           start == [h |-> culled, queue |-> pacer, stop |-> FALSE, rtt |-> rtt]
           n == Len(nack_list)
           loop == CHOOSE f : IsLoop(f, start, nack_list, fails, n)
<1>1. IsHistory(packet_history) /\ Counters /\ packets_inserted \in Nat /\ now \in Nat
  BY DEF HistoryInv, Counters
<1>2. IsHistory(culled) /\ Packets(culled) \subseteq Packets(packet_history)
  BY <1>1, CullRight
<1>3. packet_history' = loop[n].h /\ pacer' = loop[n].queue
  BY DEF OnReceivedNack, IsLoop
<1>4. Resending(start, culled)
  <2> HIDE DEF culled
  <2>1. start = [x \in {"h", "queue", "stop", "rtt"} |-> start[x]]
    OBVIOUS
  <2>2. start.h = culled /\ start.queue = pacer /\ start.rtt = rtt
    OBVIOUS
  <2> HIDE DEF start
  <2>3. Aged(Packets(culled), packets_inserted, now, sends)
    BY <1>2 DEF HistoryInv, Aged
  <2>4. Agree(Packets(culled), pacer, packets_inserted, now)
    <3>1. \A x \in Packets(packet_history) : x \in Entry
      BY <1>1, PacketEntry
    <3>2. Agree(Packets(packet_history), pacer, packets_inserted, now)
      BY DEF HistoryInv
    <3>3. packets_inserted <= packets_inserted /\ now <= now
      BY <1>1
    <3> QED
      BY <1>1, <1>2, <3>1, <3>2, <3>3, AgreeLater
  <2> QED
    BY <1>2, <2>1, <2>2, <2>3, <2>4 DEF Resending
<1> HIDE DEF start, culled
<1>5. IsLoop(loop, start, nack_list, fails, n)
  BY LoopExists
<1> HIDE DEF loop
<1>6. Resending(loop[n], culled)
  BY <1>1, <1>4, <1>5, LoopKeeps
<1> QED
  BY <1>3, <1>6 DEF Resending, culled

LEMMA HistoryNack ==
  ASSUME HistoryInv, NEW rtt \in Nat, NEW nack_list, Len(nack_list) \in Nat,
         \A i \in 1..Len(nack_list) : nack_list[i] \in SeqNums, NEW fails,
         OnReceivedNack(nack_list, rtt, fails)
  PROVE HistoryInv'
<1> DEFINE culled == CullOldPackets(packet_history, rtt)
<1>1. /\ IsHistory(packet_history') /\ Orders(packet_history') = Orders(culled)
      /\ Aged(Packets(packet_history'), packets_inserted, now, sends)
      /\ Agree(Packets(packet_history'), pacer', packets_inserted, now)
  BY NackResends
<1>2. /\ rtt_ms' = rtt /\ padding_priority' = PriorityAfter(padding_priority, culled)
      /\ storing' = storing /\ packets_inserted' = packets_inserted /\ media_seq_num' = media_seq_num
      /\ now' = now /\ sends' = sends /\ sent' = sent
  BY DEF OnReceivedNack, settings
<1>3. storing = TRUE
  BY DEF OnReceivedNack, HistoryInv, Counters
<1>4. Counters'
  <2>1. Counters /\ rtt \in Int
    BY DEF HistoryInv
  <2> QED
    BY <1>2, <2>1 DEF Counters
<1> HIDE DEF culled
<1>5. Prioritized(padding_priority', packet_history')
  <2>1. Prioritized(PriorityAfter(padding_priority, culled), culled)
    BY PriorityKept DEF HistoryInv
  <2> QED
    BY <1>1, <1>2, <2>1 DEF Prioritized
<1>6. RetransmissionsSpaced'
  BY <1>2 DEF HistoryInv, RetransmissionsSpaced
<1> QED
  BY <1>1, <1>2, <1>3, <1>4, <1>5, <1>6 DEF HistoryInv

\* A retransmission leaves: the packet with its number, if any, is the one it was made of.
LEMMA HistorySendRetransmission == HistoryInv /\ SendRetransmission => HistoryInv'
<1> SUFFICES ASSUME HistoryInv, SendRetransmission PROVE HistoryInv'
  OBVIOUS
<1> DEFINE h == packet_history
           r == Head(pacer)
<1>1. /\ Counters /\ IsHistory(h) /\ Aged(Packets(h), packets_inserted, now, sends)
      /\ Agree(Packets(h), pacer, packets_inserted, now)
  BY DEF HistoryInv
<1>2. packets_inserted \in Nat /\ now \in Nat /\ sends \in Nat
  BY <1>1 DEF Counters
<1>3. /\ pacer # <<>> /\ pacer' = Tail(pacer) /\ sends' = sends + 1
      /\ padding_priority' = padding_priority /\ storing' = storing /\ rtt_ms' = rtt_ms
      /\ packets_inserted' = packets_inserted /\ media_seq_num' = media_seq_num /\ now' = now
  BY DEF SendRetransmission, settings
<1>4. Counters'
  BY <1>1, <1>2, <1>3 DEF Counters
<1>5. pacer \in Seq(Queued) /\ 1 \in 1..Len(pacer) /\ r = pacer[1] /\ r \in Queued
  <2>1. pacer \in Seq(Queued)
    BY <1>1 DEF Agree
  <2>2. Len(pacer) \in Nat \ {0}
    BY <1>3, <2>1, EmptySeq, LenProperties
  <2>3. r = pacer[1] /\ r \in Queued
    BY <1>3, <2>1, HeadTailProperties
  <2> QED
    BY <2>1, <2>2, <2>3
<1>6. r.seq \in SeqNums /\ r.order \in Nat /\ r.rtt \in Nat
  BY <1>5 DEF Queued
<1>7. \A x \in Packets(h) : x.order = r.order <=> x.seq = r.seq
  BY <1>1, <1>5 DEF Agree, Matches
<1>8. CASE storing /\ HasPacket(h, r.seq) /\ GetStoredPacket(h, r.seq).send_time # Never
  <2> DEFINE e == GetStoredPacket(h, r.seq)
             g == Retransmitted(h, e.seq, FALSE)
  <2>1. e \in Packets(h) /\ e.seq = r.seq
    BY <1>1, <1>6, <1>8, FoundPacket
  <2>2. e.order = r.order
    BY <1>7, <2>1
  <2>3. packet_history' = g /\ sent' = Following(h, r)
    BY <1>8, <2>1 DEF SendRetransmission, MarkSent
  <2>4. sent'.rtt = r.rtt /\ sent'.again = (e.num_retransmitted > 0) /\ sent'.gap = now - e.send_time
    BY <2>3 DEF Following
  <2> HIDE DEF e, r, h
  <2>5. /\ IsHistory(g) /\ Orders(g) = Orders(h)
        /\ \A x \in Packets(g) :
              \/ x \in Packets(h) /\ x.order # e.order
              \/ /\ x.order = e.order /\ x.seq = e.seq /\ x.pending = FALSE
                 /\ x.send_time = now /\ x.num_retransmitted = e.num_retransmitted + 1
    BY <1>1, <2>1, SentOnceMore
  <2> HIDE DEF g
  <2>6. Aged(Packets(g), packets_inserted, now, sends + 1)
    <3> SUFFICES ASSUME NEW x \in Packets(g)
                 PROVE x.order < packets_inserted /\ x.send_time <= now /\ x.num_retransmitted <= sends + 1
      BY DEF Aged
    <3>1. CASE x \in Packets(h)
      <4>1. x.order < packets_inserted /\ x.send_time <= now /\ x.num_retransmitted <= sends
        BY <1>1, <3>1 DEF Aged
      <4>2. x.num_retransmitted \in Nat
        BY <1>1, <3>1, PacketEntry
      <4> QED
        BY <1>2, <4>1, <4>2
    <3>2. CASE x \notin Packets(h)
      <4>1. x.order = e.order /\ x.send_time = now /\ x.num_retransmitted = e.num_retransmitted + 1
        BY <2>5, <3>2
      <4>2. e.order < packets_inserted /\ e.num_retransmitted <= sends
        BY <1>1, <2>1 DEF Aged
      <4>3. e.num_retransmitted \in Nat
        BY <1>1, <2>1, PacketEntry
      <4> QED
        BY <1>2, <4>1, <4>2, <4>3
    <3> QED
      BY <3>1, <3>2
  <2>7. Agree(Packets(g), Tail(pacer), packets_inserted, now)
    <3> DEFINE S == Packets(h)
               R == Packets(g)
    <3>1. Agree(S, pacer, packets_inserted, now)
      BY <1>1
    <3>2. \A x \in R : \/ x \in S /\ x.order # Head(pacer).order
                       \/ \E y \in S : /\ x.order = y.order /\ x.seq = y.seq /\ x.pending = FALSE
                                       /\ y.order = Head(pacer).order
      BY <2>1, <2>2, <2>5 DEF r
    <3> HIDE DEF S, R
    <3>3. Agree(R, Tail(pacer), packets_inserted, now)
      BY <1>2, <1>3, <3>1, <3>2, AgreeSent
    <3> QED
      BY <3>3 DEF R
  <2>8. RetransmissionsSpaced'
    <3>1. e.num_retransmitted > 0 => now - e.send_time >= pacer[1].rtt
      BY <1>1, <1>5, <2>1, <2>2 DEF Agree, Matches
    <3> QED
      BY <1>5, <2>4, <3>1 DEF RetransmissionsSpaced
  <2>9. Prioritized(padding_priority', g)
    BY <1>3, <2>5 DEF HistoryInv, Prioritized, h
  <2>10. storing = TRUE
    BY <1>1, <1>8 DEF Counters
  <2> QED
    BY <1>3, <1>4, <2>3, <2>5, <2>6, <2>7, <2>8, <2>9, <2>10 DEF HistoryInv
<1>9. CASE ~(storing /\ HasPacket(h, r.seq) /\ GetStoredPacket(h, r.seq).send_time # Never)
  <2>1. packet_history' = h /\ sent' = sent
    BY <1>9 DEF SendRetransmission
  <2>2. \A x \in Packets(h) : x.order # r.order
    <3> SUFFICES ASSUME NEW x \in Packets(h), x.order = r.order PROVE FALSE
      OBVIOUS
    <3>1. HasPacket(h, r.seq) /\ GetStoredPacket(h, r.seq) = x
      BY <1>1, <1>7, StoredIsFound
    <3>2. x.send_time # Never
      BY <1>1, PacketEntry DEF Never
    <3>3. storing = TRUE
      <4>1. h # <<>>
        BY EmptyHistory
      <4> QED
        BY <1>1, <4>1 DEF HistoryInv, Counters
    <3> QED
      BY <1>9, <3>1, <3>2, <3>3
  <2>3. Agree(Packets(h), Tail(pacer), packets_inserted, now)
    <3> DEFINE S == Packets(h)
    <3>1. Agree(S, pacer, packets_inserted, now)
      BY <1>1
    <3>2. \A x \in S : x.order # Head(pacer).order
      BY <2>2
    <3> HIDE DEF S
    <3>3. Agree(S, Tail(pacer), packets_inserted, now)
      BY <1>2, <1>3, <3>1, <3>2, AgreeSent
    <3> QED
      BY <3>3 DEF S
  <2>4. Aged(Packets(h), packets_inserted, now, sends + 1)
    <3> SUFFICES ASSUME NEW x \in Packets(h)
                 PROVE x.order < packets_inserted /\ x.send_time <= now /\ x.num_retransmitted <= sends + 1
      BY DEF Aged
    <3>1. x.order < packets_inserted /\ x.send_time <= now /\ x.num_retransmitted <= sends
      BY <1>1 DEF Aged
    <3>2. x.num_retransmitted \in Nat
      BY <1>1, PacketEntry
    <3> QED
      BY <1>2, <3>1, <3>2
  <2>5. RetransmissionsSpaced'
    BY <2>1 DEF HistoryInv, RetransmissionsSpaced
  <2> QED
    BY <1>1, <1>3, <1>4, <2>1, <2>3, <2>4, <2>5 DEF HistoryInv
<1> QED
  BY <1>8, <1>9

\* What GetPayloadPaddingPacket looks at is stored.
LEMMA CandidateStored ==
  ASSUME HistoryInv, HasPaddingCandidate
  PROVE PaddingCandidate \in Packets(packet_history)
<1> DEFINE h == packet_history
<1>1. /\ IsHistory(h) /\ Aged(Packets(h), packets_inserted, now, sends)
      /\ packets_inserted \in Nat /\ sends \in Nat
  BY DEF HistoryInv, Counters
<1>2. CASE enable_padding_prio
  <2>1. padding_priority # {} /\ padding_priority \subseteq Orders(h)
    BY <1>2 DEF HasPaddingCandidate, HistoryInv, Prioritized
  <2>2. Best(h, padding_priority) \in Orders(h)
    BY <1>1, <2>1, BestAndWorst
  <2>3. EntryOf(h, Best(h, padding_priority)) \in Packets(h)
    BY <1>1, <2>2, EntryOfOrder
  <2> QED
    BY <1>2, <2>3 DEF PaddingCandidate
<1>3. CASE ~enable_padding_prio
  <2> DEFINE S == {i \in DOMAIN h : Populated(h[i])}
             D == {Len(h) - i : i \in S}
  <2>1. Len(h) \in Nat /\ DOMAIN h = 1..Len(h)
    BY <1>1, HistoryShape
  <2>2. S # {}
    BY <1>3 DEF HasPaddingCandidate, Stored
  <2>3. D \in SUBSET Nat /\ D # {}
    <3>1. \A i \in S : Len(h) - i \in Nat
      BY <2>1
    <3> QED
      BY <2>2, <3>1
  <2>4. PICK m \in D : \A y \in D : m <= y
    BY <2>3, FirstNumber
  <2>5. PICK k \in S : m = Len(h) - k
    BY <2>4
  <2>6. \A y \in S : k >= y
    <3> SUFFICES ASSUME NEW y \in S PROVE k >= y
      OBVIOUS
    <3>1. Len(h) - y \in D
      OBVIOUS
    <3>2. m <= Len(h) - y
      BY <2>4, <3>1
    <3> QED
      BY <2>1, <2>5, <3>2
  <2>7. Max(S) \in S
    BY <2>6 DEF Max
  <2>8. h[Max(S)] \in Packets(h)
    BY <2>7 DEF Packets
  <2> QED
    BY <1>3, <2>8 DEF PaddingCandidate
<1> QED
  BY <1>2, <1>3

LEMMA HistoryPadding == HistoryInv /\ GetPayloadPaddingPacket => HistoryInv'
<1> SUFFICES ASSUME HistoryInv, GetPayloadPaddingPacket PROVE HistoryInv'
  OBVIOUS
<1> DEFINE h == packet_history
           e == PaddingCandidate
           g == Retransmitted(h, e.seq, FALSE)
<1>1. /\ Counters /\ IsHistory(h) /\ Aged(Packets(h), packets_inserted, now, sends)
      /\ Agree(Packets(h), pacer, packets_inserted, now)
  BY DEF HistoryInv
<1>2. packets_inserted \in Nat /\ now \in Nat /\ sends \in Nat
  BY <1>1 DEF Counters
<1>3. /\ packet_history' = g /\ sends' = sends + 1 /\ HasPaddingCandidate /\ ~e.pending
      /\ padding_priority' = padding_priority /\ storing' = storing /\ rtt_ms' = rtt_ms
      /\ packets_inserted' = packets_inserted /\ media_seq_num' = media_seq_num
      /\ pacer' = pacer /\ now' = now /\ sent' = sent
  BY DEF GetPayloadPaddingPacket, settings
<1>4. storing = TRUE
  BY <1>1 DEF GetPayloadPaddingPacket, Counters
<1>5. e \in Packets(h)
  BY <1>3, CandidateStored
<1> HIDE DEF e, h
<1>6. e.pending = FALSE
  BY <1>1, <1>3, <1>5, PacketEntry
<1>7. /\ IsHistory(g) /\ Orders(g) = Orders(h)
      /\ \A x \in Packets(g) :
            \/ x \in Packets(h) /\ x.order # e.order
            \/ /\ x.order = e.order /\ x.seq = e.seq /\ x.pending = FALSE
               /\ x.send_time = now /\ x.num_retransmitted = e.num_retransmitted + 1
  BY <1>1, <1>5, SentOnceMore
<1> HIDE DEF g
<1>8. Aged(Packets(g), packets_inserted, now, sends + 1)
  <2> SUFFICES ASSUME NEW x \in Packets(g)
               PROVE x.order < packets_inserted /\ x.send_time <= now /\ x.num_retransmitted <= sends + 1
    BY DEF Aged
  <2>1. CASE x \in Packets(h)
    <3>1. x.order < packets_inserted /\ x.send_time <= now /\ x.num_retransmitted <= sends
      BY <1>1, <2>1 DEF Aged
    <3>2. x.num_retransmitted \in Nat
      BY <1>1, <2>1, PacketEntry
    <3> QED
      BY <1>2, <3>1, <3>2
  <2>2. CASE x \notin Packets(h)
    <3>1. x.order = e.order /\ x.send_time = now /\ x.num_retransmitted = e.num_retransmitted + 1
      BY <1>7, <2>2
    <3>2. e.order < packets_inserted /\ e.num_retransmitted <= sends
      BY <1>1, <1>5 DEF Aged
    <3>3. e.num_retransmitted \in Nat
      BY <1>1, <1>5, PacketEntry
    <3> QED
      BY <1>2, <3>1, <3>2, <3>3
  <2> QED
    BY <2>1, <2>2
<1>9. Agree(Packets(g), pacer, packets_inserted, now)
  <2> DEFINE S == Packets(h)
             R == Packets(g)
  <2>1. Agree(S, pacer, packets_inserted, now)
    BY <1>1
  <2>2. \A x \in R : \/ x \in S
                     \/ \E y \in S : /\ x.order = y.order /\ x.seq = y.seq /\ x.pending = FALSE
                                     /\ y.pending = FALSE
    BY <1>5, <1>6, <1>7
  <2> HIDE DEF S, R
  <2>3. Agree(R, pacer, packets_inserted, now)
    BY <2>1, <2>2, AgreePadded
  <2> QED
    BY <2>3 DEF R
<1>10. Prioritized(padding_priority', g)
  BY <1>3, <1>7 DEF HistoryInv, Prioritized, h
<1>11. Counters'
  BY <1>1, <1>2, <1>3 DEF Counters
<1>12. RetransmissionsSpaced'
  BY <1>3 DEF HistoryInv, RetransmissionsSpaced
<1> QED
  BY <1>3, <1>4, <1>7, <1>8, <1>9, <1>10, <1>11, <1>12 DEF HistoryInv

\* A history that is reset agrees with anything.
LEMMA HistoryReset ==
  ASSUME HistoryInv, Counters', packet_history' = <<>>, padding_priority' = {},
         pacer' = pacer, packets_inserted' = packets_inserted, sent' = sent
  PROVE HistoryInv'
<1>1. IsHistory(packet_history') /\ Packets(packet_history') = {}
  BY EmptyHistory
<1>2. Prioritized(padding_priority', packet_history')
  <2>1. IsFiniteSet({}) /\ Cardinality({}) = 0 /\ 0 < kMaxPaddingtHistory
    BY FS_EmptySet, HistoryConstants
  <2> QED
    BY <2>1 DEF Prioritized
<1>3. Agree(Packets(packet_history'), pacer', packets_inserted', now')
  BY <1>1 DEF HistoryInv, Agree
<1>4. Aged(Packets(packet_history'), packets_inserted', now', sends')
  BY <1>1 DEF Aged
<1>5. RetransmissionsSpaced'
  BY DEF HistoryInv, RetransmissionsSpaced
<1> QED
  BY <1>1, <1>2, <1>3, <1>4, <1>5 DEF HistoryInv

\* The packets stay and the counters move on.
LEMMA HistoryKept ==
  ASSUME HistoryInv, Counters', packet_history' = packet_history, padding_priority' = padding_priority,
         pacer' = pacer, packets_inserted' = packets_inserted, sent' = sent, storing' = storing,
         now <= now', sends <= sends'
  PROVE HistoryInv'
<1> DEFINE h == packet_history
<1>1. /\ Counters /\ IsHistory(h) /\ Aged(Packets(h), packets_inserted, now, sends)
      /\ Agree(Packets(h), pacer, packets_inserted, now)
  BY DEF HistoryInv
<1>2. packets_inserted \in Nat /\ now \in Nat /\ sends \in Nat /\ now' \in Nat /\ sends' \in Nat
  BY <1>1 DEF Counters
<1>3. \A x \in Packets(h) : x \in Entry /\ x.send_time \in Nat /\ x.num_retransmitted \in Nat
  BY <1>1, PacketEntry
<1>4. Aged(Packets(h), packets_inserted, now', sends')
  BY <1>1, <1>2, <1>3 DEF Aged
<1>5. Agree(Packets(h), pacer, packets_inserted, now')
  <2> DEFINE S == Packets(h)
             T == now'
  <2>1. /\ \A x \in S : x \in Entry
        /\ Agree(S, pacer, packets_inserted, now) /\ packets_inserted <= packets_inserted
        /\ S \subseteq S /\ now <= T /\ T \in Nat
    BY <1>1, <1>2, <1>3
  <2> HIDE DEF S, T
  <2>2. Agree(S, pacer, packets_inserted, T)
    BY <1>2, <2>1, AgreeLater
  <2> QED
    BY <2>2 DEF S, T
<1>6. RetransmissionsSpaced'
  BY DEF HistoryInv, RetransmissionsSpaced
<1> QED
  BY <1>1, <1>4, <1>5, <1>6 DEF HistoryInv

\* The lists a NACK may carry are lists of sequence numbers.
LEMMA NackListShape ==
  ASSUME media_seq_num \in SeqNums, NEW nack_list \in NackLists
  PROVE Len(nack_list) \in Nat /\ \A i \in 1..Len(nack_list) : nack_list[i] \in SeqNums
<1>1. Named \subseteq SeqNums
  <2> SUFFICES ASSUME NEW k \in 1..(kMaxCapacity + 1) PROVE Wrap(media_seq_num - k) \in SeqNums
    BY DEF Named
  <2>1. media_seq_num - k \in Int
    BY ModAssumption, HistoryConstants DEF SeqNums
  <2> QED
    BY <2>1, WrapType
<1>2. CASE nack_list \in {<<a>> : a \in Named}
  <2>1. PICK a \in Named : nack_list = <<a>>
    BY <1>2
  <2>2. Len(nack_list) = 1 /\ nack_list[1] = a
    BY <2>1
  <2>3. \A i \in 1..1 : i = 1
    OBVIOUS
  <2> QED
    BY <1>1, <2>2, <2>3
<1>3. CASE nack_list \in Named \X Named
  <2>1. PICK a \in Named, b \in Named : nack_list = <<a, b>>
    BY <1>3
  <2>2. Len(nack_list) = 2 /\ nack_list[1] = a /\ nack_list[2] = b
    BY <2>1
  <2>3. \A i \in 1..2 : i = 1 \/ i = 2
    OBVIOUS
  <2> QED
    BY <1>1, <2>2, <2>3
<1> QED
  BY <1>2, <1>3 DEF NackLists

\* Every step keeps the invariant while the numbers are fresh.
LEMMA HistoryNext == HistoryInv /\ NumbersFresh /\ [Next]_vars => HistoryInv'
<1> SUFFICES ASSUME HistoryInv, NumbersFresh, [Next]_vars PROVE HistoryInv'
  OBVIOUS
<1>0. Counters /\ now \in Nat /\ sends \in Nat /\ media_seq_num \in SeqNums /\ media_seq_num \in Int
  BY ModAssumption DEF HistoryInv, Counters, SeqNums
<1>1. CASE SendMedia
  BY <1>1, HistorySendMedia
<1>2. CASE SendUnstored
  <2>1. PICK n \in Gaps : media_seq_num' = Wrap(media_seq_num + n)
    BY <1>2 DEF SendUnstored
  <2>2. media_seq_num' \in SeqNums
    <3>1. media_seq_num + n \in Int
      BY <1>0, HistoryConstants
    <3> QED
      BY <2>1, <3>1, WrapType
  <2>3. /\ packet_history' = packet_history /\ padding_priority' = padding_priority /\ storing' = storing
        /\ rtt_ms' = rtt_ms /\ packets_inserted' = packets_inserted /\ pacer' = pacer /\ now' = now
        /\ sent' = sent /\ sends' = sends + 1
    BY <1>2 DEF SendUnstored, settings
  <2>4. sends <= sends' /\ now <= now'
    BY <1>0, <2>3
  <2>5. Counters'
    BY <1>0, <2>2, <2>3 DEF Counters
  <2> QED
    BY <2>3, <2>4, <2>5, HistoryKept
<1>3. CASE SendRetransmission
  BY <1>3, HistorySendRetransmission
<1>4. CASE GetPayloadPaddingPacket
  BY <1>4, HistoryPadding
<1>5. CASE \E rtt \in Rtts, nack_list \in NackLists :
             \E fails \in {{}} \cup {{nack_list[1]} : i \in 2..Len(nack_list)} : OnReceivedNack(nack_list, rtt, fails)
  <2>1. PICK rtt \in Rtts, nack_list \in NackLists : \E fails : OnReceivedNack(nack_list, rtt, fails)
    BY <1>5
  <2>2. PICK fails : OnReceivedNack(nack_list, rtt, fails)
    BY <2>1
  <2>3. rtt \in Nat
    BY HistoryConstants
  <2>4. Len(nack_list) \in Nat /\ \A i \in 1..Len(nack_list) : nack_list[i] \in SeqNums
    BY <1>0, NackListShape
  <2> QED
    BY <2>2, <2>3, <2>4, HistoryNack
<1>6. CASE \E enable \in Enables, n \in NumbersToStore : SetStorePacketsStatus(enable, n)
  <2>1. PICK enable \in Enables, n \in NumbersToStore : SetStorePacketsStatus(enable, n)
    BY <1>6
  <2>2. /\ packet_history' = <<>> /\ padding_priority' = {} /\ storing' = enable /\ rtt_ms' = rtt_ms
        /\ packets_inserted' = packets_inserted /\ media_seq_num' = media_seq_num /\ pacer' = pacer
        /\ now' = now /\ sends' = sends /\ sent' = sent
    BY <2>1 DEF SetStorePacketsStatus
  <2>3. enable \in BOOLEAN
    BY HistoryConstants
  <2>4. Counters'
    BY <1>0, <2>2, <2>3 DEF Counters
  <2> QED
    BY <2>2, <2>4, HistoryReset
<1>7. CASE SetSequenceNumberOffset
  <2>1. PICK d \in Jumps : media_seq_num' = Wrap(media_seq_num + d)
    BY <1>7 DEF SetSequenceNumberOffset
  <2>2. media_seq_num' \in SeqNums
    <3>1. media_seq_num + d \in Int
      BY <1>0, HistoryConstants
    <3> QED
      BY <2>1, <3>1, WrapType
  <2>3. /\ packet_history' = <<>> /\ padding_priority' = {} /\ storing' = storing /\ rtt_ms' = rtt_ms
        /\ packets_inserted' = packets_inserted /\ pacer' = pacer
        /\ now' = now /\ sends' = sends + 1 /\ sent' = sent
    BY <1>7 DEF SetSequenceNumberOffset, settings
  <2>4. Counters'
    BY <1>0, <2>2, <2>3 DEF Counters
  <2> QED
    BY <2>3, <2>4, HistoryReset
<1>8. CASE Tick
  <2>1. /\ packet_history' = packet_history /\ padding_priority' = padding_priority /\ storing' = storing
        /\ rtt_ms' = rtt_ms /\ packets_inserted' = packets_inserted /\ pacer' = pacer /\ now' = now + 1
        /\ media_seq_num' = media_seq_num /\ sent' = sent /\ sends' = sends
    BY <1>8 DEF Tick, settings
  <2>2. now <= now' /\ sends <= sends'
    BY <1>0, <2>1
  <2>3. Counters'
    BY <1>0, <2>1 DEF Counters
  <2> QED
    BY <2>1, <2>2, <2>3, HistoryKept
<1>9. CASE UNCHANGED vars
  <2>1. /\ packet_history' = packet_history /\ padding_priority' = padding_priority /\ storing' = storing
        /\ rtt_ms' = rtt_ms /\ packets_inserted' = packets_inserted /\ pacer' = pacer /\ now' = now
        /\ media_seq_num' = media_seq_num /\ sent' = sent /\ sends' = sends
    BY <1>9 DEF vars, settings
  <2>2. now <= now' /\ sends <= sends'
    BY <1>0, <2>1
  <2>3. Counters'
    BY <1>0, <2>1 DEF Counters
  <2> QED
    BY <2>1, <2>2, <2>3, HistoryKept
<1> QED
  BY <1>1, <1>2, <1>3, <1>4, <1>5, <1>6, <1>7, <1>8, <1>9 DEF Next

\* The invariant holds throughout, while the numbers are fresh.
LEMMA HistoryHolds == Spec /\ []NumbersFresh => []HistoryInv
  BY HistoryInit, HistoryNext, PTL DEF Spec

-----------------------------------------------------------------------------
(* The theorems *)

LEMMA HistoryInvConsistent == HistoryInv => HistoryConsistent
<1> SUFFICES ASSUME HistoryInv PROVE HistoryConsistent
  OBVIOUS
<1> DEFINE h == packet_history
<1>1. IsHistory(h)
  BY DEF HistoryInv
<1>2. Len(h) \in Nat /\ DOMAIN h = 1..Len(h)
  BY <1>1, HistoryShape
<1>3. ASSUME NEW i \in DOMAIN h, NEW j \in DOMAIN h, Populated(h[i]), Populated(h[j]), i < j
      PROVE h[i].order < h[j].order /\ h[j].seq = Wrap(h[i].seq + (j - i))
  <2>1. h[i].order < h[j].order
    BY <1>1, <1>2, <1>3 DEF IsHistory
  <2> DEFINE f == h[1].seq
             a == f + (i - 1)
             k == j - i
  <2>2. h[i].seq = Wrap(a) /\ h[j].seq = Wrap(f + (j - 1))
    BY <1>1, <1>2, <1>3 DEF IsHistory
  <2>3. f \in Int /\ i \in Int /\ j \in Int
    <3>1. h # <<>>
      BY <1>2, EmptySeq
    <3> QED
      BY <1>1, <1>2, <3>1, HistoryShape, SlotEntry, ModAssumption DEF SeqNums
  <2> HIDE DEF f
  <2>4. a \in Int /\ k \in Int /\ a + k = f + (j - 1)
    BY <2>3
  <2>5. Wrap(Wrap(a) + k) = Wrap(a + k)
    BY <2>4, WrapShift
  <2> QED
    BY <2>1, <2>2, <2>4, <2>5
<1> QED
  BY <1>3 DEF HistoryConsistent, HistoryInv, Prioritized

\* For every capacity, and every sequence of media, NACKs, retransmissions, padding and resets
\* whose numbers are not reused too early: the deque of RtpPacketHistory holds the packets at the
\* places their sequence numbers say, in the order they were stored, also across the wrap-around,
\* and padding_priority_ points to fewer than kMaxPaddingtHistory packets, all of them stored.
THEOREM HistoryStaysConsistent == Spec /\ []NumbersFresh => []HistoryConsistent
  BY HistoryHolds, HistoryInvConsistent, PTL

LEMMA HistoryInvPending == HistoryInv => PendingIffQueued
<1> SUFFICES ASSUME HistoryInv, NEW e \in Stored
             PROVE Cardinality(InPacer(e.order)) = IF e.pending THEN 1 ELSE 0
  BY DEF PendingIffQueued
<1>1. e \in Packets(packet_history) /\ e.pending \in BOOLEAN
  BY StoredPackets, PacketEntry DEF HistoryInv
<1>2. Matches(e, pacer, now) /\ DOMAIN pacer = 1..Len(pacer)
  BY <1>1, LenProperties DEF HistoryInv, Agree
<1>3. CASE e.pending = TRUE
  <2>1. PICK k \in 1..Len(pacer) : pacer[k].order = e.order
    BY <1>2, <1>3 DEF Matches
  <2>2. InPacer(e.order) = {k}
    BY <1>2, <2>1 DEF Matches, InPacer
  <2> QED
    BY <1>3, <2>2, FS_Singleton
<1>4. CASE e.pending = FALSE
  <2>1. InPacer(e.order) = {}
    BY <1>2, <1>4 DEF Matches, InPacer
  <2> QED
    BY <1>4, <2>1, FS_EmptySet
<1> QED
  BY <1>1, <1>3, <1>4

\* For the same behaviours: a stored packet is marked pending exactly while one retransmission of
\* it waits in the pacer, so GetPacketAndMarkAsPending never queues it twice and MarkPacketAsSent
\* never leaves it pending for good.
THEOREM PendingMeansQueued == Spec /\ []NumbersFresh => []PendingIffQueued
  BY HistoryHolds, HistoryInvPending, PTL

\* For the same behaviours and every round-trip time: what was retransmitted before is
\* retransmitted again only after the rtt its NACK came with. The check is made when the packet is
\* queued; until it leaves it is pending, so neither padding nor another NACK sends it meanwhile.
THEOREM SpacedRetransmissions == Spec /\ []NumbersFresh => []RetransmissionsSpaced
<1>1. HistoryInv => RetransmissionsSpaced
  BY DEF HistoryInv
<1> QED
  BY <1>1, HistoryHolds, PTL

\* What culling drops, unless the deque is full, was not pending and is old.
LEMMA CullDrops ==
  ASSUME HistoryInv, Len(packet_history) < kMaxCapacity, NEW rtt \in Int, NEW e \in Stored,
         e.order \notin Orders(CullOldPackets(packet_history, rtt))
  PROVE ~e.pending /\ now >= e.send_time + Duration(rtt)
<1> DEFINE h == packet_history
           d == Duration(rtt)
           culled == CullOldPackets(h, rtt)
<1>1. IsHistory(h) /\ now \in Nat /\ e \in Packets(h)
  BY StoredPackets DEF HistoryInv, Counters
<1>2. Len(h) \in Nat /\ e.send_time \in Nat /\ kMaxCapacity \in Int
  BY <1>1, HistoryShape, PacketEntry, HistoryConstants, HalfRange
<1>3. PICK i \in 1..Len(h) : e = h[i] /\ Populated(h[i])
  BY <1>1, PacketPlace
<1>4. e \notin Packets(culled)
  <2>1. IsHistory(culled)
    BY <1>1, CullRight
  <2> HIDE DEF culled
  <2>2. Orders(culled) = {x.order : x \in Packets(culled)}
    BY <2>1, OrdersOfPackets
  <2> QED
    BY <2>2 DEF culled
<1>5. ~Keeps(h, i, rtt)
  BY <1>1, <1>3, <1>4, CullRight
<1>6. Len(h) - i + 1 < kMaxCapacity
  BY <1>2
<1>7. d \in Int
  <2> DEFINE a == kMinPacketDurationRttFactor * rtt
             b == kMinPacketDurationMs
  <2>1. a \in Int /\ b \in Int
    BY HistoryConstants
  <2>2. d = Max({a, b})
    BY DEF Duration
  <2> HIDE DEF a, b, d
  <2>3. \E x \in {a, b} : \A y \in {a, b} : x >= y
    BY <2>1
  <2> QED
    BY <2>1, <2>2, <2>3 DEF Max
<1>8. ~h[i].pending /\ ~(h[i].send_time + d > now)
  BY <1>3, <1>5, <1>6 DEF Keeps
<1> HIDE DEF d
<1>9. ~(e.send_time + d > now) /\ ~e.pending
  BY <1>3, <1>8
<1>10. now >= e.send_time + d
  BY <1>1, <1>2, <1>7, <1>9
<1> QED
  BY <1>9, <1>10 DEF d

LEMMA StepKeepsLongEnough ==
  ASSUME HistoryInv, NumbersFresh, [Next]_vars, ~(settings' # settings), ~SetSequenceNumberOffset,
         ~(Len(packet_history) >= kMaxCapacity), NEW e \in Stored, e.order \notin Orders(packet_history')
  PROVE ~e.pending /\ now >= e.send_time + Duration(rtt_ms')
<1> DEFINE h == packet_history
<1>1. IsHistory(h) /\ rtt_ms \in Int /\ e \in Packets(h) /\ media_seq_num \in SeqNums
  BY StoredPackets DEF HistoryInv, Counters
<1>2. Len(h) < kMaxCapacity
  BY <1>1, HistoryShape, HistoryConstants, HalfRange
<1>3. e.order \in Orders(h)
  BY <1>1, OrdersOfPackets
<1>4. Orders(packet_history') # Orders(h)
  BY <1>3
<1>5. CASE SendMedia
  <2> DEFINE culled == CullOldPackets(h, rtt_ms)
             g == packet_history'
  <2>1. IsHistory(g) /\ Packets(culled) \subseteq Packets(g)
    BY <1>5, MediaStored
  <2>2. IsHistory(culled)
    BY <1>1, CullRight
  <2>3. Orders(culled) \subseteq Orders(g)
    <3> HIDE DEF culled, g
    <3> QED
      BY <2>1, <2>2, OrdersOfPackets
  <2>4. rtt_ms' = rtt_ms
    BY <1>5 DEF SendMedia
  <2> QED
    BY <1>1, <1>2, <2>3, <2>4, CullDrops
<1>6. CASE \E rtt \in Rtts, nack_list \in NackLists :
             \E fails \in {{}} \cup {{nack_list[1]} : i \in 2..Len(nack_list)} : OnReceivedNack(nack_list, rtt, fails)
  <2>1. PICK rtt \in Rtts, nack_list \in NackLists : \E fails : OnReceivedNack(nack_list, rtt, fails)
    BY <1>6
  <2>2. PICK fails : OnReceivedNack(nack_list, rtt, fails)
    BY <2>1
  <2>3. rtt \in Nat /\ rtt \in Int
    BY HistoryConstants
  <2>4. Len(nack_list) \in Nat /\ \A i \in 1..Len(nack_list) : nack_list[i] \in SeqNums
    BY <1>1, NackListShape
  <2>5. Orders(packet_history') = Orders(CullOldPackets(h, rtt))
    BY <2>2, <2>3, <2>4, NackResends
  <2>6. rtt_ms' = rtt
    BY <2>2 DEF OnReceivedNack
  <2> QED
    BY <1>2, <2>3, <2>5, <2>6, CullDrops
<1>7. CASE SendRetransmission
  <2> DEFINE r == Head(pacer)
  <2>1. CASE storing /\ HasPacket(h, r.seq) /\ GetStoredPacket(h, r.seq).send_time # Never
    <3> DEFINE x == GetStoredPacket(h, r.seq)
    <3>1. r \in Queued
      <4>1. pacer \in Seq(Queued) /\ pacer # <<>>
        BY <1>7 DEF HistoryInv, Agree, SendRetransmission
      <4> QED
        BY <4>1, HeadTailProperties
    <3>2. r.seq \in SeqNums
      BY <3>1 DEF Queued
    <3>3. x \in Packets(h) /\ x.seq = r.seq
      BY <1>1, <2>1, <3>2, FoundPacket
    <3>4. packet_history' = Retransmitted(h, x.seq, FALSE)
      BY <1>7, <2>1, <3>3 DEF SendRetransmission, MarkSent
    <3>5. Counters
      BY DEF HistoryInv
    <3> HIDE DEF x
    <3>6. Orders(Retransmitted(h, x.seq, FALSE)) = Orders(h)
      BY <1>1, <3>3, <3>5, SentOnceMore
    <3> QED
      BY <1>4, <3>4, <3>6
  <2>2. CASE ~(storing /\ HasPacket(h, r.seq) /\ GetStoredPacket(h, r.seq).send_time # Never)
    BY <1>4, <1>7, <2>2 DEF SendRetransmission
  <2> QED
    BY <2>1, <2>2
<1>8. CASE GetPayloadPaddingPacket
  <2> DEFINE x == PaddingCandidate
  <2>1. x \in Packets(h) /\ packet_history' = Retransmitted(h, x.seq, FALSE)
    BY <1>8, CandidateStored DEF GetPayloadPaddingPacket
  <2>2. Counters
    BY DEF HistoryInv
  <2> HIDE DEF x
  <2>3. Orders(Retransmitted(h, x.seq, FALSE)) = Orders(h)
    BY <1>1, <2>1, <2>2, SentOnceMore
  <2> QED
    BY <1>4, <2>1, <2>3
<1>9. CASE \E enable \in Enables, n \in NumbersToStore : SetStorePacketsStatus(enable, n)
  BY <1>9 DEF SetStorePacketsStatus, settings
<1>10. CASE SendUnstored \/ Tick \/ UNCHANGED vars
  BY <1>4, <1>10 DEF SendUnstored, Tick, vars
<1> QED
  BY <1>5, <1>6, <1>7, <1>8, <1>9, <1>10 DEF Next

\* For the same behaviours: unless the history is reset or its deque is full, a step of the sender
\* only drops packets that are not pending and were sent at least the packet duration ago, the
\* duration computed from the round-trip time just received when the step is a NACK.
THEOREM PacketsKeptLongEnough == Spec /\ []NumbersFresh => KeptLongEnough
<1> DEFINE Kept ==
       \/ settings' # settings
       \/ SetSequenceNumberOffset
       \/ Len(packet_history) >= kMaxCapacity
       \/ \A e \in Stored : e.order \notin Orders(packet_history') =>
              ~e.pending /\ now >= e.send_time + Duration(rtt_ms')
<1>1. HistoryInv /\ NumbersFresh /\ [Next]_vars => [Kept]_vars
  BY StepKeepsLongEnough
<1> QED
  BY <1>1, HistoryHolds, PTL DEF Spec, KeptLongEnough
=============================================================================

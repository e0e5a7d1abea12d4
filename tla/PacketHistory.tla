---------------------------- MODULE PacketHistory ----------------------------
(***************************************************************************)
(* RtpPacketHistory with the parts of RtpSender and RtpPacketEgresser that   *)
(* use it: media packets are stored as they are sent, a NACK marks them      *)
(* pending and puts a retransmission into the pacer, the retransmission      *)
(* marks them sent when it leaves, and stored packets serve as padding.      *)
(*                                                                          *)
(* packet_history_ is a deque whose entry i holds the packet that is i       *)
(* sequence numbers after the first one, or nothing (Hole).  A StoredPacket  *)
(* is known by its insert_order; padding_priority_ holds pointers to them.   *)
(***************************************************************************)
EXTENDS SeqNum, Sequences, SequencesExt, FiniteSetsExt

CONSTANTS
    kMaxCapacity, kMaxPaddingtHistory,
    kMinPacketDurationMs, kMinPacketDurationRttFactor, kPacketCullingDelayFactor,
    enable_padding_prio,
    NumbersToStore,      \* values of number_to_store
    Enables,             \* values of the storage mode
    FirstSeq,            \* values of media_seq_num_ to start from
    Jumps,               \* how far SetSequenceNumberOffset moves the numbers
    Gaps,                \* how many media packets in a row are sent unstored
    Rtts,                \* 5 + rtt_ms of a NACK
    MaxInserted,         \* bound: packets stored
    MaxSends,            \* bound: retransmissions, unstored packets, padding and resets
    MaxTime              \* bound: the clock

ASSUME HistoryConstants ==
    /\ kMaxCapacity \in 1..(Mod \div 2 - 1) /\ kMaxPaddingtHistory \in Nat \ {0, 1}
    /\ kMinPacketDurationMs \in Nat /\ kMinPacketDurationRttFactor \in Nat
    /\ NumbersToStore \subseteq 1..kMaxCapacity /\ Enables \subseteq BOOLEAN
    /\ FirstSeq \subseteq SeqNums /\ Jumps \subseteq Int /\ Gaps \subseteq Nat /\ Rtts \subseteq Nat

VARIABLES
    packet_history, padding_priority, number_to_store, storing, rtt_ms, packets_inserted,
    media_seq_num,     \* of RtpPacketSequencer
    pacer,             \* retransmissions in the pacer: [seq, order, rtt]
    now,
    sends,             \* counter for the bound
    sent               \* history: the last retransmission sent: [rtt, again, gap]

settings == <<storing, number_to_store>>
vars == <<packet_history, padding_priority, settings, rtt_ms, packets_inserted,
          media_seq_num, pacer, now, sends, sent>>

Never == -1
Hole == [order |-> -1]
Populated(e) == e # Hole
Stored == {packet_history[i] : i \in {j \in DOMAIN packet_history : Populated(packet_history[j])}}
NothingSent == [rtt |-> 0, again |-> FALSE, gap |-> 0]

Init ==
    /\ packet_history = <<>> /\ padding_priority = {}
    /\ storing = FALSE /\ number_to_store \in NumbersToStore
    /\ rtt_ms = -1 /\ packets_inserted = 0
    /\ media_seq_num \in FirstSeq
    /\ pacer = <<>> /\ now = 0 /\ sends = 0 /\ sent = NothingSent

-----------------------------------------------------------------------------
(* Positions *)

\* Mutant: the wrap-around is forgotten.
GetPacketIndexNoWrap(h, seq) == IF h = <<>> THEN 0 ELSE seq - h[1].seq

\* Index of a sequence number relative to the first entry, from 0; may be
\* negative or beyond the end.
GetPacketIndex(h, seq) ==
    IF h = <<>> THEN 0
    ELSE LET first == h[1].seq
         IN IF AheadOf(seq, first) THEN ForwardDiff(first, seq) ELSE -ReverseDiff(first, seq)

Holds(h, index) == index >= 0 /\ index < Len(h) /\ Populated(h[index + 1])
HasPacket(h, seq) == Holds(h, GetPacketIndex(h, seq))
GetStoredPacket(h, seq) == h[GetPacketIndex(h, seq) + 1]

\* The entries from the first populated one on.
FromFirstPopulated(h) ==
    LET populated == {i \in DOMAIN h : Populated(h[i])}
    IN IF populated = {} THEN <<>> ELSE SubSeq(h, Min(populated), Len(h))

\* RemovePacket: the entry becomes a hole; holes at the front go.
RemovePacket(h, index) ==
    LET emptied == [h EXCEPT ![index + 1] = Hole]
    IN IF index = 0 THEN FromFirstPopulated(emptied) ELSE emptied

Orders(h) == {h[i].order : i \in {j \in DOMAIN h : Populated(h[j])}}

-----------------------------------------------------------------------------
(* Culling *)

Duration(rtt) == Max({kMinPacketDurationRttFactor * rtt, kMinPacketDurationMs})

\* Mutant: the number to store is enforced on packets still being waited for.
KeepsIgnoringAge(h, i, rtt) ==
    LET size == Len(h) - i + 1
    IN /\ Populated(h[i]) /\ size < kMaxCapacity
       /\ h[i].pending \/ size < number_to_store

\* CullOldPackets stops at entry i once those before it are gone.
Keeps(h, i, rtt) ==
    LET size == Len(h) - i + 1
        duration == Duration(rtt)
    IN /\ Populated(h[i])
       /\ size < kMaxCapacity
       /\ \/ h[i].pending
          \/ h[i].send_time + duration > now
          \/ /\ size < number_to_store
             /\ h[i].send_time + duration * kPacketCullingDelayFactor > now

CullOldPackets(h, rtt) ==
    LET keeps == {i \in DOMAIN h : Keeps(h, i, rtt)}
    IN IF keeps = {} THEN <<>> ELSE SubSeq(h, Min(keeps), Len(h))

\* What is removed from the history leaves padding_priority_ too.
PriorityAfter(P, h) == P \cap Orders(h)

-----------------------------------------------------------------------------
(* Operations *)

Holes(n) == [i \in 1..n |-> Hole]

\* The entry put at its index, the deque grown at either end as needed.
PutAt(h, index, e) ==
    LET front == IF index < 0 THEN Holes(-index) \o h ELSE h
        at    == IF index < 0 THEN 1 ELSE index + 1
        grown == front \o Holes(Max({0, at - Len(front)}))
    IN [grown EXCEPT ![at] = e]

\* Compare: fewer retransmissions first, then the newer packet.
Before(a, b) ==
    \/ a.num_retransmitted < b.num_retransmitted
    \/ a.num_retransmitted = b.num_retransmitted /\ a.order > b.order

EntryOf(h, order) == h[CHOOSE i \in DOMAIN h : Populated(h[i]) /\ h[i].order = order]
Best(h, P) == CHOOSE o \in P : \A q \in P \ {o} : Before(EntryOf(h, o), EntryOf(h, q))
Worst(h, P) == CHOOSE o \in P : \A q \in P \ {o} : Before(EntryOf(h, q), EntryOf(h, o))

PriorityWith(h, P, order) ==
    (IF Cardinality(P) >= kMaxPaddingtHistory - 1 THEN P \ {Worst(h, P)} ELSE P) \cup {order}

\* PutRtpPacket
Put(seq, send_time) ==
    LET culled  == CullOldPackets(packet_history, rtt_ms)
        old     == GetPacketIndex(culled, seq)
        cleared == IF Holds(culled, old) THEN RemovePacket(culled, old) ELSE culled
        e == [order |-> packets_inserted, seq |-> seq, send_time |-> send_time,
              pending |-> send_time = Never, num_retransmitted |-> 0]
        P == PriorityAfter(padding_priority, cleared)
    IN /\ packet_history' = PutAt(cleared, GetPacketIndex(cleared, seq), e)
       /\ padding_priority' = IF enable_padding_prio THEN PriorityWith(packet_history', P, e.order) ELSE P
       /\ packets_inserted' = packets_inserted + 1

\* Media leaves through the egresser, which stores it with its send time.
SendMedia ==
    /\ storing /\ packets_inserted < MaxInserted
    /\ media_seq_num' = Wrap(media_seq_num + 1)
    /\ Put(media_seq_num, now)
    /\ UNCHANGED <<settings, rtt_ms, pacer, now, sends, sent>>

\* Padding on the media SSRC, packets that must not be retransmitted, and any
\* packet while the storage is disabled use sequence numbers without being stored.
SendUnstored ==
    /\ \E n \in Gaps : media_seq_num' = Wrap(media_seq_num + n)
    /\ sends < MaxSends /\ sends' = sends + 1
    /\ UNCHANGED <<packet_history, padding_priority, settings, rtt_ms, packets_inserted, pacer, now, sent>>

\* Mutant: a packet is resent however recently it was.
CanBeTransmittedAlways(e, rtt) == TRUE
CanBeTransmitted(e, rtt) ==
    ~(e.send_time # Never /\ e.num_retransmitted > 0 /\ now - e.send_time < rtt)

\* GetPacketAndMarkAsPending finds a packet to resend.
MayMarkPending(h, seq, rtt) ==
    /\ HasPacket(h, seq)
    /\ ~GetStoredPacket(h, seq).pending
    /\ CanBeTransmitted(GetStoredPacket(h, seq), rtt)

WithPending(h, seq, pending) == [h EXCEPT ![GetPacketIndex(h, seq) + 1].pending = pending]

\* ResendPacket within OnReceivedNack.  state.stop: an encapsulation failed and
\* the rest of the list is discarded.
Resend(state, seq, fails) ==
    IF state.stop \/ ~MayMarkPending(state.h, seq, state.rtt) THEN state
    ELSE IF seq \in fails THEN [state EXCEPT !.stop = TRUE]
    ELSE [state EXCEPT !.h = WithPending(state.h, seq, TRUE),
                       !.queue = Append(@, [seq |-> seq, order |-> GetStoredPacket(state.h, seq).order,
                                            rtt |-> state.rtt])]

\* A NACK: SetRttMs culls first, then each packet is resent.
OnReceivedNack(nack_list, rtt, fails) ==
    /\ storing
    /\ rtt_ms' = rtt
    /\ LET culled == CullOldPackets(packet_history, rtt)
           resent[i \in 0..Len(nack_list)] ==
               IF i = 0 THEN [h |-> culled, queue |-> pacer, stop |-> FALSE, rtt |-> rtt]
               ELSE Resend(resent[i - 1], nack_list[i], fails)
           done == resent[Len(nack_list)]
       IN /\ packet_history' = done.h
          /\ pacer' = done.queue
          /\ padding_priority' = PriorityAfter(padding_priority, culled)
    /\ Len(pacer') <= MaxSends
    /\ UNCHANGED <<settings, packets_inserted, media_seq_num, now, sends, sent>>

\* send_time and num_retransmitted after a packet is sent once more.
Retransmitted(h, seq, pending) ==
    LET e == GetStoredPacket(h, seq)
    IN [h EXCEPT ![GetPacketIndex(h, seq) + 1] =
            [e EXCEPT !.send_time = now, !.pending = pending, !.num_retransmitted = @ + 1]]

\* What the retransmission r of a stored packet follows: the rtt it waited for,
\* whether the packet was retransmitted before, the time since it was last sent.
Following(h, r) ==
    LET e == GetStoredPacket(h, r.seq)
    IN [rtt |-> r.rtt, again |-> e.num_retransmitted > 0, gap |-> now - e.send_time]

\* Mutant: the packet stays marked as pending.
MarkSentStillPending(h, seq) == Retransmitted(h, seq, TRUE)
MarkSent(h, seq) == Retransmitted(h, seq, FALSE)

\* A retransmission leaves the pacer: MarkPacketAsSent.
SendRetransmission ==
    /\ pacer # <<>> /\ sends < MaxSends
    /\ LET seq == Head(pacer).seq
       IN IF storing /\ HasPacket(packet_history, seq) /\ GetStoredPacket(packet_history, seq).send_time # Never
          THEN packet_history' = MarkSent(packet_history, seq) /\ sent' = Following(packet_history, Head(pacer))
          ELSE UNCHANGED <<packet_history, sent>>
    /\ pacer' = Tail(pacer)
    /\ sends' = sends + 1
    /\ UNCHANGED <<padding_priority, settings, rtt_ms, packets_inserted, media_seq_num, now>>

\* The packet GetPayloadPaddingPacket looks at.
HasPaddingCandidate == IF enable_padding_prio THEN padding_priority # {} ELSE Stored # {}
PaddingCandidate ==
    IF enable_padding_prio THEN EntryOf(packet_history, Best(packet_history, padding_priority))
    ELSE packet_history[Max({i \in DOMAIN packet_history : Populated(packet_history[i])})]

\* GeneratePadding takes a stored packet as payload.
GetPayloadPaddingPacket ==
    /\ storing /\ sends < MaxSends
    /\ HasPaddingCandidate /\ ~PaddingCandidate.pending
    /\ packet_history' = Retransmitted(packet_history, PaddingCandidate.seq, FALSE)
    /\ sends' = sends + 1
    /\ UNCHANGED <<padding_priority, settings, rtt_ms, packets_inserted, media_seq_num, pacer, now, sent>>

\* SetStorePacketsStatus resets the history (a call with the settings it has
\* only does that).
SetStorePacketsStatus(enable, number) ==
    /\ storing' = enable /\ number_to_store' = number
    /\ <<enable, number>> # settings
    /\ packet_history' = <<>> /\ padding_priority' = {}
    /\ UNCHANGED <<rtt_ms, packets_inserted, media_seq_num, pacer, now, sends, sent>>

\* SetSequenceNumberOffset clears the history, not the pacer.
SetSequenceNumberOffset ==
    /\ \E d \in Jumps : media_seq_num' = Wrap(media_seq_num + d)
    /\ packet_history' = <<>> /\ padding_priority' = {}
    /\ sends < MaxSends /\ sends' = sends + 1
    /\ UNCHANGED <<settings, rtt_ms, packets_inserted, pacer, now, sent>>

-----------------------------------------------------------------------------

Tick == now < MaxTime /\ now' = now + 1
        /\ UNCHANGED <<packet_history, padding_priority, settings, rtt_ms, packets_inserted,
                       media_seq_num, pacer, sends, sent>>

\* Sequence numbers a NACK may name.
Named == {Wrap(media_seq_num - k) : k \in 1..(kMaxCapacity + 1)}
NackLists == {<<a>> : a \in Named} \cup {l \in Named \X Named : AheadOf(l[2], l[1])}

Next ==
    \/ SendMedia \/ SendUnstored \/ SendRetransmission \/ GetPayloadPaddingPacket
    \/ \E rtt \in Rtts, nack_list \in NackLists : \E fails \in {{}} \cup {{nack_list[1]} : i \in 2..Len(nack_list)} :
          OnReceivedNack(nack_list, rtt, fails)
    \/ \E enable \in Enables, n \in NumbersToStore : SetStorePacketsStatus(enable, n)
    \/ SetSequenceNumberOffset \/ Tick

Spec == Init /\ [][Next]_vars

-----------------------------------------------------------------------------
(* Properties *)

TypeOK ==
    /\ \A e \in Stored : /\ e.order \in 0..(packets_inserted - 1) /\ e.seq \in SeqNums
                          /\ e.send_time \in {Never} \cup 0..now /\ e.pending \in BOOLEAN
                          /\ e.num_retransmitted \in Nat
    /\ padding_priority \subseteq 0..(packets_inserted - 1)
    /\ storing \in BOOLEAN /\ number_to_store \in NumbersToStore /\ rtt_ms \in {-1} \cup Rtts
    /\ media_seq_num \in SeqNums /\ now \in 0..MaxTime /\ sends \in 0..MaxSends

\* The two containers agree: the entries are the packets in the order they were sent,
\* each as far from the first as its sequence number says, also across the wrap-around;
\* the raw pointers in padding_priority_ point to packets still stored, and there are
\* fewer than kMaxPaddingtHistory.
HistoryConsistent ==
    /\ \A i, j \in DOMAIN packet_history :
          Populated(packet_history[i]) /\ Populated(packet_history[j]) /\ i < j =>
              /\ packet_history[i].order < packet_history[j].order
              /\ packet_history[j].seq = Wrap(packet_history[i].seq + (j - i))
    /\ padding_priority \subseteq Orders(packet_history)
    /\ Cardinality(padding_priority) < kMaxPaddingtHistory

InPacer(order) == {i \in DOMAIN pacer : pacer[i].order = order}

\* A stored packet is marked pending exactly while one retransmission of it is
\* in the pacer: it is never queued twice, and never left pending for good.
PendingIffQueued ==
    \A e \in Stored : Cardinality(InPacer(e.order)) = IF e.pending THEN 1 ELSE 0

\* A packet that was retransmitted is retransmitted again only after the rtt
\* its NACK came with.
RetransmissionsSpaced == sent.again => sent.gap >= sent.rtt

\* Unless the history is reset or full, a step only drops packets that are not
\* pending and were sent at least the packet duration ago.
KeptLongEnough ==
    [][ \/ settings' # settings
        \/ SetSequenceNumberOffset
        \/ Len(packet_history) >= kMaxCapacity
        \/ \A e \in Stored : e.order \notin Orders(packet_history') =>
               ~e.pending /\ now >= e.send_time + Duration(rtt_ms') ]_vars
=============================================================================

---------------------------- MODULE PacketQueue ----------------------------
(***************************************************************************)
(* RoundRobinPacketQueue (congestion_control/pacing): the pacer's queue.    *)
(* One packet alone is kept on a fast path; with more, every SSRC has a     *)
(* priority queue and the streams are scheduled in a multimap keyed by      *)
(* priority and bytes sent.  Next to the packets the queue keeps running    *)
(* totals (count, size, time spent unpaused) that the pacer reads.          *)
(***************************************************************************)
EXTENDS Integers, Sequences, FiniteSets, SequencesExt, FiniteSetsExt

CONSTANTS
    Ssrcs,
    Kinds,               \* what may be pushed: records [ssrc, prio, payload]
    HeaderSize,          \* header_size() of every packet
    Overheads,           \* values passed to set_transport_overhead
    kMaxLeadingSize,     \* 1400
    OverheadOrder,       \* set_include_overhead is called once, and before set_transport_overhead
    MayPause,            \* the pacer may be paused
    MaxPackets,          \* bound: packets pushed
    MaxTime              \* bound: the clock, in ms

ASSUME QueueConstants ==
    /\ \A k \in Kinds : k.ssrc \in Ssrcs /\ k.prio \in Nat /\ k.payload \in Nat
    /\ kMaxLeadingSize \in Nat /\ HeaderSize \in Nat
    /\ Overheads \subseteq Nat

VARIABLES
    single_packet_queue,  \* the fast path: a set of at most one queued packet
    streams,              \* streams[ssrc] = [queue, sent_size]
    stream_priorities,    \* the multimap: sequence of [prio, sent_size, ssrc]
    enqueue_times,        \* the multiset: packet id -> the time it was entered with
    num_packets, total_queued_size, queue_time_sum, pause_time_sum, time_last_update,
    max_stream_sent_size, paused, include_overhead, transport_overhead,
    packet_counter,       \* enqueue_order of the next packet
    now,
    pushed_at,            \* history: packet id -> the clock when it was pushed
    paused_total,         \* history: time spent paused so far
    paused_before         \* history: packet id -> paused_total when it was pushed

totals == <<num_packets, total_queued_size, queue_time_sum, pause_time_sum, time_last_update>>
settings == <<paused, include_overhead, transport_overhead>>
history == <<now, pushed_at, paused_total, paused_before>>
vars == <<single_packet_queue, streams, stream_priorities, enqueue_times, totals,
          max_stream_sent_size, settings, packet_counter, history>>

Ids == 0..(MaxPackets - 1)
QueuedPackets == [kind : Kinds, id : Ids, enqueue_time : Int]

Init ==
    /\ single_packet_queue = {}
    /\ streams = [s \in Ssrcs |-> [queue |-> {}, sent_size |-> 0]]
    /\ stream_priorities = <<>>
    /\ enqueue_times = <<>>
    /\ num_packets = 0 /\ total_queued_size = 0
    /\ queue_time_sum = 0 /\ pause_time_sum = 0 /\ time_last_update = 0
    /\ max_stream_sent_size = kMaxLeadingSize
    /\ paused = FALSE /\ include_overhead = FALSE /\ transport_overhead = 0
    /\ packet_counter = 0
    /\ now = 0
    /\ pushed_at = <<>> /\ paused_total = 0 /\ paused_before = <<>>

-----------------------------------------------------------------------------
(* Mutants *)

\* Unpaused time is counted for one packet only.
UpdatedTimesOnePacket(at) ==
    LET delta == IF at <= time_last_update THEN 0 ELSE at - time_last_update
    IN [pause |-> pause_time_sum + (IF paused THEN delta ELSE 0),
        queue |-> queue_time_sum + (IF paused THEN 0 ELSE delta),
        last  |-> time_last_update + delta]

\* Of two packets of one priority the last one pushed leaves first.
BeforeLifo(p, q) == p.kind.prio < q.kind.prio \/ (p.kind.prio = q.kind.prio /\ p.id > q.id)

\* The key of a popped stream is never removed.
UnscheduledKept(prios, s) == prios

-----------------------------------------------------------------------------
(* Ordering of packets and streams *)

\* operator< of QueuedPacket, reversed: p leaves before q.  Retransmissions have a
\* priority of their own, so the criterion between the two never decides.
Before(p, q) == p.kind.prio < q.kind.prio \/ (p.kind.prio = q.kind.prio /\ p.id < q.id)
Top(Q) == CHOOSE p \in Q : \A q \in Q : q = p \/ Before(p, q)

KeyBefore(e, f) == e.prio < f.prio \/ (e.prio = f.prio /\ e.sent_size < f.sent_size)

\* erase and emplace of the multimap; equal keys stay in insertion order.
Unscheduled(prios, s) == RemoveFirstMatch(prios, LAMBDA e : e.ssrc = s)
Scheduled(prios, s, prio, sent) ==
    LET e == [prio |-> prio, sent_size |-> sent, ssrc |-> s]
        rest == Unscheduled(prios, s)
    IN InsertAt(rest, 1 + Cardinality({i \in DOMAIN rest : ~KeyBefore(e, rest[i])}), e)

PacketSize(p) == p.kind.payload + (IF include_overhead THEN HeaderSize + transport_overhead ELSE 0)

Enqueued(st, p) == [st EXCEPT ![p.kind.ssrc].queue = @ \cup {p}]
With(f, i, x) == [j \in DOMAIN f \cup {i} |-> IF j = i THEN x ELSE f[j]]
Without(f, i) == [j \in DOMAIN f \ {i} |-> f[j]]

-----------------------------------------------------------------------------
(* The operations *)

\* UpdateEnqueueTime: the time since the last update counts for every packet, or
\* as time spent paused.
UpdatedTimes(at) ==
    LET delta == IF at <= time_last_update THEN 0 ELSE at - time_last_update
    IN [pause |-> pause_time_sum + (IF paused THEN delta ELSE 0),
        queue |-> queue_time_sum + (IF paused THEN 0 ELSE delta * num_packets),
        last  |-> time_last_update + delta]

SetTimes(t) ==
    /\ pause_time_sum' = t.pause /\ queue_time_sum' = t.queue /\ time_last_update' = t.last

\* MaybePromoteSinglePacketToNormalQueue: the packet keeps the totals it was counted in.
Promoted ==
    LET base == [streams |-> streams, prios |-> stream_priorities, times |-> enqueue_times]
        p == CHOOSE q \in single_packet_queue : TRUE
        s == p.kind.ssrc
    IN IF single_packet_queue = {} THEN base
       ELSE [streams |-> Enqueued(streams, p),
             prios   |-> Scheduled(stream_priorities, s, p.kind.prio, streams[s].sent_size),
             times   |-> With(enqueue_times, p.id, p.enqueue_time)]

FastPath == num_packets = 0

\* A new packet, counted from now on.
CountNew(p) ==
    /\ SetTimes(UpdatedTimes(now))
    /\ num_packets' = num_packets + 1
    /\ total_queued_size' = total_queued_size + PacketSize(p)
    /\ packet_counter' = packet_counter + 1
    /\ pushed_at' = With(pushed_at, p.id, now)
    /\ paused_before' = With(paused_before, p.id, paused_total)
    /\ UNCHANGED <<max_stream_sent_size, settings, now, paused_total>>

NewPacket(kind) == [kind |-> kind, id |-> packet_counter, enqueue_time |-> now - UpdatedTimes(now).pause]

PushSingle(kind) ==
    /\ packet_counter < MaxPackets
    /\ FastPath
    /\ single_packet_queue' = {NewPacket(kind)}
    /\ CountNew(NewPacket(kind))
    /\ UNCHANGED <<streams, stream_priorities, enqueue_times>>

\* The stream of the packet is rescheduled with the packet's priority.
PushQueued(kind) ==
    /\ packet_counter < MaxPackets
    /\ ~FastPath
    /\ single_packet_queue' = {}
    /\ streams' = Enqueued(Promoted.streams, NewPacket(kind))
    /\ stream_priorities' = Scheduled(Promoted.prios, kind.ssrc, kind.prio, streams[kind.ssrc].sent_size)
    /\ enqueue_times' = With(Promoted.times, packet_counter, now)
    /\ CountNew(NewPacket(kind))

PopSingle ==
    /\ single_packet_queue # {}
    /\ single_packet_queue' = {}
    /\ queue_time_sum' = 0 /\ num_packets' = 0 /\ total_queued_size' = 0
    /\ pushed_at' = <<>> /\ paused_before' = <<>>
    /\ UNCHANGED <<streams, stream_priorities, enqueue_times, pause_time_sum, time_last_update,
                   max_stream_sent_size, settings, packet_counter, now, paused_total>>

\* The best packet of the stream scheduled first; the stream is charged for it and
\* scheduled again with the priority of its next packet.
PopQueued ==
    /\ single_packet_queue = {}
    /\ stream_priorities # <<>>
    /\ LET s    == Head(stream_priorities).ssrc
           p    == Top(streams[s].queue)
           q    == streams[s].queue \ {p}
           sent == Max({streams[s].sent_size + PacketSize(p), max_stream_sent_size - kMaxLeadingSize})
           rest == Unscheduled(stream_priorities, s)
       IN /\ queue_time_sum' = queue_time_sum - (time_last_update - p.enqueue_time - pause_time_sum)
          /\ enqueue_times' = Without(enqueue_times, p.id)
          /\ streams' = [streams EXCEPT ![s] = [queue |-> q, sent_size |-> sent]]
          /\ max_stream_sent_size' = Max({max_stream_sent_size, sent})
          /\ total_queued_size' = total_queued_size - PacketSize(p)
          /\ num_packets' = num_packets - 1
          /\ stream_priorities' = IF q = {} THEN rest ELSE Scheduled(rest, s, Top(q).kind.prio, sent)
          /\ pushed_at' = Without(pushed_at, p.id)
          /\ paused_before' = Without(paused_before, p.id)
    /\ UNCHANGED <<single_packet_queue, pause_time_sum, time_last_update, settings, packet_counter,
                   now, paused_total>>

UpdateEnqueueTime ==
    /\ time_last_update < now
    /\ SetTimes(UpdatedTimes(now))
    /\ UNCHANGED <<single_packet_queue, streams, stream_priorities, enqueue_times, num_packets,
                   total_queued_size, max_stream_sent_size, settings, packet_counter, history>>

SetPauseState ==
    /\ MayPause
    /\ SetTimes(UpdatedTimes(now))
    /\ paused' = ~paused
    /\ UNCHANGED <<single_packet_queue, streams, stream_priorities, enqueue_times, num_packets,
                   total_queued_size, max_stream_sent_size, include_overhead, transport_overhead,
                   packet_counter, history>>

Promote ==
    /\ single_packet_queue' = {}
    /\ streams' = Promoted.streams
    /\ stream_priorities' = Promoted.prios
    /\ enqueue_times' = Promoted.times

Waiting(st) == UNION {st[s].queue : s \in Ssrcs}

\* The size with the overhead of the packets that wait already.
IncludedSize(st) == total_queued_size + Cardinality(Waiting(st)) * (HeaderSize + transport_overhead)

set_include_overhead ==
    /\ OverheadOrder => ~include_overhead
    /\ Promote
    /\ total_queued_size' = IncludedSize(Promoted.streams)
    /\ include_overhead' = TRUE
    /\ UNCHANGED <<num_packets, queue_time_sum, pause_time_sum, time_last_update,
                   max_stream_sent_size, paused, transport_overhead, packet_counter, history>>

\* The size changes whether or not the overhead is included.
set_transport_overhead(overhead) ==
    /\ OverheadOrder => include_overhead
    /\ overhead # transport_overhead
    /\ Promote
    /\ total_queued_size' = total_queued_size
         + Cardinality(Waiting(Promoted.streams)) * (overhead - transport_overhead)
    /\ transport_overhead' = overhead
    /\ UNCHANGED <<num_packets, queue_time_sum, pause_time_sum, time_last_update,
                   max_stream_sent_size, paused, include_overhead, packet_counter, history>>

Tick ==
    /\ now < MaxTime
    /\ now' = now + 1
    /\ paused_total' = paused_total + (IF paused THEN 1 ELSE 0)
    /\ UNCHANGED <<single_packet_queue, streams, stream_priorities, enqueue_times, totals,
                   max_stream_sent_size, settings, packet_counter, pushed_at, paused_before>>

Next ==
    \/ \E kind \in Kinds : PushSingle(kind) \/ PushQueued(kind)
    \/ PopSingle \/ PopQueued
    \/ UpdateEnqueueTime \/ SetPauseState
    \/ set_include_overhead
    \/ \E overhead \in Overheads : set_transport_overhead(overhead)
    \/ Tick

Spec == Init /\ [][Next]_vars

-----------------------------------------------------------------------------
(* Properties *)

AllPackets == single_packet_queue \cup Waiting(streams)

\* The state is well typed.
TypeOK ==
    /\ AllPackets \subseteq QueuedPackets
    /\ Cardinality(single_packet_queue) <= 1
    /\ \A i \in DOMAIN stream_priorities : stream_priorities[i].ssrc \in Ssrcs
    /\ num_packets \in Nat /\ total_queued_size \in Int /\ queue_time_sum \in Int
    /\ pause_time_sum \in Nat /\ time_last_update \in 0..now

\* The assertions of Empty() and IsEmptyStream(): the count tells whether there is a
\* packet, the fast path and the streams are never used together, and a stream is
\* scheduled, once, exactly while it has packets.
Scheduling ==
    /\ num_packets = Cardinality(AllPackets)
    /\ single_packet_queue # {} => Waiting(streams) = {}
    /\ \A s \in Ssrcs : Cardinality({i \in DOMAIN stream_priorities : stream_priorities[i].ssrc = s})
                           = IF streams[s].queue = {} THEN 0 ELSE 1

\* The running totals are those of the packets in the queue, over promotions, pops,
\* pauses and changes of the overhead: total_queued_size is the sum of their sizes ("The
\* total size of all packets in streams"), and the time AverageQueueTime() divides is the
\* sum of the unpaused times they have waited.
TotalsAreSums ==
    LET Waited(p) == (now - pushed_at[p.id]) - (paused_total - paused_before[p.id])
        Pending == IF paused THEN 0 ELSE (now - time_last_update) * num_packets
    IN  /\ total_queued_size = MapThenSumSet(PacketSize, AllPackets)
        /\ queue_time_sum + Pending = MapThenSumSet(Waited, AllPackets)

\* Two packets of one stream and one priority leave in the order they were pushed,
\* also when one of them was on the fast path.
LeavesInOrder ==
    [][\A p \in AllPackets, q \in AllPackets' :
          (p \notin AllPackets' /\ p.kind = q.kind) => p.id < q.id]_vars
=============================================================================

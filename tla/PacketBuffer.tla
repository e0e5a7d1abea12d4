---------------------------- MODULE PacketBuffer ----------------------------
(***************************************************************************)
(* The jitter packet buffer of the video receiver (packet_buffer.cpp): RTP  *)
(* packets of one stream, in any order, are stored in a ring that grows by  *)
(* powers of two; as soon as all the packets of a frame are there the frame *)
(* is handed out.  A number in missing_packets_ holds H264 delta frames     *)
(* back.                                                                    *)
(*                                                                          *)
(* The network delivers a fixed stream of packets, reordered by at most     *)
(* MaxLate, with losses and repetitions.  Left out: ClearTo and             *)
(* first_seq_num_, which only tests use (RtpVideoReceiver never calls       *)
(* ClearTo, so is_cleared_to_first_seq_num_ is always false); sizes,        *)
(* payloads and receive times of packets; the setter of                     *)
(* sps_pps_idr_is_h264_keyframe_, which nothing calls (the flag is true).   *)
(***************************************************************************)
EXTENDS SeqNum, Sequences, FiniteSets, FiniteSetsExt, SequencesExt

CONSTANTS
    Streams,        \* the streams a sender may produce (see StreamType)
    InitialSize,    \* initial_buffer_size, a power of two
    MaxSize,        \* max_packet_buffer_size_, a power of two
    Window,         \* kMaxMissingPacketCount
    MaxJump,        \* bound: how far an arrival is ahead of the highest one
    MaxLate,        \* bound: how far an arrival is behind the highest one
    Aliasing        \* may an arrival be stored over another packet?

Kinds == {"sps", "pps", "idr"}

(* A packet: the frame it belongs to (its RTP timestamp), whether it is     *)
(* flagged first and last packet of its frame, the NAL units of interest,   *)
(* whether it holds kMaxNaluNumPerPacket of them or more; a padding packet  *)
(* belongs to no frame.  The first packet's number is the offset plus 1.    *)
PacketType == [frame: Nat, first: BOOLEAN, last: BOOLEAN, nalus: SUBSET Kinds,
               full: BOOLEAN, padding: BOOLEAN]
StreamType == [h264: BOOLEAN, offset: SeqNums, packets: Seq(PacketType)]

ASSUME PacketBufferAssumption ==
    /\ \A st \in Streams : st.offset \in SeqNums /\ 2 * Len(st.packets) < Mod
    /\ InitialSize \in 1..MaxSize /\ Mod % MaxSize = 0
    /\ \E k \in 0..MaxSize : MaxSize = InitialSize * 2^k
    /\ Window \in 1..(Mod \div 2) /\ MaxJump \in Nat /\ MaxLate \in Nat
    /\ Aliasing \in BOOLEAN

VARIABLES
    stream,     \* the stream being received (never changes)
    buffer,     \* packet_buffer_
    newest,     \* newest_inserted_seq_num_, or None
    missing,    \* missing_packets_
    result,     \* InsertResult of the last call
    crashed,    \* an assertion of TryToAssembleFrames has failed
    \* History, since the buffer was last cleared, in positions of the stream:
    top,        \* the highest packet that ever arrived
    arrived,    \* packets inserted
    first,      \* the first one inserted, or 0
    lastKey,    \* end of the latest key frame handed out, or 0
    delivered   \* packets handed out in frames

history == <<top, arrived, first, lastKey, delivered>>
vars == <<stream, buffer, newest, missing, result, crashed, history>>

None == -1
Empty == [seq |-> None, continuous |-> FALSE]
NoResult == [frames |-> <<>>, keyframe_requested |-> FALSE]

Positions == 1..Len(stream.packets)
NumberOf(i) == Wrap(stream.offset + i)
PositionOf(s) == (s - stream.offset) % Mod
PacketOf(s) == stream.packets[PositionOf(s)]

Size(b) == Cardinality(DOMAIN b)
At(b, s) == b[s % Size(b)]
Stored(b) == {b[k] : k \in DOMAIN b} \ {Empty}

TypeOK ==
    /\ stream \in Streams
    /\ \E k \in 0..MaxSize : Size(buffer) = InitialSize * 2^k
    /\ Size(buffer) <= MaxSize
    /\ \A k \in 0..(Size(buffer) - 1) :
          \/ buffer[k] = Empty
          \/ /\ buffer[k].seq % Size(buffer) = k
             /\ buffer[k].continuous \in BOOLEAN
             /\ PositionOf(buffer[k].seq) \in arrived
    /\ newest \in SeqNums \cup {None}
    /\ missing \subseteq SeqNums
    /\ result.keyframe_requested \in BOOLEAN
    /\ crashed \in BOOLEAN
    /\ {top, first, lastKey} \subseteq Positions \cup {0}
    /\ delivered \subseteq arrived /\ arrived \subseteq Positions

-----------------------------------------------------------------------------
(* Mutants. *)

\* The slot before is taken for the packet before.
IsContinuousWrongSeq(b, s) ==
    /\ At(b, s).seq = s
    /\ \/ PacketOf(s).first
       \/ At(b, Wrap(s - 1)).continuous

\* Only gaps after the start of the frame hold it back.
GapBeforeWrong(ms, s) == \E n \in ms : OlderThan(s, n)

\* The buffer is not looked through beyond the packet that has arrived.
ScanFirstOnly(b) == <<1>>

-----------------------------------------------------------------------------
(* UpdateMissingPackets: the numbers skipped by a jump, of which at most    *)
(* Window are kept, become missing; an older number no longer is.           *)

UpdateMissing(s) ==
    LET old == Wrap(s - Window)
        from == IF AheadOf(old, newest) THEN old ELSE newest
    IN  IF newest # None /\ AheadOf(s, newest)
        THEN FromLowerBound(missing, old)
                 \cup {Wrap(from + k) : k \in 1..(ForwardDiff(from, s) - 1)}
        ELSE missing \ {s}

UpdateNewest(s) == IF newest = None \/ AheadOf(s, newest) THEN s ELSE newest

-----------------------------------------------------------------------------
(* ExpandPacketBufferIfNecessary: the sizes are tried in turn until no      *)
(* stored packet seems to take the slot of s.                               *)

\* The code compares with the sequence number, not with its slot.
Conflicts(b, n, s) == \E e \in Stored(b) : e.seq % n = s

BiggerSizes(b) == {Size(b) * 2^k : k \in 1..MaxSize} \cap (1..MaxSize)
FreeSizes(b, s) == {n \in BiggerSizes(b) : ~Conflicts(b, n, s)}

ExpandPacketBuffer(b, n) ==
    [k \in 0..(n - 1) |->
        IF \E e \in Stored(b) : e.seq % n = k
        THEN CHOOSE e \in Stored(b) : e.seq % n = k
        ELSE Empty]

-----------------------------------------------------------------------------
(* TryToAssembleFrames. *)

\* Current packet is there, and begins a frame or continues the packet before.
IsContinuous(b, s) ==
    /\ At(b, s).seq = s
    /\ \/ PacketOf(s).first
       \/ LET prev == At(b, Wrap(s - 1))
          IN  /\ prev.seq = Wrap(s - 1)
              /\ PacketOf(prev.seq).frame = PacketOf(s).frame
              /\ prev.continuous

(* The walk back from the last packet of a frame, slot by slot: in H264 it  *)
(* goes on while there is a packet of the same timestamp, otherwise it ends *)
(* at the packet flagged first; at most once round the buffer.              *)
Behind(b, s, k) == At(b, Wrap(s - k))

SameFrame(b, s, k) ==
    /\ Behind(b, s, k) # Empty
    /\ PacketOf(Behind(b, s, k).seq).frame = PacketOf(s).frame

FrameLength(b, s) ==
    LET steps == 0..(Size(b) - 1)
        Begins(k) == /\ Behind(b, s, k) # Empty
                     /\ PacketOf(Behind(b, s, k).seq).first
    IN  IF stream.h264
        THEN 1 + Max({k \in steps : \A j \in 0..k : SameFrame(b, s, j)})
        ELSE 1 + Min({k \in steps : Begins(k)} \cup {Size(b) - 1})

\* The packets walked over by a frame of n packets that ends at s.
Walked(b, s, n) == {PacketOf(Behind(b, s, k).seq) : k \in 0..(n - 1)}

IsKeyframe(b, s, n) ==
    stream.h264 /\ Kinds \subseteq UNION {p.nalus : p \in Walked(b, s, n)}

\* missing_packets_ has a number up to s.
GapBefore(ms, s) == \E n \in ms : ~OlderThan(s, n)

\* The frame stays in the buffer, and the scan ends.
HeldBack(b, ms, s, n) ==
    /\ stream.h264
    /\ \/ \E p \in Walked(b, s, n) : p.full
       \/ ~IsKeyframe(b, s, n) /\ GapBefore(ms, Wrap(s - (n - 1)))

\* assert(packet != nullptr); assert(i == packet->seq_num);
Intact(b, s, n) == \A k \in 0..(n - 1) : Behind(b, s, k).seq = Wrap(s - k)

\* The frame of n packets that ends at s leaves the buffer.
HandOut(a, b, n) ==
    [a EXCEPT
        !.buffer = [k \in DOMAIN b |->
            IF k \in {Wrap(a.seq - j) % Size(b) : j \in 0..(n - 1)} THEN Empty ELSE b[k]],
        !.frames = Append(@, [start |-> PositionOf(Wrap(a.seq - (n - 1))),
                              end   |-> PositionOf(a.seq),
                              key   |-> IsKeyframe(b, a.seq, n)]),
        !.missing = {m \in @ : OlderThan(a.seq, m)},
        !.seq = Wrap(@ + 1)]

\* One iteration of the loop, at number a.seq.
AssembleAt(a) ==
    LET slot == a.seq % Size(a.buffer)
        b == [a.buffer EXCEPT ![slot].continuous = TRUE]
        n == FrameLength(b, a.seq)
    IN  CASE a.ended -> a
          [] ~a.ended /\ ~IsContinuous(a.buffer, a.seq) -> [a EXCEPT !.ended = TRUE]
          [] OTHER ->
               CASE ~PacketOf(a.seq).last -> [a EXCEPT !.buffer = b, !.seq = Wrap(@ + 1)]
                 [] PacketOf(a.seq).last /\ HeldBack(b, a.missing, a.seq, n) ->
                        [a EXCEPT !.ended = TRUE, !.buffer = b]
                 [] OTHER -> IF Intact(b, a.seq, n) THEN HandOut(a, b, n)
                             ELSE [a EXCEPT !.ended = TRUE, !.crashed = TRUE]

Scan(b) == [k \in 1..Size(b) |-> k]

TryToAssembleFrames(b, ms, s) ==
    FoldLeft(LAMBDA a, k : AssembleAt(a),
             [buffer |-> b, missing |-> ms, seq |-> s, frames |-> <<>>,
              ended |-> FALSE, crashed |-> FALSE],
             Scan(b))

-----------------------------------------------------------------------------
Init ==
    /\ stream \in Streams
    /\ buffer = [k \in 0..(InitialSize - 1) |-> Empty]
    /\ newest = None
    /\ missing = {}
    /\ result = NoResult
    /\ crashed = FALSE
    /\ top = 0 /\ arrived = {} /\ first = 0 /\ lastKey = 0 /\ delivered = {}

\* The packet at position i of the stream reaches the receiver.
Arrives(i) ==
    /\ ~crashed
    /\ i \in (top - MaxLate)..(top + MaxJump)
    /\ top' = Max({i, top})
    /\ UNCHANGED stream

\* What both kinds of insertion end with, given what the scan did.
Assembled(i, a) ==
    /\ newest' = UpdateNewest(NumberOf(i))
    /\ buffer' = a.buffer
    /\ missing' = a.missing
    /\ crashed' = a.crashed
    /\ result' = [NoResult EXCEPT !.frames = a.frames]
    /\ arrived' = arrived \cup {i}
    /\ first' = IF first = 0 THEN i ELSE first
    /\ lastKey' = Max({lastKey} \cup {f.end : f \in {g \in Range(a.frames) : g.key}})
    /\ delivered' = delivered \cup UNION {f.start..f.end : f \in Range(a.frames)}

(* InsertPacket, in the three ways it can end. *)

\* The packet is there already: ignored.
InsertDuplicate(i) ==
    /\ Arrives(i)
    /\ ~stream.packets[i].padding
    /\ At(buffer, NumberOf(i)).seq = NumberOf(i)
    /\ result' = NoResult
    /\ UNCHANGED <<buffer, newest, missing, crashed, arrived, first, lastKey, delivered>>

\* Its slot is taken and the buffer cannot grow: everything is dropped.
InsertOverflow(i) ==
    /\ Arrives(i)
    /\ ~stream.packets[i].padding
    /\ At(buffer, NumberOf(i)) # Empty
    /\ At(buffer, NumberOf(i)).seq # NumberOf(i)
    /\ FreeSizes(buffer, NumberOf(i)) = {}
    /\ buffer' = [k \in DOMAIN buffer |-> Empty]
    /\ newest' = None
    /\ missing' = {}
    /\ result' = [frames |-> <<>>, keyframe_requested |-> TRUE]
    /\ arrived' = {} /\ first' = 0 /\ lastKey' = 0 /\ delivered' = {}
    /\ UNCHANGED crashed

\* The buffer the packet is stored into, expanded if its slot is taken.
RoomFor(s) ==
    IF At(buffer, s) = Empty THEN buffer
    ELSE ExpandPacketBuffer(buffer, Min(FreeSizes(buffer, s)))

InsertPacket(i) ==
    /\ Arrives(i)
    /\ ~stream.packets[i].padding
    /\ At(buffer, NumberOf(i)).seq # NumberOf(i)
    /\ At(buffer, NumberOf(i)) = Empty \/ FreeSizes(buffer, NumberOf(i)) # {}
    /\ LET s == NumberOf(i)
           room == RoomFor(s)
           stored == [room EXCEPT ![s % Size(room)] = [seq |-> s, continuous |-> FALSE]]
       IN  /\ Aliasing \/ At(room, s) = Empty
           /\ Assembled(i, TryToAssembleFrames(stored, UpdateMissing(s), s))

InsertPadding(i) ==
    /\ Arrives(i)
    /\ stream.packets[i].padding
    /\ LET s == NumberOf(i)
       IN  Assembled(i, TryToAssembleFrames(buffer, UpdateMissing(s), Wrap(s + 1)))

Next == \E i \in Positions :
    InsertDuplicate(i) \/ InsertOverflow(i) \/ InsertPacket(i) \/ InsertPadding(i)

Spec == Init /\ [][Next]_vars

-----------------------------------------------------------------------------
(* Properties. *)

FrameOf(i) == {j \in Positions : stream.packets[j].frame = stream.packets[i].frame}
Base == Max({first, lastKey})

\* As far back as missing_packets_ answers for frame f, handed out by this step:
\* to the first packet, the last key frame or the window.
Horizon(f) ==
    Max({first', lastKey, PositionOf(newest') - Window + 1}
            \cup {g.end : g \in {h \in Range(result'.frames) : h.key /\ h.end < f.start}})

(* The assertions in the loop that copies a frame out of the buffer         *)
(* (packet_buffer.cpp 278-279) hold: slot i % size holds packet i, whatever *)
(* the buffer has been through.                                             *)
AssertsHold == ~crashed

(* A frame handed out is a run of packets of one frame of the sender that   *)
(* ends with its last one.  It is the whole frame, but for what the code    *)
(* admits of H264 (packet_buffer.cpp 219-223): the beginning may be missing *)
(* of a frame with SPS, PPS and IDR, of the frame reception starts in, of   *)
(* one that the window cuts, and of a frame whose packets are sent again    *)
(* after it was handed out.  And missing_packets_ does its work: when an    *)
(* H264 delta frame that follows what reception started from (the first     *)
(* packet or a key frame) is handed out, every packet in between has        *)
(* arrived, as far back as the window.                                      *)
FramesWhole == [][
    \A f \in Range(result'.frames) :
        LET whole == FrameOf(f.end)
        IN  /\ stream.packets[f.end].last
            /\ f.start..f.end \subseteq whole \cap arrived'
            /\ \/ f.start..f.end = whole
               \/ /\ stream.h264
                  /\ \/ Kinds \subseteq UNION {stream.packets[j].nalus : j \in f.start..f.end}
                     \/ f.start <= Horizon(f)
                     \/ whole \cap delivered # {}
            /\ stream.h264 /\ ~f.key => Horizon(f)..f.end \subseteq arrived'
    ]_vars

(* No frame is forgotten: once all its packets are in the buffer, and for   *)
(* H264 all those since reception started, it has been handed out, in       *)
(* whatever order they came and however often the buffer was expanded.      *)
(* Not so, in H264, after padding or a packet with too many NAL units: the  *)
(* scan for frames stops there and is not resumed.                          *)
NoFrameStuck ==
    crashed \/ \A i \in Positions :
        LET range == Base..Max(FrameOf(i))
        IN  ~ /\ ~stream.packets[i].padding
              /\ {NumberOf(j) : j \in FrameOf(i)} \subseteq {e.seq : e \in Stored(buffer)}
              /\ stream.h264 =>
                    /\ Min(FrameOf(i)) > Base
                    /\ range \subseteq arrived
                    /\ \A j \in range : ~stream.packets[j].padding /\ ~stream.packets[j].full
=============================================================================

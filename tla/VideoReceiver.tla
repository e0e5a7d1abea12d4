---------------------------- MODULE VideoReceiver ---------------------------
(***************************************************************************)
(* RtpVideoReceiver (rtp_video_receiver.cpp) for one H264 stream: a packet *)
(* passes the SPS/PPS tracker (sps_pps_tracker.cpp) into the packet buffer *)
(* (PacketBuffer), the frames assembled go to the frame reference finder   *)
(* (FrameRefFinder) and from there, complete, to the decoder's side, which *)
(* reports back what it has decoded.  Padding goes to the finder first and *)
(* then to the packet buffer.  Everything runs on one queue: a step is one *)
(* packet or one report.                                                   *)
(*                                                                         *)
(* Left out: the NACK module (NackModule), RED and FEC (whose packets come *)
(* in here as padding or as packets), receive times, truncated STAP-A      *)
(* packets, codecs other than H264 (no finder is ever created for them).   *)
(***************************************************************************)
EXTENDS FrameRefFinder, FiniteSets

CONSTANTS
    Streams, InitialSize, MaxSize, Window, MaxJump, MaxLate, Aliasing,  \* of PacketBuffer
    PaddingFirst    \* may padding come before the first frame is assembled?

VARIABLES
    stream, buffer, newest, missing, result, crashed,   \* of PacketBuffer
    top, arrived, first, lastKey, delivered,
    tracker,        \* which of SPS and PPS the tracker has seen
    received,       \* has_received_frame_
    exists,         \* frame_ref_finder_ is not null
    finder,         \* *frame_ref_finder_
    pictures,       \* last_seq_num_for_pic_id_
    requests,       \* did the last step request a key frame?
    complete        \* history: the frames that OnCompleteFrame was called with

PB == INSTANCE PacketBuffer

receiver == <<tracker, received, exists, finder, pictures, requests, complete>>
assembly == <<stream, buffer, newest, missing, result, crashed, top, arrived, first, lastKey, delivered>>
vars == <<assembly, receiver>>

Init ==
    /\ PB!Init
    /\ tracker = {} /\ received = FALSE /\ exists = FALSE /\ finder = NewFinder
    /\ pictures = <<>> /\ requests = FALSE /\ complete = {}

-----------------------------------------------------------------------------
(* OnInsertedPacket and OnAssembledFrame: the frames of the packet buffer's *)
(* result go to the finder one after the other; the first frame ever        *)
(* creates it and, when it is a key frame, asks for a key frame.            *)

Frame(g) == [start |-> PB!NumberOf(g.start), end |-> PB!NumberOf(g.end), key |-> g.key]

InsertFrames(f, frames) ==
    LET fed[n \in 0..Len(frames)] ==
            IF n = 0 THEN [f EXCEPT !.out = <<>>] ELSE InsertFrame(fed[n - 1], Frame(frames[n]))
    IN  fed[Len(frames)]

\* OnCompleteFrame for every frame handed off.
Completed(out) ==
    LET new == {out[k] : k \in DOMAIN out}
        ids == {c.id : c \in new}
    IN  /\ pictures' = [i \in DOMAIN pictures \cup ids |->
                IF i \in ids THEN (CHOOSE c \in new : c.id = i).frame.end ELSE pictures[i]]
        /\ complete' = complete \cup new

\* What follows the packet buffer's insertion, from finder f on.
OnInsertedPacket(f, out) ==
    LET frames == result'.frames
        g == InsertFrames(f, frames)
    IN  /\ finder' = [g EXCEPT !.out = <<>>]
        /\ Completed(out \o g.out)
        /\ received' = (received \/ frames # <<>>)
        /\ exists' = (exists \/ frames # <<>>)
        /\ requests' = \/ ~received /\ frames # <<>> /\ Head(frames).key
                       \/ result'.keyframe_requested

-----------------------------------------------------------------------------
(* SpsPpsTracker::CopyAndFixBitstream: the first packet of an IDR needs the *)
(* parameter sets, from earlier packets or the same one.                    *)

Nalus(i) == stream.packets[i].nalus

LacksParameterSets(i) ==
    /\ stream.packets[i].first /\ "idr" \in Nalus(i)
    /\ ~({"sps", "pps"} \subseteq tracker \cup Nalus(i))

Track(i) == tracker' = tracker \cup (Nalus(i) \cap {"sps", "pps"})

\* REQUEST_KEY_FRAME: the packet is dropped.
DropPacket(i) ==
    /\ PB!Arrives(i) /\ ~stream.packets[i].padding /\ LacksParameterSets(i)
    /\ Track(i) /\ requests' = TRUE
    /\ UNCHANGED <<buffer, newest, missing, result, crashed, arrived, first, lastKey, delivered,
                   received, exists, finder, pictures, complete>>

OnDepacketizedPacket(i) ==
    /\ ~LacksParameterSets(i)
    /\ PB!InsertDuplicate(i) \/ PB!InsertOverflow(i) \/ PB!InsertPacket(i)
    /\ Track(i) /\ OnInsertedPacket(finder, <<>>)

\* Padding reaches the finder if there is one.
HandleEmptyPacket(i) ==
    LET f == IF exists THEN InsertPadding(finder, PB!NumberOf(i)) ELSE finder
    IN  /\ PaddingFirst \/ exists
        /\ PB!InsertPadding(i)
        /\ OnInsertedPacket(f, f.out)
        /\ UNCHANGED tracker

\* The decoder has decoded the picture: older ones are not waited for any more.
OnDecodedFrame(id) ==
    /\ id \in DOMAIN pictures
    /\ finder' = ClearTo(finder, pictures[id])
    /\ pictures' = [i \in {j \in DOMAIN pictures : j > id} |-> pictures[i]]
    /\ requests' = FALSE
    /\ UNCHANGED <<assembly, tracker, received, exists, complete>>

Next ==
    \/ \E i \in PB!Positions : DropPacket(i) \/ OnDepacketizedPacket(i) \/ HandleEmptyPacket(i)
    \/ \E id \in DOMAIN pictures : OnDecodedFrame(id)

Spec == Init /\ [][Next]_vars

-----------------------------------------------------------------------------
(* Properties.                                                              *)

Position(s) == PB!PositionOf(s)
Begins(frame) == Position(frame.start)
Ends(frame) == Position(frame.end)

\* Everything between the two frames is padding.
Precedes(a, b) ==
    /\ Ends(a) < Begins(b)
    /\ \A i \in Ends(a) + 1..Begins(b) - 1 : stream.packets[i].padding

\* A complete delta frame refers, by the id it was given, to the complete frame directly
\* before it in the stream, and ids follow the stream, although frames are assembled in
\* any order, numbers wrap around and the finder forgets and renames its groups.  (Packets
\* late by a whole group, at the start of the stream, break it: the unwrapper does not go
\* back past zero, so that the older of two key frames gets the larger id.)
RefersToPrevious ==
    \A c \in complete :
        /\ c.frame.key \/ \E p \in complete : c.refs = {p.id} /\ Precedes(p.frame, c.frame)
        /\ \A d \in complete : (c.id < d.id) <=> (Ends(c.frame) < Ends(d.frame))

\* No frame waits in vain: between a stashed frame and the complete frame before it a
\* packet is still missing.  (The finder is told of padding only once it exists: with
\* PaddingFirst the frame behind such padding waits until it is given up.)
NoFrameWaitsInVain ==
    \A k \in DOMAIN finder.stash :
        LET frame == finder.stash[k]
        IN  \/ \E c \in complete : c.frame = frame
            \/ ~ \E c \in complete :
                    /\ Precedes(c.frame, frame)
                    /\ Ends(c.frame) + 1..Begins(frame) - 1 \subseteq arrived
=============================================================================

-------------------------- MODULE MCPacketBuffer --------------------------
(***************************************************************************)
(* Streams for PacketBuffer.  H264: a key frame of three packets whose     *)
(* second NAL unit is flagged first as well (the depacketizer flags every  *)
(* packet that begins one), delta frames of two and one packets, padding,  *)
(* a packet with too many NAL units.  Generic codec: frames of two, three  *)
(* and one packets, with padding between two of them.                      *)
(***************************************************************************)
EXTENDS PacketBuffer

Packet(frame, begin, end, nalus) ==
    [frame |-> frame, first |-> begin, last |-> end, nalus |-> nalus,
     full |-> FALSE, padding |-> FALSE]
Full(frame) == [Packet(frame, TRUE, TRUE, {}) EXCEPT !.full = TRUE]
Padding == [Packet(0, FALSE, FALSE, {}) EXCEPT !.padding = TRUE]

H264(offset) == [h264 |-> TRUE, offset |-> offset, packets |-> <<
    Packet(1, TRUE, TRUE, {}),
    Packet(2, TRUE, FALSE, {}), Packet(2, FALSE, TRUE, {}),
    Packet(3, TRUE, FALSE, {"sps", "pps"}), Packet(3, TRUE, FALSE, {"idr"}),
        Packet(3, FALSE, TRUE, {"idr"}),
    Packet(4, TRUE, TRUE, {}),
    Padding,
    Packet(5, TRUE, TRUE, {}),
    Full(6),
    Packet(7, TRUE, TRUE, {}) >>]

Generic(offset) == [h264 |-> FALSE, offset |-> offset, packets |-> <<
    Packet(1, TRUE, FALSE, {}), Packet(1, FALSE, TRUE, {}),
    Packet(2, TRUE, FALSE, {}), Packet(2, FALSE, FALSE, {}), Packet(2, FALSE, TRUE, {}),
    Padding,
    Packet(3, TRUE, TRUE, {}),
    Packet(4, TRUE, FALSE, {}), Packet(4, FALSE, TRUE, {}) >>]

\* One stream of each kind wraps around, one does not.
MCStreams == {H264(9), H264(27), Generic(9), Generic(27)}
=============================================================================

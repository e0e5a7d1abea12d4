-------------------------- MODULE MCVideoReceiver ---------------------------
(***************************************************************************)
(* VideoReceiver on H264 streams of two groups: parameter sets in a packet *)
(* of their own, deltas of one and two packets, padding between them.      *)
(***************************************************************************)
EXTENDS VideoReceiver

Packet(frame, begin, end, nalus) ==
    [frame |-> frame, first |-> begin, last |-> end, nalus |-> nalus,
     full |-> FALSE, padding |-> FALSE]
Padding == [Packet(0, FALSE, FALSE, {}) EXCEPT !.padding = TRUE]

\* The numbers wrap around after the third packet.
MCStreams == {[h264 |-> TRUE, offset |-> 28, packets |-> <<
    Packet(1, TRUE, FALSE, {"sps", "pps"}), Packet(1, TRUE, TRUE, {"idr"}),
    Packet(2, TRUE, TRUE, {}),
    Padding,
    Packet(3, TRUE, FALSE, {}), Packet(3, FALSE, TRUE, {}),
    Packet(4, TRUE, TRUE, {"sps", "pps", "idr"}),
    Packet(5, TRUE, TRUE, {}) >>]}
=============================================================================

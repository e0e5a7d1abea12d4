--------------------------- MODULE MCPacketQueue ---------------------------
(***************************************************************************)
(* Instances of PacketQueue: an audio stream, and a video stream that       *)
(* carries new packets and their retransmissions.                           *)
(***************************************************************************)
EXTENDS PacketQueue

CONSTANTS audio, video

\* PriorityForType: audio 1, retransmission 2, video 3.
AudioPacket == [ssrc |-> audio, prio |-> 1, payload |-> 1]
Retransmission == [ssrc |-> video, prio |-> 2, payload |-> 2]
VideoPacket == [ssrc |-> video, prio |-> 3, payload |-> 2]

MCSsrcs == {audio, video}
MCKinds == {AudioPacket, Retransmission, VideoPacket}
=============================================================================

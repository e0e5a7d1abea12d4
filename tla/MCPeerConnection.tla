------------------------- MODULE MCPeerConnection --------------------------
(***************************************************************************)
(* PeerConnection with one local track whose mid the peer may describe:    *)
(* offers with and without the track, one with a certificate that is not   *)
(* the one the peer presents, and an answer that makes the peer the DTLS   *)
(* client.                                                                 *)
(***************************************************************************)
EXTENDS PeerConnection

CONSTANT a

MCDescriptions ==
    {Remote("OFFER", TRUE, <<>>, "peer", "ACT_PASS"),
     Remote("OFFER", TRUE, <<a>>, "other", "ACT_PASS"),
     Remote("ANSWER", FALSE, <<a>>, "peer", "ACTIVE")}

=============================================================================

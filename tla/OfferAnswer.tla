---------------------------- MODULE OfferAnswer ----------------------------
(***************************************************************************)
(* What PeerConnection promises about negotiation, whatever its threads    *)
(* do: descriptions change only in complete steps of the offer/answer      *)
(* exchange (SignalingState in pc/peer_connection.hpp).  An offer is       *)
(* accepted only when no exchange is under way, an answer only from the    *)
(* side that did not offer, and nothing else touches the descriptions.     *)
(***************************************************************************)

VARIABLES
    state,      \* signaling_state_
    local,      \* type of local_sdp_, or "none"
    remote      \* type of remote_sdp_, or "none"

vars == <<state, local, remote>>

Init == state = "STABLE" /\ local = "none" /\ remote = "none"

\* An offer of either side opens an exchange.
LocalOffer ==
    /\ state = "STABLE" /\ state' = "HAVE_LOCAL_OFFER"
    /\ local' = "OFFER" /\ UNCHANGED remote

RemoteOffer ==
    /\ state = "STABLE" /\ state' = "HAVE_REMOTE_OFFER"
    /\ remote' = "OFFER" /\ UNCHANGED local

\* The answer of the other side closes it.
LocalAnswer ==
    /\ state = "HAVE_REMOTE_OFFER" /\ state' = "STABLE"
    /\ local' = "ANSWER" /\ UNCHANGED remote

RemoteAnswer ==
    /\ state = "HAVE_LOCAL_OFFER" /\ state' = "STABLE"
    /\ remote' = "ANSWER" /\ UNCHANGED local

Next == LocalOffer \/ RemoteOffer \/ LocalAnswer \/ RemoteAnswer

Spec == Init /\ [][Next]_vars

=============================================================================

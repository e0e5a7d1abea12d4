-------------------------- MODULE PeerConnection ---------------------------
(***************************************************************************)
(* PeerConnection (pc/) with the state machines of its transports: the     *)
(* closures of its signaling, network and worker queues and of the         *)
(* application's thread, in every order.                                   *)
(*                                                                         *)
(* A closure is one step, except where it Invokes another queue: there the *)
(* thread is blocked until the other queue has run the invoked closure,    *)
(* and continues in a second step.  The ICE agent, the DTLS peer and the   *)
(* SCTP stack are external: they post events to the network queue.         *)
(* Closures for transport states that the delegates ignore do nothing and  *)
(* are left out.  The data channels themselves are in DataChannel; here    *)
(* they have a stream id only.  Candidates all resolve.                    *)
(***************************************************************************)
EXTENDS Naturals, Sequences, FiniteSets

CONSTANTS
    Mids,           \* mids of the tracks the application may add
    RemoteDescriptions, \* what the peer may send: records as Remote makes them
    AutoNegotiation,\* rtc_config_.auto_negotiation
    RacingAdd,      \* may the application add channels while a description is processed?
    FastFlaps,      \* may the agent connect again while a DTLS transport is being made?
    MaxCalls,       \* bound on calls of the application
    MaxEvents,      \* bound on events of the ICE agent, the peer and the SCTP stack
    MaxPending,     \* closures that may wait on the network queue when an event comes
    MaxChannels

\* sdp::Role has three values.
ASSUME RolesAssumption ==
    \A d \in RemoteDescriptions : d.role \in {"ACT_PASS", "PASSIVE", "ACTIVE"}

\* The m-lines of a description are a list.
ASSUME MediaAssumption == \A d \in RemoteDescriptions : Len(d.media) \in Nat

\* The bound on the channels is a number.
ASSUME ChannelsAssumption == MaxChannels \in Nat

VARIABLES
    queue,      \* closures waiting on the three task queues
    blocked,    \* the closure (or call) whose thread waits inside Invoke
    reply,      \* what the invoked closure has returned, once it has run
    pc,         \* members of PeerConnection guarded by the signaling queue
    tr,         \* the transports, used on the network queue
    streams,    \* mids that have streams in call_, worker queue
    calls, events,
    agent,      \* the ICE agent's own state, and how often it has connected
    failed      \* history: the assertion or dangling pointer the process died of

vars == <<queue, blocked, reply, pc, tr, streams, calls, events, agent, failed>>

Queues == {"sig", "net", "wrk"}
Threads == Queues \cup {"app"}
Idle == [op |-> "idle"]
NoReply == "none"
None == [type |-> "none"]

\* A description of the peer: with an application m-line or not, the mids of its tracks,
\* the certificate it announces (the peer's own is "peer") and its DTLS role.
Remote(type, app, media, fingerprint, role) ==
    [type |-> type, app |-> app, media |-> media, fingerprint |-> fingerprint, role |-> role]

Item(op) == [op |-> op]
ItemOf(op, arg) == [op |-> op, arg |-> arg]
InvokeOf(op, from) == [op |-> op, from |-> from]

Init ==
    /\ queue = [q \in Queues |-> IF q = "sig" THEN <<Item("initIce")>> ELSE <<>>]
    /\ blocked = [t \in Threads |-> Idle]
    /\ reply = [t \in Threads |-> NoReply]
    /\ pc = [connection |-> "CLOSED", gathering |-> "NEW", signaling |-> "STABLE",
             negotiation_needed |-> FALSE, data_channel_needed |-> FALSE,
             local_sdp |-> None, remote_sdp |-> None, remote_candidates |-> 0,
             media_tracks |-> {}, opened |-> {},
             data_channels |-> {}, closed |-> {}, stream_id |-> <<>>]
    /\ tr = [ice |-> "none", role |-> "ACT_PASS", gathering |-> "NEW", trickle |-> FALSE,
             timer |-> "off", dtls |-> "none", dtls_made |-> 0, verified |-> FALSE,
             sctp |-> "none", sctp_made |-> 0]
    /\ streams = {} /\ calls = 0 /\ events = 0
    /\ agent = [state |-> "DISCONNECTED", connects |-> 0] /\ failed = "no"

-----------------------------------------------------------------------------
(* Handlers of the signaling queue: from [pc, net, wrk] to the same, where  *)
(* net and wrk collect what is posted, with the outcome in "ends".          *)

Begin == [pc |-> pc, net |-> <<>>, wrk |-> <<>>, ends |-> "return"]
Ends(h, how) == [h EXCEPT !.ends = how]
Throw(h) == Ends(h, "throw")
PostNet(h, i) == [h EXCEPT !.net = Append(@, i)]

UpdateConnectionState(h, state) == [h EXCEPT !.pc.connection = state]

\* SetLocalDescription up to its Invoke of the network queue.
SetLocalDescription(h, type) ==
    LET s == h.pc
        unneeded == type = "OFFER" /\ s.local_sdp # None /\ ~s.negotiation_needed
        reset == IF type = "OFFER" THEN [h EXCEPT !.pc.negotiation_needed = FALSE] ELSE h
    IN  IF s.connection = "CONNECTED" THEN Throw(h)
        ELSE IF unneeded THEN h
        ELSE IF s.signaling = "STABLE"
             THEN IF type = "OFFER" THEN Ends(reset, "invoke") ELSE Throw(reset)
        ELSE IF s.signaling = "HAVE_REMOTE_OFFER"
             THEN IF type = "ANSWER" THEN Ends(reset, "invoke") ELSE Throw(reset)
        ELSE reset

\* OnNegotiatedMediaTrack for the m-lines of a description, in their order: the closure
\* it posts holds the local description of that moment, which ProcessLocalDescription has
\* not yet replaced.  OnIncomingMediaTrack hands its track over and returns a null pointer.
Problem(s, mid) ==
    IF mid \notin s.media_tracks THEN "assert(media_track != nullptr)"
    ELSE IF s.local_sdp = None THEN "throw" ELSE "return"

OnNegotiatedMediaTracks(h, mids) ==
    LET bad == {i \in 1..Len(mids) : Problem(h.pc, mids[i]) # "return"}
        upto == IF bad = {} THEN Len(mids) ELSE (CHOOSE i \in bad : \A j \in bad : i <= j) - 1
        item(mid) == [op |-> "negotiated", arg |-> mid, described |-> mid \in h.pc.local_sdp.mids]
        posted == [h EXCEPT !.wrk = @ \o [i \in 1..upto |-> item(mids[i])]]
    IN  IF bad = {} THEN posted
        ELSE Ends([posted EXCEPT !.pc.media_tracks = @ \cup {mids[upto + 1]}],
                 Problem(h.pc, mids[upto + 1]))

\* ProcessLocalDescription and the rest of SetLocalDescription.
FinishLocalDescription(h, type) ==
    LET remote == h.pc.remote_sdp
        n == IF remote = None THEN h ELSE OnNegotiatedMediaTracks(h, remote.media)
        s == n.pc
        app == \/ remote # None /\ remote.app
               \/ type = "OFFER" /\ s.data_channel_needed
        mids == (IF remote = None THEN {} ELSE {remote.media[i] : i \in DOMAIN remote.media})
                \cup (IF type = "OFFER" THEN s.media_tracks ELSE {})
        gather == IF s.gathering = "NEW" THEN PostNet(n, Item("gather")) ELSE n
    IN  IF n.ends # "return" THEN n
        ELSE [gather EXCEPT
                !.pc.local_sdp = [type |-> type, app |-> app, mids |-> mids],
                !.pc.signaling = IF @ = "STABLE" THEN "HAVE_LOCAL_OFFER" ELSE "STABLE"]

\* ProcessRemoteCandidates.
ProcessRemoteCandidates(h) ==
    [h EXCEPT !.net = @ \o [i \in 1..h.pc.remote_candidates |-> Item("addCandidate")],
              !.pc.remote_candidates = 0]

\* Mutant: an offer is accepted while a local offer is pending.
SetRemoteAnyOffer(h, d) ==
    IF h.pc.connection = "CONNECTED" \/ d.type # "OFFER" THEN Throw(h)
    ELSE [PostNet(h, ItemOf("setRemote", d.role)) EXCEPT
            !.pc.remote_sdp = d, !.pc.signaling = "HAVE_REMOTE_OFFER"]

\* SetRemoteDescription up to the answer it may create.
SetRemoteDescription(h, d) ==
    LET s == h.pc
        posted == [PostNet(h, ItemOf("setRemote", d.role)) EXCEPT !.pc.remote_sdp = d]
        tracks == IF d.type = "ANSWER" THEN OnNegotiatedMediaTracks(posted, d.media) ELSE posted
        done == [tracks EXCEPT !.pc.signaling =
                    IF @ = "STABLE" THEN "HAVE_REMOTE_OFFER" ELSE "STABLE"]
    IN  IF s.connection = "CONNECTED" THEN Throw(h)
        ELSE IF ~d.app /\ d.media = <<>> THEN Throw(h)                  \* ValidRemoteDescription
        ELSE IF <<s.signaling, d.type>> \notin
                {<<"STABLE", "OFFER">>, <<"HAVE_LOCAL_OFFER", "ANSWER">>} THEN Throw(h)
        ELSE IF tracks.ends # "return" THEN tracks
        ELSE IF d.type = "OFFER" /\ AutoNegotiation THEN SetLocalDescription(done, "ANSWER")
        ELSE ProcessRemoteCandidates(done)

\* Mutant: a reconnection makes another transport.
InitDtlsAgain(h) ==
    IF tr.ice = "none" \/ h.pc.local_sdp = None THEN h ELSE PostNet(h, Item("newDtls"))

\* InitDtlsTransport and InitSctpTransport: they look at pointers that closures of the
\* network queue assign.
InitDtlsTransport(h) ==
    IF tr.dtls # "none" THEN h
    ELSE IF tr.ice = "none" THEN Ends(h, "assert(ice_transport_)")
    ELSE IF h.pc.local_sdp = None THEN Ends(h, "local_sdp_ without value")
    ELSE PostNet(h, Item("newDtls"))

InitSctpTransport(h) ==
    IF tr.sctp # "none" THEN h
    ELSE IF tr.dtls = "none" THEN Ends(h, "assert(dtls_transport_)")
    ELSE PostNet(h, Item("newSctp"))

\* CloseDataChannels and RemoteCloseDataChannels: both forget the channels.
CloseDataChannels(h) ==
    [h EXCEPT !.pc.closed = @ \cup h.pc.data_channels, !.pc.data_channels = {}]

CloseMediaTracks(h) == [h EXCEPT !.pc.opened = {}, !.pc.media_tracks = {}]

-----------------------------------------------------------------------------
(* The signaling queue.                                                     *)

Ready(q) == failed = "no" /\ blocked[q] = Idle /\ queue[q] # <<>>
First(q) == Head(queue[q])

\* The closure ends with what its handler h left behind: it returns or throws (the
\* exception goes to on_failure), it dies, or it waits for the network queue (h.ends is
\* "invoke": it asks op there, and goes on as the closure rest).
Survives(h) == h.ends \in {"return", "throw", "invoke"}
Finish(h, rest, op, taken) ==
    /\ pc' = IF Survives(h) THEN h.pc ELSE pc
    /\ queue' = [taken EXCEPT
            !["net"] = @ \o h.net \o (IF h.ends = "invoke" THEN <<InvokeOf(op, "sig")>> ELSE <<>>),
            !["wrk"] = @ \o h.wrk]
    /\ blocked' = [blocked EXCEPT !["sig"] = IF h.ends = "invoke" THEN rest ELSE Idle]
    /\ failed' = IF Survives(h) THEN failed ELSE h.ends
    /\ UNCHANGED <<tr, streams, calls, events, agent>>

Taken(q) == [queue EXCEPT ![q] = Tail(@)]

\* A closure without an Invoke inside.
Simple(h) == Finish(h, Idle, "", Taken("sig")) /\ UNCHANGED reply

\* The constructor's closure.
InitIceTransport ==
    /\ First("sig").op = "initIce"
    /\ Simple(IF tr.ice # "none" THEN Begin ELSE PostNet(Begin, Item("newIce")))

CreateOffer ==
    /\ First("sig").op = "createOffer"
    /\ LET h == IF pc.signaling = "HAVE_REMOTE_OFFER" THEN Begin
                ELSE SetLocalDescription(Begin, "OFFER")
       IN  Finish(h, ItemOf("finishLocal", "OFFER"), "localDescription", Taken("sig"))
    /\ UNCHANGED reply

CreateAnswer ==
    /\ First("sig").op = "createAnswer"
    /\ LET h == IF pc.signaling # "HAVE_REMOTE_OFFER" THEN Begin
                ELSE SetLocalDescription(Begin, "ANSWER")
       IN  Finish(h, ItemOf("finishLocal", "ANSWER"), "localDescription", Taken("sig"))
    /\ UNCHANGED reply

SetRemote ==
    /\ First("sig").op = "setRemoteDescription"
    /\ Finish(SetRemoteDescription(Begin, First("sig").arg), Item("finishAuto"),
              "localDescription", Taken("sig"))
    /\ UNCHANGED reply

AddRemoteCandidate ==
    /\ First("sig").op = "candidate"
    /\ LET h == [Begin EXCEPT !.pc.remote_candidates = @ + 1]
       IN  Simple(IF pc.remote_sdp # None /\ pc.connection # "CONNECTED"
                  THEN ProcessRemoteCandidates(h) ELSE h)

\* SetLocalDescription goes on when the network queue has answered.
ResumeLocalDescription ==
    /\ failed = "no" /\ reply["sig"] # NoReply
    /\ blocked["sig"].op \in {"finishLocal", "finishAuto"}
    /\ LET auto == blocked["sig"].op = "finishAuto"
           h == FinishLocalDescription(Begin, IF auto THEN "ANSWER" ELSE blocked["sig"].arg)
       IN  Finish(IF auto /\ h.ends = "return" THEN ProcessRemoteCandidates(h) ELSE h,
                  Idle, "", queue)
    /\ reply' = [reply EXCEPT !["sig"] = NoReply]

\* Answer the application's Invoke.
Answer(t) == reply' = [reply EXCEPT ![t] = "yes"]

AddMediaTrack ==
    /\ First("sig").op = "addTrack"
    /\ LET mid == First("sig").arg
       IN  Finish(IF mid \in pc.media_tracks THEN Begin
                  ELSE [Begin EXCEPT !.pc.media_tracks = @ \cup {mid}, !.pc.negotiation_needed = TRUE],
                  Idle, "", Taken("sig"))
    /\ Answer("app")

\* AddDataChannel asks the network queue for the role first, and later whether the association is up.
AddDataChannel ==
    /\ First("sig").op = "addChannel"
    /\ Finish([Begin EXCEPT !.ends = "invoke"], Item("addChannelRole"), "role", Taken("sig"))
    /\ UNCHANGED reply

\* Mutant: no look at the ids in use.
FirstStreamId(base) == base

FreeStreamId(base) ==
    LET ids == {pc.stream_id[c] : c \in pc.data_channels}
    IN  CHOOSE i \in {base + 2 * k : k \in 0..MaxChannels} :
            i \notin ids /\ \A k \in 0..MaxChannels : base + 2 * k < i => base + 2 * k \in ids

ResumeAddDataChannel ==
    /\ failed = "no" /\ reply["sig"] # NoReply /\ blocked["sig"].op = "addChannelRole"
    /\ LET c == Len(pc.stream_id) + 1
           id == FreeStreamId(IF reply["sig"] = "ACTIVE" THEN 0 ELSE 1)
           h == [Begin EXCEPT !.ends = "invoke",
                    !.pc.stream_id = Append(@, id), !.pc.data_channels = @ \cup {c},
                    !.pc.data_channel_needed = TRUE,
                    !.pc.negotiation_needed =
                        @ \/ pc.local_sdp = None \/ ~pc.local_sdp.app]
       IN  Finish(h, Item("addChannelOpen"), "sctpConnected", queue)
    /\ reply' = [reply EXCEPT !["sig"] = NoReply]

ResumeAddDataChannelOpen ==
    /\ failed = "no" /\ reply["sig"] # NoReply /\ blocked["sig"].op = "addChannelOpen"
    /\ Finish(Begin, Idle, "", queue)
    /\ reply' = [reply EXCEPT !["sig"] = NoReply, !["app"] = "yes"]

\* OnRoleChanged: as DTLS client the ids become even; the map keeps one channel per id.
ShiftDataChannels ==
    /\ First("sig").op = "role"
    /\ LET shifted(c) == IF c \in pc.data_channels /\ pc.stream_id[c] % 2 = 1
                         THEN pc.stream_id[c] - 1 ELSE pc.stream_id[c]
           ids == [c \in DOMAIN pc.stream_id |-> shifted(c)]
           kept == {c \in pc.data_channels : \A d \in pc.data_channels : ids[d] = ids[c] => c <= d}
       IN  Simple(IF First("sig").arg # "ACTIVE" THEN Begin
                  ELSE [Begin EXCEPT !.pc.stream_id = ids, !.pc.data_channels = kept])

OnIceTransportStateChanged ==
    /\ First("sig").op = "iceState"
    /\ LET state == First("sig").arg
       IN  Simple(IF state = "CONNECTED" THEN InitDtlsTransport(Begin)
                  ELSE UpdateConnectionState(Begin, state))

OnGatheringStateChanged ==
    /\ First("sig").op = "gathering"
    /\ Simple([Begin EXCEPT !.pc.gathering = First("sig").arg])

\* Mutant: without SCTP nobody reports the connection.
OnDtlsStateSilent ==
    /\ First("sig").op = "dtlsState"
    /\ Simple(IF First("sig").arg # "CONNECTED"
              THEN CloseMediaTracks(UpdateConnectionState(Begin, First("sig").arg))
              ELSE LET up == IF pc.remote_sdp.app THEN InitSctpTransport(Begin) ELSE Begin
                   IN  [up EXCEPT !.pc.opened = @ \cup pc.media_tracks])

OnDtlsTransportStateChanged ==
    /\ First("sig").op = "dtlsState"
    /\ LET state == First("sig").arg
           up == IF pc.remote_sdp # None /\ pc.remote_sdp.app THEN InitSctpTransport(Begin)
                 ELSE UpdateConnectionState(Begin, "CONNECTED")
       IN  Simple(IF state = "CONNECTED" THEN [up EXCEPT !.pc.opened = @ \cup pc.media_tracks]
                  ELSE CloseMediaTracks(UpdateConnectionState(Begin, state)))

OnSctpTransportStateChanged ==
    /\ First("sig").op = "sctpState"
    /\ LET h == UpdateConnectionState(Begin, First("sig").arg)
       IN  Simple(IF First("sig").arg = "CONNECTED" THEN h ELSE CloseDataChannels(h))

\* OnDtlsVerify's closure, Invoked by the network queue.
OnDtlsVerify ==
    /\ First("sig").op = "verify"
    /\ Finish(Begin, Idle, "", Taken("sig"))
    /\ reply' = [reply EXCEPT !["net"] =
            IF pc.remote_sdp # None /\ pc.remote_sdp.fingerprint = "peer" THEN "yes" ELSE "no"]

\* The signaling part of Close.
CloseSignaling ==
    /\ First("sig").op = "close"
    /\ Finish(CloseDataChannels(CloseMediaTracks([Begin EXCEPT
                    !.pc.negotiation_needed = FALSE, !.pc.data_channel_needed = FALSE])),
              Idle, "", Taken("sig"))
    /\ Answer("app")

Signaling ==
    \/ /\ Ready("sig")
       /\ \/ InitIceTransport \/ CreateOffer \/ CreateAnswer \/ SetRemote \/ AddRemoteCandidate
          \/ AddMediaTrack \/ AddDataChannel \/ ShiftDataChannels
          \/ OnIceTransportStateChanged \/ OnGatheringStateChanged
          \/ OnDtlsTransportStateChanged \/ OnSctpTransportStateChanged
          \/ OnDtlsVerify \/ CloseSignaling
    \/ ResumeLocalDescription \/ ResumeAddDataChannel \/ ResumeAddDataChannelOpen

-----------------------------------------------------------------------------
(* The network queue.                                                       *)

\* The first closure of the network queue leaves the transports in state t and posts
\* to the signaling queue.
NetDone(t, posts) ==
    /\ tr' = t /\ queue' = [Taken("net") EXCEPT !["sig"] = @ \o posts]
    /\ UNCHANGED <<blocked, pc, streams, calls, events, agent>>

\* The closure uses ice_transport_, which must exist.
NetFails(why) == failed' = why /\ NetDone(tr, <<>>)
WithIce(A) == IF tr.ice = "none" THEN NetFails("null ice_transport_") ELSE failed' = failed /\ A

NewIceTransport ==
    /\ First("net").op = "newIce"
    /\ NetDone([tr EXCEPT !.ice = "DISCONNECTED"], <<>>)
    /\ UNCHANGED <<reply, failed>>

\* The closures the signaling queue Invokes.
Query ==
    /\ First("net").op \in {"localDescription", "role", "sctpConnected"}
    /\ IF First("net").op = "sctpConnected" THEN failed' = failed /\ NetDone(tr, <<>>)
       ELSE WithIce(NetDone(tr, <<>>))
    /\ reply' = [reply EXCEPT !["sig"] =
            IF First("net").op = "role" THEN tr.role
            ELSE IF First("net").op = "sctpConnected" /\ tr.sctp # "CONNECTED" THEN "no" ELSE "yes"]

Gather ==
    /\ First("net").op = "gather"
    /\ WithIce(NetDone([tr EXCEPT !.gathering = "GATHERING"],
            IF tr.gathering = "GATHERING" THEN <<>> ELSE <<ItemOf("gathering", "GATHERING")>>))
    /\ UNCHANGED reply

\* Mutant: every description negotiates the role again.
SetRemoteIceAgain ==
    /\ First("net").op = "setRemote"
    /\ LET role == IF First("net").arg = "ACTIVE" THEN "PASSIVE" ELSE "ACTIVE"
       IN  IF tr.ice # "none" /\ tr.sctp # "none" THEN NetFails("assert(sctp_transport_ == nullptr)")
           ELSE WithIce(NetDone([tr EXCEPT !.role = role, !.trickle = TRUE], <<ItemOf("role", role)>>))
    /\ UNCHANGED reply

\* IceTransport::SetRemoteDescription with NegotiateRole; incompatible roles throw.
SetRemoteIce ==
    /\ First("net").op = "setRemote"
    /\ LET theirs == First("net").arg
           changes == tr.role = "ACT_PASS"
           role == IF ~changes THEN tr.role
                   ELSE IF theirs = "ACTIVE" THEN "PASSIVE" ELSE "ACTIVE"
       IN  IF changes /\ tr.ice # "none" /\ tr.sctp # "none" THEN NetFails("assert(sctp_transport_ == nullptr)")
           ELSE WithIce(NetDone([tr EXCEPT !.role = role, !.trickle = @ \/ role # theirs],
                                IF changes THEN <<ItemOf("role", role)>> ELSE <<>>))
    /\ UNCHANGED reply

AddIceCandidate ==
    /\ First("net").op = "addCandidate"
    /\ WithIce(NetDone(tr, <<>>)) /\ UNCHANGED reply

\* BaseTransport::UpdateState reports a change to the delegate.
Reported(old, new, op) == IF old = new THEN <<>> ELSE <<ItemOf(op, new)>>

\* A closure the agent's thread posted with a pointer to the transport in it.
OfIce(A) == IF tr.ice = "none" THEN NetFails("freed IceTransport") ELSE failed' = failed /\ A

\* IceTransport::OnNiceState and OnNiceTimeout: a failure is held back while candidates trickle.
OnIceEvent ==
    /\ First("net").op = "iceEvent"
    /\ LET state == First("net").arg
           timer == IF state \in {"CONNECTED", "timeout"} THEN "off" ELSE tr.timer
           to == IF state = "timeout" THEN "FAILED" ELSE state
       IN  IF state = "FAILED" /\ tr.trickle THEN OfIce(NetDone([tr EXCEPT !.timer = "armed"], <<>>))
           ELSE OfIce(NetDone([tr EXCEPT !.timer = timer, !.ice = to],
                        IF to = "COMPLETED" THEN <<>> ELSE Reported(tr.ice, to, "iceState")))
    /\ UNCHANGED reply

OnGatheringDone ==
    /\ First("net").op = "gatheringDone"
    /\ OfIce(NetDone([tr EXCEPT !.gathering = "COMPLETED"], Reported(tr.gathering, "COMPLETED", "gathering")))
    /\ UNCHANGED reply

NewDtlsTransport ==
    /\ First("net").op = "newDtls"
    /\ WithIce(NetDone([tr EXCEPT !.dtls = "CONNECTING", !.dtls_made = @ + 1, !.verified = FALSE], <<>>))
    /\ UNCHANGED reply

\* DtlsTransport::Incoming with a handshake packet: it brings the certificate, which is
\* verified on the signaling queue; or it finishes the handshake, or shows a timeout, or neither.
OnHandshakePacket ==
    /\ First("net").op = "packet"
    /\ \/ OfIce(NetDone(tr, <<>>))
       \/ /\ tr.dtls = "CONNECTING" /\ ~tr.verified
          /\ blocked' = [blocked EXCEPT !["net"] = Item("handshake")]
          /\ queue' = [Taken("net") EXCEPT !["sig"] = Append(@, InvokeOf("verify", "net"))]
          /\ UNCHANGED <<pc, tr, streams, calls, events, agent, failed>>
       \/ /\ tr.dtls = "CONNECTING" /\ tr.verified
          /\ NetDone([tr EXCEPT !.dtls = "CONNECTED"], <<ItemOf("dtlsState", "CONNECTED")>>)
          /\ UNCHANGED failed
       \/ /\ tr.dtls = "CONNECTING"
          /\ NetDone([tr EXCEPT !.dtls = "FAILED"], <<ItemOf("dtlsState", "FAILED")>>)
          /\ UNCHANGED failed
    /\ UNCHANGED reply

\* Mutant: the result of the verification is not looked at.
ResumeHandshakeAnyway ==
    /\ failed = "no" /\ blocked["net"].op = "handshake" /\ reply["net"] # NoReply
    /\ tr' = [tr EXCEPT !.verified = reply["net"] = "yes", !.dtls = "CONNECTED"]
    /\ queue' = [queue EXCEPT !["sig"] = Append(@, ItemOf("dtlsState", "CONNECTED"))]
    /\ blocked' = [blocked EXCEPT !["net"] = Idle] /\ reply' = [reply EXCEPT !["net"] = NoReply]
    /\ UNCHANGED <<pc, streams, calls, events, agent, failed>>

\* The handshake goes on: a rejected certificate makes SSL_do_handshake fail and check throw.
ResumeHandshake ==
    /\ failed = "no" /\ blocked["net"].op = "handshake" /\ reply["net"] # NoReply
    /\ \/ tr' = [tr EXCEPT !.verified = reply["net"] = "yes"] /\ UNCHANGED queue
       \/ /\ reply["net"] = "yes"
          /\ tr' = [tr EXCEPT !.verified = TRUE, !.dtls = "CONNECTED"]
          /\ queue' = [queue EXCEPT !["sig"] = Append(@, ItemOf("dtlsState", "CONNECTED"))]
    /\ blocked' = [blocked EXCEPT !["net"] = Idle] /\ reply' = [reply EXCEPT !["net"] = NoReply]
    /\ UNCHANGED <<pc, streams, calls, events, agent, failed>>

NewSctpTransport ==
    /\ First("net").op = "newSctp"
    /\ NetDone([tr EXCEPT !.sctp = "CONNECTING", !.sctp_made = @ + 1], <<>>)
    /\ UNCHANGED <<reply, failed>>

\* SCTP_ASSOC_CHANGE: the test for a failed set-up compares State(), a default value, so that
\* the loss of the association is DISCONNECTED in every state.
OnSctpEvent ==
    /\ First("net").op = "sctpEvent"
    /\ IF tr.sctp = "none" THEN NetDone(tr, <<>>)
       ELSE NetDone([tr EXCEPT !.sctp = First("net").arg],
                    Reported(tr.sctp, First("net").arg, "sctpState"))
    /\ UNCHANGED <<reply, failed>>

\* Mutant: closing again after the transports are gone is not answered.
CloseTransportsOnce ==
    /\ First("net").op = "closeTransports" /\ tr.ice # "none"
    /\ NetDone([tr EXCEPT !.ice = "none", !.dtls = "none", !.sctp = "none", !.timer = "off"], <<>>)
    /\ Answer("app") /\ UNCHANGED failed

CloseTransports ==
    /\ First("net").op = "closeTransports"
    /\ NetDone([tr EXCEPT !.ice = "none", !.dtls = "none", !.sctp = "none", !.timer = "off"],
               (IF tr.sctp \in {"none", "DISCONNECTED"} THEN <<>> ELSE <<ItemOf("sctpState", "DISCONNECTED")>>)
               \o (IF tr.dtls = "none" THEN <<>> ELSE <<ItemOf("dtlsState", "DISCONNECTED")>>))
    /\ Answer("app") /\ UNCHANGED failed

Network ==
    \/ /\ Ready("net")
       /\ \/ NewIceTransport \/ Query \/ Gather \/ SetRemoteIce \/ AddIceCandidate \/ OnIceEvent
          \/ NewDtlsTransport \/ OnHandshakePacket \/ NewSctpTransport \/ OnSctpEvent
          \/ OnGatheringDone \/ CloseTransports
    \/ ResumeHandshake

-----------------------------------------------------------------------------
(* The worker queue, the application and the outside world.                 *)

\* MediaTrack::OnNegotiated looks its mid up in the local description it was given.
OnNegotiated ==
    /\ First("wrk").op = "negotiated"
    /\ streams' = streams \cup {First("wrk").arg}
    /\ failed' = IF First("wrk").described THEN failed ELSE "null local_media"
    /\ UNCHANGED reply

ClearCall == First("wrk").op = "clear" /\ streams' = {} /\ Answer("app") /\ UNCHANGED failed

Worker ==
    /\ Ready("wrk") /\ queue' = Taken("wrk")
    /\ OnNegotiated \/ ClearCall
    /\ UNCHANGED <<blocked, pc, tr, calls, events, agent>>

\* The application's thread calls while it is not inside an Invoke, and no more after Close.
Closing == blocked["app"].op \in {"close1", "close2", "close3", "closed"}
MayCall == failed = "no" /\ blocked["app"] = Idle /\ calls < MaxCalls

Call(q, item, wait) ==
    /\ MayCall /\ calls' = calls + 1
    /\ queue' = [queue EXCEPT ![q] = Append(@, item)]
    /\ blocked' = [blocked EXCEPT !["app"] = wait]
    /\ UNCHANGED <<reply, pc, tr, streams, events, agent, failed>>

\* A description is on its way from SetOffer or SetAnswer to the role of the channels.
DescriptionUnderWay ==
    \/ \E i \in DOMAIN queue["sig"] : queue["sig"][i].op \in {"setRemoteDescription", "role"}
    \/ \E i \in DOMAIN queue["net"] : queue["net"][i].op = "setRemote"

\* A peer answers a description it was sent, with tracks from it.
Answers(d) == pc.local_sdp # None /\ \A i \in DOMAIN d.media : d.media[i] \in pc.local_sdp.mids

Application ==
    \/ \E op \in {"createOffer", "createAnswer", "candidate"} : Call("sig", Item(op), Idle)
    \/ \E d \in RemoteDescriptions :
        /\ d.type = "ANSWER" => Answers(d)
        /\ Call("sig", ItemOf("setRemoteDescription", d), Idle)
    \/ \E mid \in Mids : Call("sig", ItemOf("addTrack", mid), Item("call"))
    \/ /\ Len(pc.stream_id) < MaxChannels /\ (RacingAdd \/ ~DescriptionUnderWay)
       /\ Call("sig", Item("addChannel"), Item("call"))
    \/ Call("wrk", Item("clear"), Item("close1"))

\* An Invoke of the application returns; Close goes on to the next queue.
Returns ==
    /\ failed = "no" /\ reply["app"] # NoReply
    /\ reply' = [reply EXCEPT !["app"] = NoReply]
    /\ \/ /\ blocked["app"].op = "call"
          /\ blocked' = [blocked EXCEPT !["app"] = Idle] /\ UNCHANGED queue
       \/ /\ blocked["app"].op = "close1"
          /\ blocked' = [blocked EXCEPT !["app"] = Item("close2")]
          /\ queue' = [queue EXCEPT !["net"] = Append(@, Item("closeTransports"))]
       \/ /\ blocked["app"].op = "close2"
          /\ blocked' = [blocked EXCEPT !["app"] = Item("close3")]
          /\ queue' = [queue EXCEPT !["sig"] = Append(@, Item("close"))]
       \/ /\ blocked["app"].op = "close3"
          /\ blocked' = [blocked EXCEPT !["app"] = Item("closed")] /\ UNCHANGED queue
    /\ UNCHANGED <<pc, tr, streams, calls, events, agent, failed>>

\* What the threads of the libraries post to the network queue.
Event(item) ==
    /\ failed = "no" /\ tr.ice # "none" /\ events < MaxEvents /\ events' = events + 1
    /\ Len(queue["net"]) < MaxPending
    /\ queue' = [queue EXCEPT !["net"] = Append(@, item)]
    /\ UNCHANGED <<blocked, reply, pc, streams, calls, failed>>

AgentSteps ==
    {<<"DISCONNECTED", "CONNECTING">>, <<"FAILED", "CONNECTING">>, <<"CONNECTING", "CONNECTED">>,
     <<"CONNECTING", "FAILED">>, <<"CONNECTED", "COMPLETED">>, <<"CONNECTED", "DISCONNECTED">>,
     <<"CONNECTED", "FAILED">>, <<"COMPLETED", "CONNECTED">>, <<"COMPLETED", "DISCONNECTED">>}

DtlsUnderWay ==
    \/ \E i \in DOMAIN queue["sig"] : queue["sig"][i].op = "iceState" /\ queue["sig"][i].arg = "CONNECTED"
    \/ \E i \in DOMAIN queue["net"] :
        \/ queue["net"][i].op = "newDtls"
        \/ queue["net"][i].op = "iceEvent" /\ queue["net"][i].arg = "CONNECTED"

World ==
    \/ \E s \in AgentSteps :
        /\ tr.gathering # "NEW" /\ tr.trickle /\ agent.state = s[1]
        /\ s[2] = "CONNECTED" => FastFlaps \/ ~DtlsUnderWay
        /\ agent' = [state |-> s[2], connects |-> agent.connects + (IF s[2] = "CONNECTED" THEN 1 ELSE 0)]
        /\ Event(ItemOf("iceEvent", s[2])) /\ UNCHANGED tr
    \/ /\ tr.timer = "armed" /\ tr' = [tr EXCEPT !.timer = "fired"]
       /\ Event(ItemOf("iceEvent", "timeout")) /\ UNCHANGED agent
    \/ /\ tr.gathering = "GATHERING" /\ Event(Item("gatheringDone")) /\ UNCHANGED <<tr, agent>>
    \/ /\ tr.dtls = "CONNECTING" /\ Event(Item("packet")) /\ UNCHANGED <<tr, agent>>
    \/ /\ tr.sctp = "CONNECTING" /\ tr.dtls = "CONNECTED"
       /\ Event(ItemOf("sctpEvent", "CONNECTED")) /\ UNCHANGED <<tr, agent>>
    \/ /\ tr.sctp \in {"CONNECTING", "CONNECTED"}
       /\ Event(ItemOf("sctpEvent", "DISCONNECTED")) /\ UNCHANGED <<tr, agent>>

Next == Signaling \/ Network \/ Worker \/ Application \/ Returns \/ World

Spec == Init /\ [][Next]_vars

\* The threads of the queues run while there is work, and the application's thread
\* continues when its Invoke has been answered.
FairSpec ==
    Spec /\ WF_vars(Signaling) /\ WF_vars(Network) /\ WF_vars(Worker) /\ WF_vars(Returns)

-----------------------------------------------------------------------------
(* Properties.                                                              *)

\* Both queues wait for each other.
InvokeCycle ==
    /\ blocked["sig"] # Idle /\ reply["sig"] = NoReply
    /\ blocked["net"] # Idle /\ reply["net"] = NoReply

\* Two defects of the negotiation of tracks, which every run meets: the closure for a track
\* the application has not added dies because OnIncomingMediaTrack returns a moved-from
\* pointer, and the one for a track added since the last local description looks it up in
\* that description.
TrackDefects == {"assert(media_track != nullptr)", "null local_media"}

\* Apart from these, no assertion of the closures fails and no transport is used that is
\* not there, before the application closes the connection.
AssertsHold == failed = "no" \/ failed \in TrackDefects \/ Closing

\* The connection is reported as connected only when the peer's certificate matched the
\* fingerprint of its description.
ConnectedIsVerified == pc.connection = "CONNECTED" => tr.verified

\* A second DTLS or SCTP transport never replaces one that others point to, although the
\* threads that decide and that assign differ.
CreatedOnce == Closing \/ (tr.dtls_made <= 1 /\ tr.sctp_made <= 1)

\* When all transports are up for the first time and no closure is left, the application
\* has been told.
Quiet == \A q \in Queues : queue[q] = <<>> /\ blocked[q] = Idle
ReportsConnected ==
    (/\ Quiet /\ agent.connects = 1 /\ tr.ice \in {"CONNECTED", "COMPLETED"} /\ tr.dtls = "CONNECTED"
     /\ tr.sctp \in {"none", "CONNECTED"})
    => pc.connection = "CONNECTED"

\* Data channels that were not told to close have distinct stream ids, whatever the order
\* of AddDataChannel and of the closures that settle the DTLS role.
StreamIdsDistinct ==
    \A c, d \in DOMAIN pc.stream_id \ pc.closed : pc.stream_id[c] = pc.stream_id[d] => c = d

\* Close returns, unless the signaling and the network queue have Invoked each other.
CloseReturns ==
    Closing ~> (blocked["app"].op = "closed" \/ failed # "no" \/ InvokeCycle)

\* Every history of descriptions and signaling states is one of the offer/answer exchange.
Negotiation == INSTANCE OfferAnswer WITH
    state <- pc.signaling, local <- pc.local_sdp.type, remote <- pc.remote_sdp.type
ImplementsOfferAnswer == Negotiation!Spec

=============================================================================

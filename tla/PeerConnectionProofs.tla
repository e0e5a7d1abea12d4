----------------------- MODULE PeerConnectionProofs ------------------------
(***************************************************************************)
(* Proofs about PeerConnection, for every set of tracks and descriptions,   *)
(* every configuration and every bound: the signaling queue implements the  *)
(* offer/answer exchange of OfferAnswer, the transports are made once and   *)
(* in order, a peer is reported as connected once it is verified, open data *)
(* channels have distinct stream ids, and the first connection is reported. *)
(***************************************************************************)
EXTENDS PeerConnection, SequenceTheorems, FiniteSetTheorems, WellFoundedInduction, TLAPS

-----------------------------------------------------------------------------
(* Types.  The closures in the queues, as far as the proofs look at them.    *)

Roles == {"ACT_PASS", "PASSIVE", "ACTIVE"}
States == {"CONNECTING", "CONNECTED", "COMPLETED", "FAILED", "DISCONNECTED"}

SigItems ==
    [op : {"initIce", "createOffer", "createAnswer", "candidate", "addChannel", "close"}]
    \cup [op : {"setRemoteDescription"}, arg : RemoteDescriptions]
    \cup [op : {"addTrack"}, arg : Mids]
    \cup [op : {"role"}, arg : Roles]
    \cup [op : {"iceState", "dtlsState", "sctpState"}, arg : States]
    \cup [op : {"gathering"}, arg : {"GATHERING", "COMPLETED"}]
    \cup [op : {"verify"}, from : {"net"}]

\* What the negotiation posts to the network queue.
PlainNet == [op : {"gather", "addCandidate"}] \cup [op : {"setRemote"}, arg : Roles]

\* The same, without the start of the gathering.
QuietNet == [op : {"addCandidate"}] \cup [op : {"setRemote"}, arg : Roles]

NetItems ==
    PlainNet
    \cup [op : {"newIce", "newDtls", "newSctp", "gatheringDone", "packet", "closeTransports"}]
    \cup [op : {"iceEvent"}, arg : States \cup {"timeout"}]
    \cup [op : {"sctpEvent"}, arg : {"CONNECTED", "DISCONNECTED"}]
    \cup [op : {"localDescription", "role", "sctpConnected"}, from : {"sig"}]

PcFields ==
    {"connection", "gathering", "signaling", "negotiation_needed", "data_channel_needed",
     "local_sdp", "remote_sdp", "remote_candidates", "media_tracks", "opened",
     "data_channels", "closed", "stream_id"}
IsPc(p) == p = [f \in PcFields |-> p[f]] /\ p.remote_candidates \in Nat

TrFields ==
    {"ice", "role", "gathering", "trickle", "timer", "dtls", "dtls_made", "verified",
     "sctp", "sctp_made"}

TypeInv ==
    /\ IsPc(pc)
    /\ tr = [f \in TrFields |-> tr[f]]
    /\ queue = [q \in Queues |-> queue[q]]
    /\ queue["sig"] \in Seq(SigItems)
    /\ queue["net"] \in Seq(NetItems)
    /\ blocked = [t \in Threads |-> blocked[t]]
    /\ reply = [t \in Threads |-> reply[t]]

-----------------------------------------------------------------------------
(* Handlers of the signaling queue                                           *)

HandlerFields == {"pc", "net", "wrk", "ends"}
Handler(h) ==
    /\ h = [f \in HandlerFields |-> h[f]]
    /\ IsPc(h.pc)
    /\ h.net \in Seq(PlainNet)

\* How the negotiation may end without an Invoke.
Outcomes == {"return", "throw", "assert(media_track != nullptr)"}

\* The members that the exchange and the connection state are about.
Same(p, q) ==
    /\ q.signaling = p.signaling
    /\ q.local_sdp = p.local_sdp
    /\ q.remote_sdp = p.remote_sdp
    /\ q.connection = p.connection

\* A sequence of copies of one closure.
LEMMA CopiesSeq ==
  ASSUME NEW S, NEW e \in S, NEW n \in Nat
  PROVE [i \in 1..n |-> e] \in Seq(S)
  BY SeqDef

\* A closure starts with the members as they are and nothing posted.
LEMMA BeginHandler ==
  ASSUME TypeInv
  PROVE Handler(Begin) /\ Begin.pc = pc /\ Begin.ends = "return" /\ Begin.net = <<>> /\ Begin.wrk = <<>>
  BY DEF TypeInv, Handler, HandlerFields, Begin

\* Ends changes the outcome alone.
LEMMA EndsHandler ==
  ASSUME NEW h, Handler(h), NEW how
  PROVE Handler(Ends(h, how)) /\ Ends(h, how).pc = h.pc /\ Ends(h, how).ends = how
        /\ Ends(h, how).net = h.net
  BY DEF Handler, HandlerFields, Ends

\* PostNet appends a closure alone.
LEMMA PostHandler ==
  ASSUME NEW h, Handler(h), NEW i \in PlainNet
  PROVE Handler(PostNet(h, i)) /\ PostNet(h, i).pc = h.pc /\ PostNet(h, i).ends = h.ends
        /\ PostNet(h, i).net = Append(h.net, i)
<1>1. Append(h.net, i) \in Seq(PlainNet)
  BY DEF Handler
<1> QED
  BY <1>1 DEF Handler, HandlerFields, PostNet

\* SetLocalDescription: it goes on to the network queue only with an offer in the stable
\* state or an answer to a pending offer, and has changed no description yet.
LEMMA SetLocalHandler ==
  ASSUME NEW h, Handler(h), h.ends = "return", NEW type
  PROVE LET r == SetLocalDescription(h, type)
        IN  /\ Handler(r) /\ Same(h.pc, r.pc) /\ r.net = h.net
            /\ r.ends \in {"return", "throw", "invoke"}
            /\ r.ends = "invoke" => \/ type = "OFFER" /\ h.pc.signaling = "STABLE"
                                    \/ type = "ANSWER" /\ h.pc.signaling = "HAVE_REMOTE_OFFER"
<1> DEFINE reset == IF type = "OFFER" THEN [h EXCEPT !.pc.negotiation_needed = FALSE] ELSE h
<1>1. Handler(reset) /\ Same(h.pc, reset.pc) /\ reset.ends = "return" /\ reset.net = h.net
  <2> DEFINE g == [h EXCEPT !.pc.negotiation_needed = FALSE]
  <2>1. /\ h = [f \in HandlerFields |-> h[f]] /\ h.pc = [f \in PcFields |-> h.pc[f]]
        /\ h.pc.remote_candidates \in Nat /\ h.net \in Seq(PlainNet)
    BY DEF Handler, IsPc
  <2>2. /\ g = [f \in HandlerFields |-> g[f]] /\ g.net = h.net /\ g.ends = h.ends
        /\ g.pc = [h.pc EXCEPT !.negotiation_needed = FALSE]
    BY <2>1 DEF HandlerFields
  <2> HIDE DEF g
  <2>3. IsPc(g.pc) /\ Same(h.pc, g.pc)
    BY <2>1, <2>2 DEF IsPc, PcFields, Same
  <2>4. Handler(g) /\ Same(h.pc, g.pc) /\ g.ends = "return" /\ g.net = h.net
    BY <2>1, <2>2, <2>3 DEF Handler
  <2>5. Same(h.pc, h.pc)
    BY DEF Same
  <2>6. CASE type = "OFFER"
    <3>1. reset = g
      BY <2>6 DEF g
    <3> HIDE DEF reset
    <3> QED
      BY <2>4, <3>1
  <2>7. CASE type # "OFFER"
    <3>1. reset = h
      BY <2>7
    <3> HIDE DEF reset
    <3> QED
      BY <2>5, <3>1
  <2> QED
    BY <2>6, <2>7
<1> HIDE DEF reset
<1>2. \A how : Handler(Ends(reset, how)) /\ Ends(reset, how).pc = reset.pc /\ Ends(reset, how).ends = how
            /\ Ends(reset, how).net = h.net
  BY <1>1, EndsHandler
<1>3. Handler(Throw(h)) /\ Throw(h).pc = h.pc /\ Throw(h).ends = "throw" /\ Throw(h).net = h.net
  BY EndsHandler DEF Throw
<1>4. Handler(Throw(reset)) /\ Throw(reset).pc = reset.pc /\ Throw(reset).ends = "throw"
      /\ Throw(reset).net = h.net
  BY <1>2 DEF Throw
<1>5. Same(h.pc, h.pc)
  BY DEF Same
<1>6. \/ SetLocalDescription(h, type) \in {Throw(h), h, Throw(reset), reset}
      \/ /\ SetLocalDescription(h, type) = Ends(reset, "invoke")
         /\ \/ type = "OFFER" /\ h.pc.signaling = "STABLE"
            \/ type = "ANSWER" /\ h.pc.signaling = "HAVE_REMOTE_OFFER"
  BY DEF SetLocalDescription, reset
<1> QED
  BY <1>1, <1>2, <1>3, <1>4, <1>5, <1>6

\* OnNegotiatedMediaTrack for all m-lines changes no description, and throws only when
\* there is no local description.
LEMMA TracksHandler ==
  ASSUME NEW h, Handler(h), h.ends = "return", NEW mids
  PROVE LET r == OnNegotiatedMediaTracks(h, mids)
        IN  /\ Handler(r) /\ Same(h.pc, r.pc) /\ r.net = h.net
            /\ r.ends \in Outcomes
            /\ r.ends = "throw" => h.pc.local_sdp = None
<1> DEFINE bad == {i \in 1..Len(mids) : Problem(h.pc, mids[i]) # "return"}
           upto == IF bad = {} THEN Len(mids) ELSE (CHOOSE i \in bad : \A j \in bad : i <= j) - 1
           item(mid) == [op |-> "negotiated", arg |-> mid, described |-> mid \in h.pc.local_sdp.mids]
           w == h.wrk \o [i \in 1..upto |-> item(mids[i])]
           posted == [h EXCEPT !.wrk = w]
           m == mids[upto + 1]
           added == [posted EXCEPT !.pc.media_tracks = @ \cup {m}]
<1>1. OnNegotiatedMediaTracks(h, mids) =
        IF bad = {} THEN posted ELSE Ends(added, Problem(h.pc, m))
  BY DEF OnNegotiatedMediaTracks
<1> HIDE DEF bad, upto, item, w, m
<1>2. Handler(posted) /\ posted.pc = h.pc /\ posted.ends = "return" /\ posted.net = h.net
  BY DEF Handler, HandlerFields
<1>3. Handler(added) /\ Same(h.pc, added.pc) /\ added.net = h.net
  <2> HIDE DEF posted
  <2> QED
    BY <1>2 DEF Handler, HandlerFields, IsPc, PcFields, Same
<1> HIDE DEF posted, added
<1>4. LET e == Ends(added, Problem(h.pc, m))
      IN  Handler(e) /\ e.pc = added.pc /\ e.ends = Problem(h.pc, m) /\ e.net = added.net
  BY <1>3, EndsHandler
<1>5. Problem(h.pc, m) \in Outcomes /\ (Problem(h.pc, m) = "throw" => h.pc.local_sdp = None)
  BY DEF Problem, Outcomes
<1>6. Same(h.pc, h.pc)
  BY DEF Same
<1>7. "return" \in Outcomes
  BY DEF Outcomes
<1> QED
  BY <1>1, <1>2, <1>3, <1>4, <1>5, <1>6, <1>7

\* ProcessRemoteCandidates hands the candidates over and forgets them.
LEMMA CandidatesHandler ==
  ASSUME NEW h, Handler(h)
  PROVE LET r == ProcessRemoteCandidates(h)
        IN  /\ Handler(r) /\ Same(h.pc, r.pc) /\ r.ends = h.ends
            /\ h.net \in Seq(QuietNet) => r.net \in Seq(QuietNet)
<1> DEFINE n == h.net \o [i \in 1..h.pc.remote_candidates |-> Item("addCandidate")]
<1>1. Item("addCandidate") \in PlainNet
  BY DEF Item, PlainNet
<1>2. [i \in 1..h.pc.remote_candidates |-> Item("addCandidate")] \in Seq(PlainNet)
  BY <1>1, CopiesSeq DEF Handler, IsPc
<1>3. n \in Seq(PlainNet)
  BY <1>2, ConcatProperties DEF Handler
<1>q. h.net \in Seq(QuietNet) => n \in Seq(QuietNet)
  BY CopiesSeq, ConcatProperties DEF Item, QuietNet, Handler, IsPc
<1> DEFINE h1 == [h EXCEPT !.net = n]
           h2 == [h1 EXCEPT !.pc.remote_candidates = 0]
<1>4. ProcessRemoteCandidates(h) = h2
  BY DEF ProcessRemoteCandidates
<1> HIDE DEF n
<1>5. Handler(h1) /\ h1.pc = h.pc /\ h1.ends = h.ends /\ h1.net = n
  BY <1>3 DEF Handler, HandlerFields
<1> HIDE DEF h1
<1>6. Handler(h2) /\ Same(h1.pc, h2.pc) /\ h2.ends = h1.ends /\ h2.net = h1.net
  BY <1>5 DEF Handler, HandlerFields, IsPc, PcFields, Same
<1> HIDE DEF h2
<1> QED
  BY <1>4, <1>5, <1>6, <1>q

\* FinishLocalDescription either fails and changes no description, or sets the local
\* description and the signaling state together.
LEMMA FinishLocalHandler ==
  ASSUME NEW h, Handler(h), h.ends = "return", NEW type
  PROVE LET r == FinishLocalDescription(h, type)
        IN  /\ Handler(r) /\ r.ends \in Outcomes
            /\ \/ r.ends # "return" /\ Same(h.pc, r.pc) /\ r.net = h.net
               \/ /\ r.ends = "return"
                  /\ r.pc.local_sdp.type = type
                  /\ r.pc.remote_sdp = h.pc.remote_sdp
                  /\ r.pc.connection = h.pc.connection
                  /\ r.pc.signaling = IF h.pc.signaling = "STABLE" THEN "HAVE_LOCAL_OFFER" ELSE "STABLE"
<1> DEFINE remote == h.pc.remote_sdp
           n == IF remote = None THEN h ELSE OnNegotiatedMediaTracks(h, remote.media)
           s == n.pc
           app == \/ remote # None /\ remote.app
                  \/ type = "OFFER" /\ s.data_channel_needed
           mids == (IF remote = None THEN {} ELSE {remote.media[i] : i \in DOMAIN remote.media})
                   \cup (IF type = "OFFER" THEN s.media_tracks ELSE {})
           gather == IF s.gathering = "NEW" THEN PostNet(n, Item("gather")) ELSE n
           sdp == [type |-> type, app |-> app, mids |-> mids]
           to == IF gather.pc.signaling = "STABLE" THEN "HAVE_LOCAL_OFFER" ELSE "STABLE"
           f1 == [gather EXCEPT !.pc.local_sdp = sdp]
           f2 == [f1 EXCEPT !.pc.signaling = to]
<1>1. FinishLocalDescription(h, type) = IF n.ends # "return" THEN n ELSE f2
  BY DEF FinishLocalDescription
<1>2. Handler(n) /\ Same(h.pc, n.pc) /\ n.ends \in Outcomes /\ n.net = h.net
  BY TracksHandler DEF Same, Outcomes
<1>3. sdp.type = type
  OBVIOUS
<1>4. Item("gather") \in PlainNet
  BY DEF Item, PlainNet
<1> HIDE DEF n, sdp
<1>5. Handler(gather) /\ Same(h.pc, gather.pc) /\ gather.ends = n.ends
  BY <1>2, <1>4, PostHandler
<1>g. to = IF h.pc.signaling = "STABLE" THEN "HAVE_LOCAL_OFFER" ELSE "STABLE"
  BY <1>5 DEF Same
<1> HIDE DEF gather, to
<1>6. /\ Handler(f1) /\ f1.ends = n.ends /\ f1.pc.local_sdp = sdp
      /\ f1.pc.remote_sdp = h.pc.remote_sdp
      /\ f1.pc.connection = h.pc.connection
      /\ f1.pc.signaling = h.pc.signaling
  BY <1>5 DEF Handler, HandlerFields, IsPc, PcFields, Same
<1> HIDE DEF f1
<1>7. /\ Handler(f2) /\ f2.ends = n.ends /\ f2.pc.local_sdp = sdp
      /\ f2.pc.remote_sdp = h.pc.remote_sdp
      /\ f2.pc.connection = h.pc.connection
      /\ f2.pc.signaling = IF h.pc.signaling = "STABLE" THEN "HAVE_LOCAL_OFFER" ELSE "STABLE"
  BY <1>6, <1>g DEF Handler, HandlerFields, IsPc, PcFields
<1> HIDE DEF f2
<1> QED
  BY <1>1, <1>2, <1>3, <1>7

\* SetRemoteDescription either fails and changes no description, or sets the remote
\* description and the signaling state together.  A throw after remote_sdp_ was assigned
\* would break this; it needs an answer without a local description.
LEMMA SetRemoteHandler ==
  ASSUME NEW h, Handler(h), h.ends = "return", NEW d \in RemoteDescriptions,
         h.pc.signaling = "HAVE_LOCAL_OFFER" => h.pc.local_sdp # None
  PROVE LET r == SetRemoteDescription(h, d)
        IN  /\ Handler(r) /\ r.ends \in Outcomes \cup {"invoke"}
            /\ h.net \in Seq(QuietNet) => r.net \in Seq(QuietNet)
            /\ r.ends = "invoke" => r.pc.signaling = "HAVE_REMOTE_OFFER"
            /\ Survives(r) =>
                \/ Same(h.pc, r.pc) /\ r.ends # "invoke"
                \/ /\ r.pc.local_sdp = h.pc.local_sdp
                   /\ r.pc.connection = h.pc.connection
                   /\ r.pc.remote_sdp = d
                   /\ \/ /\ h.pc.signaling = "STABLE" /\ d.type = "OFFER"
                         /\ r.pc.signaling = "HAVE_REMOTE_OFFER"
                      \/ /\ h.pc.signaling = "HAVE_LOCAL_OFFER" /\ d.type = "ANSWER"
                         /\ r.pc.signaling = "STABLE"
<1> DEFINE p0 == PostNet(h, ItemOf("setRemote", d.role))
           posted == [p0 EXCEPT !.pc.remote_sdp = d]
           tracks == IF d.type = "ANSWER" THEN OnNegotiatedMediaTracks(posted, d.media) ELSE posted
           done == [tracks EXCEPT !.pc.signaling =
                      IF @ = "STABLE" THEN "HAVE_REMOTE_OFFER" ELSE "STABLE"]
           r == SetRemoteDescription(h, d)
           accepted == <<h.pc.signaling, d.type>> \in
                         {<<"STABLE", "OFFER">>, <<"HAVE_LOCAL_OFFER", "ANSWER">>}
<1>1. \/ r = Throw(h)
      \/ accepted /\ tracks.ends # "return" /\ r = tracks
      \/ accepted /\ tracks.ends = "return" /\ d.type = "OFFER" /\ r = SetLocalDescription(done, "ANSWER")
      \/ accepted /\ tracks.ends = "return" /\ r = ProcessRemoteCandidates(done)
  BY DEF SetRemoteDescription
<1>2. ItemOf("setRemote", d.role) \in PlainNet
  BY RolesAssumption DEF ItemOf, PlainNet, Roles
<1>3. Handler(p0) /\ p0.pc = h.pc /\ p0.ends = "return" /\ p0.net = Append(h.net, ItemOf("setRemote", d.role))
  BY <1>2, PostHandler
<1>q. h.net \in Seq(QuietNet) => p0.net \in Seq(QuietNet)
  <2>1. ItemOf("setRemote", d.role) \in QuietNet
    BY RolesAssumption DEF ItemOf, QuietNet, Roles
  <2> QED
    BY <1>3, <2>1, AppendProperties
<1> HIDE DEF p0
<1>4. /\ Handler(posted) /\ posted.ends = "return" /\ posted.net = p0.net
      /\ posted.pc.signaling = h.pc.signaling /\ posted.pc.local_sdp = h.pc.local_sdp
      /\ posted.pc.connection = h.pc.connection /\ posted.pc.remote_sdp = d
  BY <1>3 DEF Handler, HandlerFields, IsPc, PcFields
<1> HIDE DEF posted
<1>5. /\ Handler(tracks) /\ Same(posted.pc, tracks.pc) /\ tracks.ends \in Outcomes
      /\ tracks.net = p0.net
      /\ tracks.ends = "throw" => h.pc.local_sdp = None /\ d.type = "ANSWER"
  <2>1. Same(posted.pc, posted.pc) /\ "return" \in Outcomes
    BY DEF Same, Outcomes
  <2> QED
    BY <1>4, <2>1, TracksHandler
<1> HIDE DEF tracks
<1>6. /\ Handler(done) /\ done.ends = tracks.ends /\ done.net = p0.net
      /\ done.pc.signaling = IF h.pc.signaling = "STABLE" THEN "HAVE_REMOTE_OFFER" ELSE "STABLE"
      /\ done.pc.local_sdp = h.pc.local_sdp
      /\ done.pc.connection = h.pc.connection /\ done.pc.remote_sdp = d
  BY <1>4, <1>5 DEF Handler, HandlerFields, IsPc, PcFields, Same
<1> HIDE DEF done
<1>7. accepted => \/ h.pc.signaling = "STABLE" /\ d.type = "OFFER"
                  \/ h.pc.signaling = "HAVE_LOCAL_OFFER" /\ d.type = "ANSWER"
  OBVIOUS
<1> HIDE DEF accepted, r
<1>8. CASE r = Throw(h)
  <2>1. Handler(r) /\ r.pc = h.pc /\ r.ends = "throw" /\ r.net = h.net
    BY <1>8, EndsHandler DEF Throw
  <2> QED
    BY <2>1 DEF Same, r, Outcomes
<1>9. CASE accepted /\ tracks.ends # "return" /\ r = tracks
  BY <1>5, <1>7, <1>9, <1>q DEF Survives, Outcomes, r
<1>10. CASE /\ accepted /\ tracks.ends = "return" /\ d.type = "OFFER"
            /\ r = SetLocalDescription(done, "ANSWER")
  <2>1. /\ Handler(r) /\ Same(done.pc, r.pc) /\ r.net = done.net
        /\ r.ends \in {"return", "throw", "invoke"}
    BY <1>6, <1>10, SetLocalHandler
  <2>3. r.ends \in Outcomes \cup {"invoke"}
    BY <2>1 DEF Outcomes
  <2>2. h.pc.signaling = "STABLE" /\ done.pc.signaling = "HAVE_REMOTE_OFFER"
    BY <1>6, <1>7, <1>10
  <2> QED
    BY <2>1, <2>2, <2>3, <1>6, <1>10, <1>q DEF Same, r
<1>11. CASE accepted /\ tracks.ends = "return" /\ r = ProcessRemoteCandidates(done)
  BY <1>6, <1>7, <1>11, CandidatesHandler, <1>q DEF Same, r, Outcomes
<1> QED
  BY <1>1, <1>8, <1>9, <1>10, <1>11 DEF r

-----------------------------------------------------------------------------
(* Steps of the queues and types                                             *)

\* The first closure of a queue and the rest are well typed.
LEMMA FirstType ==
  ASSUME TypeInv
  PROVE /\ queue["sig"] # <<>> =>
             /\ First("sig") \in SigItems
             /\ Taken("sig")["sig"] = Tail(queue["sig"]) /\ Tail(queue["sig"]) \in Seq(SigItems)
             /\ Taken("sig")["net"] = queue["net"]
             /\ Taken("sig") = [q \in Queues |-> Taken("sig")[q]]
        /\ queue["net"] # <<>> =>
             /\ First("net") \in NetItems
             /\ Taken("net")["net"] = Tail(queue["net"]) /\ Tail(queue["net"]) \in Seq(NetItems)
             /\ Taken("net")["sig"] = queue["sig"]
             /\ Taken("net") = [q \in Queues |-> Taken("net")[q]]
<1>1. queue = [q \in Queues |-> queue[q]] /\ "sig" \in Queues /\ "net" \in Queues
  BY DEF TypeInv, Queues
<1>2. ASSUME queue["sig"] # <<>>
      PROVE First("sig") \in SigItems /\ Tail(queue["sig"]) \in Seq(SigItems)
  BY <1>2, HeadTailProperties DEF TypeInv, First
<1>3. ASSUME queue["net"] # <<>>
      PROVE First("net") \in NetItems /\ Tail(queue["net"]) \in Seq(NetItems)
  BY <1>3, HeadTailProperties DEF TypeInv, First
<1>4. /\ Taken("sig")["sig"] = Tail(queue["sig"]) /\ Taken("sig")["net"] = queue["net"]
      /\ Taken("sig") = [q \in Queues |-> Taken("sig")[q]]
  BY <1>1 DEF Taken
<1>5. /\ Taken("net")["net"] = Tail(queue["net"]) /\ Taken("net")["sig"] = queue["sig"]
      /\ Taken("net") = [q \in Queues |-> Taken("net")[q]]
  BY <1>1 DEF Taken
<1> QED
  BY <1>2, <1>3, <1>4, <1>5

\* What the network queue is Invoked for.
Queries == {"localDescription", "role", "sctpConnected"}

\* What a closure of the signaling queue leaves behind.
LEMMA FinishType ==
  ASSUME TypeInv, NEW h, IsPc(h.pc), h.net \in Seq(NetItems), NEW rest, NEW op,
         h.ends = "invoke" => op \in Queries,
         NEW taken, taken = [q \in Queues |-> taken[q]],
         taken["sig"] \in Seq(SigItems), taken["net"] \in Seq(NetItems),
         Finish(h, rest, op, taken), reply' = [t \in Threads |-> reply'[t]]
  PROVE /\ TypeInv'
        /\ queue'["sig"] = taken["sig"]
        /\ queue'["net"] = IF h.ends = "invoke" THEN (taken["net"] \o h.net) \o <<InvokeOf(op, "sig")>>
                                                ELSE taken["net"] \o h.net
        /\ blocked'["sig"] = IF h.ends = "invoke" THEN rest ELSE Idle
        /\ \A t \in Threads : t # "sig" => blocked'[t] = blocked[t]
        /\ pc' = IF Survives(h) THEN h.pc ELSE pc
        /\ tr' = tr
<1> DEFINE asked == IF h.ends = "invoke" THEN <<InvokeOf(op, "sig")>> ELSE <<>>
           net == taken["net"] \o h.net \o asked
<1>1. asked \in Seq(NetItems)
  <2>1. h.ends = "invoke" => InvokeOf(op, "sig") \in NetItems
    BY DEF InvokeOf, NetItems, Queries
  <2> QED
    BY <2>1
<1>2. taken["net"] \o h.net \in Seq(NetItems)
  BY ConcatProperties
<1>3. net \in Seq(NetItems) /\ (h.ends # "invoke" => net = taken["net"] \o h.net)
  BY <1>1, <1>2, ConcatProperties, ConcatEmptySeq
<1>4. queue' = [taken EXCEPT !["net"] = net, !["wrk"] = @ \o h.wrk]
  BY DEF Finish
<1> HIDE DEF net
<1>5. queue'["sig"] = taken["sig"] /\ queue'["net"] = net /\ queue' = [q \in Queues |-> queue'[q]]
  BY <1>4 DEF Queues
<1>6. /\ pc' = (IF Survives(h) THEN h.pc ELSE pc) /\ tr' = tr
      /\ blocked' = [blocked EXCEPT !["sig"] = IF h.ends = "invoke" THEN rest ELSE Idle]
  BY DEF Finish
<1>7. IsPc(pc')
  BY <1>6 DEF TypeInv
<1>8. /\ blocked' = [t \in Threads |-> blocked'[t]]
      /\ blocked'["sig"] = IF h.ends = "invoke" THEN rest ELSE Idle
      /\ \A t \in Threads : t # "sig" => blocked'[t] = blocked[t]
  BY <1>6 DEF TypeInv, Threads, Queues
<1>9. TypeInv'
  BY <1>3, <1>5, <1>6, <1>7, <1>8 DEF TypeInv
<1>10. h.ends = "invoke" => net = (taken["net"] \o h.net) \o <<InvokeOf(op, "sig")>>
  BY DEF net
<1> QED
  BY <1>3, <1>5, <1>6, <1>8, <1>9, <1>10

\* What a closure of the network queue leaves behind.
LEMMA NetDoneType ==
  ASSUME TypeInv, queue["net"] # <<>>, NEW t, t = [f \in TrFields |-> t[f]],
         NEW posts \in Seq(SigItems), NetDone(t, posts), reply' = [r \in Threads |-> reply'[r]]
  PROVE /\ TypeInv' /\ tr' = t
        /\ queue'["sig"] = queue["sig"] \o posts
        /\ queue'["net"] = Tail(queue["net"])
        /\ UNCHANGED <<pc, blocked>>
  BY ConcatProperties, FirstType DEF NetDone, TypeInv, Queues

\* Posting to the queue of another thread.
LEMMA PostType ==
  ASSUME TypeInv, NEW q \in Queues, NEW item, queue' = [queue EXCEPT ![q] = Append(@, item)],
         q = "sig" => item \in SigItems, q = "net" => item \in NetItems,
         pc' = pc, tr' = [f \in TrFields |-> tr'[f]],
         blocked' = [t \in Threads |-> blocked'[t]], reply' = [t \in Threads |-> reply'[t]]
  PROVE /\ TypeInv'
        /\ queue'[q] = Append(queue[q], item)
        /\ \A p \in Queues : p # q => queue'[p] = queue[p]
<1>1. /\ queue'[q] = Append(queue[q], item)
      /\ \A p \in Queues : p # q => queue'[p] = queue[p]
      /\ queue' = [p \in Queues |-> queue'[p]]
  BY DEF TypeInv
<1>2. queue'["sig"] \in Seq(SigItems)
  BY <1>1 DEF TypeInv, Queues
<1>3. queue'["net"] \in Seq(NetItems)
  BY <1>1 DEF TypeInv, Queues
<1> QED
  BY <1>1, <1>2, <1>3 DEF TypeInv

-----------------------------------------------------------------------------
(* The offer/answer exchange                                                 *)
(*                                                                           *)
(* A local description is set in two steps, with the thread blocked between  *)
(* them; the invariant says that the state the first one checked is the one  *)
(* the second one finds, and that a pending local offer has a description.   *)

OfferHeld(p) == p.signaling = "HAVE_LOCAL_OFFER" => p.local_sdp.type = "OFFER"

\* A blocked SetLocalDescription b still finds the signaling state it was called in.
Resumable(b, p) ==
    /\ b.op = "finishLocal" => \/ b.arg = "OFFER" /\ p.signaling = "STABLE"
                               \/ b.arg = "ANSWER" /\ p.signaling = "HAVE_REMOTE_OFFER"
    /\ b.op = "finishAuto" => p.signaling = "HAVE_REMOTE_OFFER"

NegotiationInv == TypeInv /\ OfferHeld(pc) /\ Resumable(blocked["sig"], pc)

SameSdp(p, q) ==
    q.signaling = p.signaling /\ q.local_sdp = p.local_sdp /\ q.remote_sdp = p.remote_sdp

\* One step of the exchange, or none, from members p to members q.
SdpStep(p, q) ==
    \/ SameSdp(p, q)
    \/ /\ p.signaling = "STABLE" /\ q.signaling = "HAVE_LOCAL_OFFER"
       /\ q.local_sdp.type = "OFFER" /\ q.remote_sdp = p.remote_sdp
    \/ /\ p.signaling = "STABLE" /\ q.signaling = "HAVE_REMOTE_OFFER"
       /\ q.remote_sdp.type = "OFFER" /\ q.local_sdp = p.local_sdp
    \/ /\ p.signaling = "HAVE_REMOTE_OFFER" /\ q.signaling = "STABLE"
       /\ q.local_sdp.type = "ANSWER" /\ q.remote_sdp = p.remote_sdp
    \/ /\ p.signaling = "HAVE_LOCAL_OFFER" /\ q.signaling = "STABLE"
       /\ q.remote_sdp.type = "ANSWER" /\ q.local_sdp = p.local_sdp

\* A closure of the signaling queue makes at most one step of the exchange.
LEMMA FinishSdp ==
  ASSUME NegotiationInv, NEW h, IsPc(h.pc), h.net \in Seq(NetItems), NEW rest, NEW op,
         h.ends = "invoke" => op \in Queries /\ Resumable(rest, h.pc),
         Survives(h) => SdpStep(pc, h.pc),
         NEW taken, taken = [q \in Queues |-> taken[q]],
         taken["sig"] \in Seq(SigItems), taken["net"] \in Seq(NetItems),
         Finish(h, rest, op, taken), reply' = [t \in Threads |-> reply'[t]]
  PROVE NegotiationInv' /\ SdpStep(pc, pc')
<1>1. TypeInv /\ OfferHeld(pc) /\ Resumable(blocked["sig"], pc)
  BY DEF NegotiationInv
<1>2. /\ TypeInv'
      /\ blocked'["sig"] = IF h.ends = "invoke" THEN rest ELSE Idle
      /\ pc' = IF Survives(h) THEN h.pc ELSE pc
  BY <1>1, FinishType
<1>3. h.ends = "invoke" => Survives(h)
  BY DEF Survives
<1>4. Resumable(blocked'["sig"], pc')
  BY <1>2, <1>3 DEF Resumable, Idle
<1>5. SdpStep(pc, pc')
  BY <1>2 DEF SdpStep, SameSdp
<1>6. OfferHeld(pc')
  BY <1>1, <1>5 DEF OfferHeld, SdpStep, SameSdp
<1> QED
  BY <1>2, <1>4, <1>5, <1>6 DEF NegotiationInv

\* A closure without an Invoke that leaves the descriptions alone.
LEMMA SimpleSdp ==
  ASSUME NegotiationInv, queue["sig"] # <<>>, NEW h, IsPc(h.pc), h.net \in Seq(NetItems),
         h.ends # "invoke", SameSdp(pc, h.pc), Finish(h, Idle, "", Taken("sig")),
         reply' = [t \in Threads |-> reply'[t]]
  PROVE NegotiationInv' /\ SdpStep(pc, pc')
<1>1. TypeInv
  BY DEF NegotiationInv
<1>2. /\ Taken("sig") = [q \in Queues |-> Taken("sig")[q]]
      /\ Taken("sig")["sig"] \in Seq(SigItems) /\ Taken("sig")["net"] \in Seq(NetItems)
  BY <1>1, FirstType DEF TypeInv
<1>3. SdpStep(pc, h.pc)
  BY DEF SdpStep
<1> HIDE DEF Taken
<1> QED
  BY <1>2, <1>3, FinishSdp

\* The closures of the negotiation post to the network queue like any other.
LEMMA HandlerNet ==
  ASSUME NEW h, Handler(h)
  PROVE IsPc(h.pc) /\ h.net \in Seq(NetItems)
  BY SeqMonotonic DEF NetItems, Handler

\* reply stays a function of the threads.
LEMMA ReplyType ==
  ASSUME reply = [t \in Threads |-> reply[t]], NEW x, NEW y, NEW z, NEW w
  PROVE /\ [reply EXCEPT ![x] = y] = [t \in Threads |-> [reply EXCEPT ![x] = y][t]]
        /\ [reply EXCEPT ![x] = y, ![z] = w] = [t \in Threads |-> [reply EXCEPT ![x] = y, ![z] = w][t]]
  OBVIOUS

\* The closures of the negotiation itself.
LEMMA NegotiationClosures ==
  ASSUME NegotiationInv, queue["sig"] # <<>>,
         CreateOffer \/ CreateAnswer \/ SetRemote \/ AddRemoteCandidate
  PROVE NegotiationInv' /\ SdpStep(pc, pc')
<1>1. TypeInv /\ OfferHeld(pc) /\ Resumable(blocked["sig"], pc)
  BY DEF NegotiationInv
<1>2. /\ Taken("sig") = [q \in Queues |-> Taken("sig")[q]]
      /\ Taken("sig")["sig"] \in Seq(SigItems) /\ Taken("sig")["net"] \in Seq(NetItems)
      /\ First("sig") \in SigItems
  BY <1>1, FirstType DEF TypeInv
<1>3. Handler(Begin) /\ Begin.pc = pc /\ Begin.ends = "return"
  BY <1>1, BeginHandler
<1>4. reply = [t \in Threads |-> reply[t]]
  BY <1>1 DEF TypeInv
<1> HIDE DEF Taken, Begin
<1>5. CASE CreateOffer
  <2> DEFINE h == IF pc.signaling = "HAVE_REMOTE_OFFER" THEN Begin
                  ELSE SetLocalDescription(Begin, "OFFER")
  <2>1. /\ Finish(h, ItemOf("finishLocal", "OFFER"), "localDescription", Taken("sig"))
        /\ reply' = reply
    BY <1>5 DEF CreateOffer
  <2>2. /\ Handler(h) /\ Same(pc, h.pc)
        /\ h.ends = "invoke" => pc.signaling = "STABLE"
    BY <1>3, SetLocalHandler DEF Same
  <2> HIDE DEF h
  <2>3. IsPc(h.pc) /\ h.net \in Seq(NetItems)
    BY <2>2, HandlerNet
  <2>4. SdpStep(pc, h.pc) /\ (h.ends = "invoke" => Resumable(ItemOf("finishLocal", "OFFER"), h.pc))
    BY <2>2 DEF Same, SdpStep, SameSdp, Resumable, ItemOf
  <2> QED
    BY <1>2, <1>4, <2>1, <2>3, <2>4, FinishSdp DEF Queries
<1>6. CASE CreateAnswer
  <2> DEFINE h == IF pc.signaling # "HAVE_REMOTE_OFFER" THEN Begin
                  ELSE SetLocalDescription(Begin, "ANSWER")
  <2>1. /\ Finish(h, ItemOf("finishLocal", "ANSWER"), "localDescription", Taken("sig"))
        /\ reply' = reply
    BY <1>6 DEF CreateAnswer
  <2>2. /\ Handler(h) /\ Same(pc, h.pc)
        /\ h.ends = "invoke" => pc.signaling = "HAVE_REMOTE_OFFER"
    BY <1>3, SetLocalHandler DEF Same
  <2> HIDE DEF h
  <2>3. IsPc(h.pc) /\ h.net \in Seq(NetItems)
    BY <2>2, HandlerNet
  <2>4. SdpStep(pc, h.pc) /\ (h.ends = "invoke" => Resumable(ItemOf("finishLocal", "ANSWER"), h.pc))
    BY <2>2 DEF Same, SdpStep, SameSdp, Resumable, ItemOf
  <2> QED
    BY <1>2, <1>4, <2>1, <2>3, <2>4, FinishSdp DEF Queries
<1>7. CASE SetRemote
  <2> DEFINE d == First("sig").arg
             h == SetRemoteDescription(Begin, d)
  <2>1. /\ Finish(h, Item("finishAuto"), "localDescription", Taken("sig"))
        /\ reply' = reply /\ First("sig").op = "setRemoteDescription"
    BY <1>7 DEF SetRemote
  <2>2. d \in RemoteDescriptions
    BY <1>2, <2>1 DEF SigItems
  <2>3. pc.signaling = "HAVE_LOCAL_OFFER" => pc.local_sdp # None
    BY <1>1 DEF OfferHeld, None
  <2> HIDE DEF d
  <2>4. /\ Handler(h)
        /\ h.ends = "invoke" => h.pc.signaling = "HAVE_REMOTE_OFFER"
        /\ Survives(h) =>
            \/ Same(pc, h.pc)
            \/ /\ h.pc.local_sdp = pc.local_sdp
               /\ h.pc.remote_sdp = d
               /\ \/ /\ pc.signaling = "STABLE" /\ d.type = "OFFER"
                     /\ h.pc.signaling = "HAVE_REMOTE_OFFER"
                  \/ /\ pc.signaling = "HAVE_LOCAL_OFFER" /\ d.type = "ANSWER"
                     /\ h.pc.signaling = "STABLE"
    BY <1>3, <2>2, <2>3, SetRemoteHandler
  <2> HIDE DEF h
  <2>5. IsPc(h.pc) /\ h.net \in Seq(NetItems)
    BY <2>4, HandlerNet
  <2>6. /\ Survives(h) => SdpStep(pc, h.pc)
        /\ h.ends = "invoke" => Resumable(Item("finishAuto"), h.pc)
    BY <2>4 DEF Same, SdpStep, SameSdp, Resumable, Item
  <2> QED
    BY <1>2, <1>4, <2>1, <2>5, <2>6, FinishSdp DEF Queries
<1>8. CASE AddRemoteCandidate
  <2> DEFINE g == [Begin EXCEPT !.pc.remote_candidates = @ + 1]
             h == IF pc.remote_sdp # None /\ pc.connection # "CONNECTED"
                  THEN ProcessRemoteCandidates(g) ELSE g
  <2>1. Finish(h, Idle, "", Taken("sig")) /\ reply' = reply
    BY <1>8 DEF AddRemoteCandidate, Simple
  <2>2. Handler(g) /\ Same(pc, g.pc) /\ g.ends = "return"
    <3> DEFINE k == Begin.pc.remote_candidates + 1
    <3>1. k \in Nat
      BY <1>3 DEF Handler, IsPc
    <3> HIDE DEF k
    <3>2. g = [Begin EXCEPT !.pc.remote_candidates = k]
      BY DEF k
    <3> HIDE DEF g
    <3> QED
      BY <1>3, <3>1, <3>2 DEF Handler, HandlerFields, IsPc, PcFields, Same
  <2> HIDE DEF g
  <2>3. Handler(h) /\ Same(pc, h.pc) /\ h.ends = "return"
    BY <2>2, CandidatesHandler DEF Same
  <2> HIDE DEF h
  <2>4. IsPc(h.pc) /\ h.net \in Seq(NetItems) /\ SameSdp(pc, h.pc)
    BY <2>3, HandlerNet DEF Same, SameSdp
  <2> QED
    BY <1>4, <2>1, <2>3, <2>4, SimpleSdp
<1> QED
  BY <1>5, <1>6, <1>7, <1>8

\* SetLocalDescription goes on and completes its step of the exchange.
LEMMA ResumeSdp ==
  ASSUME NegotiationInv, ResumeLocalDescription
  PROVE NegotiationInv' /\ SdpStep(pc, pc')
<1>1. TypeInv /\ OfferHeld(pc) /\ Resumable(blocked["sig"], pc)
  BY DEF NegotiationInv
<1>2. Handler(Begin) /\ Begin.pc = pc /\ Begin.ends = "return"
  BY <1>1, BeginHandler
<1> HIDE DEF Begin
<1> DEFINE auto == blocked["sig"].op = "finishAuto"
           type == IF auto THEN "ANSWER" ELSE blocked["sig"].arg
           g == FinishLocalDescription(Begin, type)
           h == IF auto /\ g.ends = "return" THEN ProcessRemoteCandidates(g) ELSE g
<1>3. /\ Finish(h, Idle, "", queue) /\ reply' = [reply EXCEPT !["sig"] = NoReply]
      /\ blocked["sig"].op \in {"finishLocal", "finishAuto"}
  BY DEF ResumeLocalDescription
<1>4. \/ type = "OFFER" /\ pc.signaling = "STABLE"
      \/ type = "ANSWER" /\ pc.signaling = "HAVE_REMOTE_OFFER"
  BY <1>1, <1>3 DEF Resumable
<1> HIDE DEF auto, type
<1>o. "invoke" \notin Outcomes
  BY DEF Outcomes
<1>5. /\ Handler(g) /\ g.ends # "invoke"
      /\ \/ g.ends # "return" /\ Same(pc, g.pc)
         \/ /\ g.ends = "return"
            /\ g.pc.local_sdp.type = type
            /\ g.pc.remote_sdp = pc.remote_sdp
            /\ g.pc.signaling = IF pc.signaling = "STABLE" THEN "HAVE_LOCAL_OFFER" ELSE "STABLE"
  BY <1>2, <1>o, FinishLocalHandler
<1>6. SdpStep(pc, g.pc)
  BY <1>4, <1>5 DEF Same, SdpStep, SameSdp
<1> HIDE DEF g
<1>7. Handler(h) /\ Same(g.pc, h.pc) /\ h.ends # "invoke"
  BY <1>5, CandidatesHandler DEF Same
<1>8. SdpStep(pc, h.pc)
  BY <1>6, <1>7 DEF Same, SdpStep, SameSdp
<1> HIDE DEF h
<1>9. IsPc(h.pc) /\ h.net \in Seq(NetItems)
  BY <1>7, HandlerNet
<1>10. /\ queue = [q \in Queues |-> queue[q]] /\ queue["sig"] \in Seq(SigItems)
       /\ queue["net"] \in Seq(NetItems) /\ reply = [t \in Threads |-> reply[t]]
  BY <1>1 DEF TypeInv
<1>11. reply' = [t \in Threads |-> reply'[t]]
  BY <1>3, <1>10, ReplyType
<1> QED
  BY <1>3, <1>7, <1>8, <1>9, <1>10, <1>11, FinishSdp

\* The other closures of the signaling queue leave the descriptions alone.
LEMMA OtherClosures ==
  ASSUME NegotiationInv, queue["sig"] # <<>>,
         \/ InitIceTransport \/ AddMediaTrack \/ ShiftDataChannels
         \/ OnIceTransportStateChanged \/ OnGatheringStateChanged
         \/ OnDtlsTransportStateChanged \/ OnSctpTransportStateChanged
         \/ OnDtlsVerify \/ CloseSignaling
  PROVE NegotiationInv' /\ SdpStep(pc, pc')
<1>1. TypeInv /\ reply = [t \in Threads |-> reply[t]]
  BY DEF NegotiationInv, TypeInv
<1>2. /\ Handler(Begin) /\ Begin.pc = pc /\ Begin.ends = "return" /\ Begin.net = <<>>
  BY <1>1, BeginHandler
<1>3. Begin = [f \in HandlerFields |-> Begin[f]] /\ IsPc(Begin.pc) /\ Begin.net \in Seq(NetItems)
      /\ SameSdp(pc, Begin.pc)
  BY <1>2 DEF Handler, SameSdp
<1>4. \A e \in NetItems : LET r == PostNet(Begin, e)
                          IN  /\ r = [f \in HandlerFields |-> r[f]] /\ r.pc = pc
                              /\ r.net \in Seq(NetItems) /\ r.ends = "return"
  <2> SUFFICES ASSUME NEW e \in NetItems
               PROVE LET r == PostNet(Begin, e)
                     IN  /\ r = [f \in HandlerFields |-> r[f]] /\ r.pc = pc
                         /\ r.net \in Seq(NetItems) /\ r.ends = "return"
    OBVIOUS
  <2>1. Append(Begin.net, e) \in Seq(NetItems)
    BY <1>3
  <2> QED
    BY <1>2, <1>3, <2>1 DEF PostNet, HandlerFields
<1>5. \A how : LET r == Ends(Begin, how)
               IN  /\ r = [f \in HandlerFields |-> r[f]] /\ r.pc = pc
                   /\ r.net \in Seq(NetItems) /\ r.ends = how
  BY <1>2, <1>3 DEF Ends, HandlerFields
<1>6. Item("newIce") \in NetItems /\ Item("newDtls") \in NetItems /\ Item("newSctp") \in NetItems
  BY DEF Item, NetItems
<1> HIDE DEF Taken, Begin
<1>7. CASE InitIceTransport
  <2> DEFINE h == IF tr.ice # "none" THEN Begin ELSE PostNet(Begin, Item("newIce"))
  <2>1. Finish(h, Idle, "", Taken("sig")) /\ reply' = reply
    BY <1>7 DEF InitIceTransport, Simple
  <2>2. IsPc(h.pc) /\ h.net \in Seq(NetItems) /\ h.ends # "invoke" /\ SameSdp(pc, h.pc)
    BY <1>2, <1>3, <1>4, <1>6
  <2> HIDE DEF h
  <2> QED
    BY <1>1, <2>1, <2>2, SimpleSdp
<1>8. CASE AddMediaTrack
  <2> DEFINE mid == First("sig").arg
             a == [Begin EXCEPT !.pc.media_tracks = @ \cup {mid}]
             b == [a EXCEPT !.pc.negotiation_needed = TRUE]
             h == IF mid \in pc.media_tracks THEN Begin ELSE b
  <2>1. Finish(h, Idle, "", Taken("sig")) /\ reply' = [reply EXCEPT !["app"] = "yes"]
    BY <1>8 DEF AddMediaTrack, Answer
  <2>2. /\ a = [f \in HandlerFields |-> a[f]] /\ IsPc(a.pc) /\ SameSdp(pc, a.pc)
        /\ a.net = Begin.net /\ a.ends = Begin.ends
    BY <1>2, <1>3 DEF HandlerFields, IsPc, PcFields, SameSdp
  <2> HIDE DEF a
  <2>3. /\ b = [f \in HandlerFields |-> b[f]] /\ IsPc(b.pc) /\ SameSdp(pc, b.pc)
        /\ b.net = Begin.net /\ b.ends = Begin.ends
    BY <2>2 DEF HandlerFields, IsPc, PcFields, SameSdp
  <2> HIDE DEF b
  <2>4. IsPc(h.pc) /\ h.net \in Seq(NetItems) /\ h.ends # "invoke" /\ SameSdp(pc, h.pc)
    BY <1>2, <1>3, <2>3
  <2> HIDE DEF h
  <2>5. reply' = [t \in Threads |-> reply'[t]]
    BY <1>1, <2>1, ReplyType
  <2> QED
    BY <2>1, <2>4, <2>5, SimpleSdp
<1>9. CASE ShiftDataChannels
  <2>1. PICK ids, kept :
          /\ Finish(IF First("sig").arg # "ACTIVE" THEN Begin
                    ELSE [Begin EXCEPT !.pc.stream_id = ids, !.pc.data_channels = kept],
                    Idle, "", Taken("sig"))
          /\ reply' = reply
    BY <1>9 DEF ShiftDataChannels, Simple
  <2> DEFINE a == [Begin EXCEPT !.pc.stream_id = ids]
             b == [a EXCEPT !.pc.data_channels = kept]
             h == IF First("sig").arg # "ACTIVE" THEN Begin ELSE b
  <2>2. Finish(h, Idle, "", Taken("sig"))
    BY <2>1
  <2>3. /\ a = [f \in HandlerFields |-> a[f]] /\ IsPc(a.pc) /\ SameSdp(pc, a.pc)
        /\ a.net = Begin.net /\ a.ends = Begin.ends
    BY <1>2, <1>3 DEF HandlerFields, IsPc, PcFields, SameSdp
  <2> HIDE DEF a
  <2>4. /\ b = [f \in HandlerFields |-> b[f]] /\ IsPc(b.pc) /\ SameSdp(pc, b.pc)
        /\ b.net = Begin.net /\ b.ends = Begin.ends
    BY <2>3 DEF HandlerFields, IsPc, PcFields, SameSdp
  <2> HIDE DEF b
  <2>5. IsPc(h.pc) /\ h.net \in Seq(NetItems) /\ h.ends # "invoke" /\ SameSdp(pc, h.pc)
    BY <1>2, <1>3, <2>4
  <2> HIDE DEF h
  <2> QED
    BY <1>1, <2>1, <2>2, <2>5, SimpleSdp
<1>10. \A v : LET r == UpdateConnectionState(Begin, v)
              IN  /\ r = [f \in HandlerFields |-> r[f]] /\ IsPc(r.pc) /\ SameSdp(pc, r.pc)
                  /\ r.net = Begin.net /\ r.ends = Begin.ends
  BY <1>2, <1>3 DEF UpdateConnectionState, HandlerFields, IsPc, PcFields, SameSdp
<1>11. CASE OnIceTransportStateChanged
  <2> DEFINE state == First("sig").arg
             h == IF state = "CONNECTED" THEN InitDtlsTransport(Begin)
                  ELSE UpdateConnectionState(Begin, state)
  <2>1. Finish(h, Idle, "", Taken("sig")) /\ reply' = reply
    BY <1>11 DEF OnIceTransportStateChanged, Simple
  <2>2. LET r == InitDtlsTransport(Begin)
        IN  IsPc(r.pc) /\ r.net \in Seq(NetItems) /\ r.ends # "invoke" /\ SameSdp(pc, r.pc)
    BY <1>2, <1>3, <1>4, <1>5, <1>6 DEF InitDtlsTransport
  <2>3. IsPc(h.pc) /\ h.net \in Seq(NetItems) /\ h.ends # "invoke" /\ SameSdp(pc, h.pc)
    BY <1>2, <1>3, <1>10, <2>2
  <2> HIDE DEF h
  <2> QED
    BY <1>1, <2>1, <2>3, SimpleSdp
<1>12. CASE OnGatheringStateChanged
  <2> DEFINE h == [Begin EXCEPT !.pc.gathering = First("sig").arg]
  <2>1. Finish(h, Idle, "", Taken("sig")) /\ reply' = reply
    BY <1>12 DEF OnGatheringStateChanged, Simple
  <2>2. IsPc(h.pc) /\ h.net \in Seq(NetItems) /\ h.ends # "invoke" /\ SameSdp(pc, h.pc)
    BY <1>2, <1>3 DEF HandlerFields, IsPc, PcFields, SameSdp
  <2> HIDE DEF h
  <2> QED
    BY <1>1, <2>1, <2>2, SimpleSdp
<1>13. CASE OnDtlsTransportStateChanged
  <2> DEFINE state == First("sig").arg
             up == IF pc.remote_sdp # None /\ pc.remote_sdp.app THEN InitSctpTransport(Begin)
                   ELSE UpdateConnectionState(Begin, "CONNECTED")
             a == [up EXCEPT !.pc.opened = @ \cup pc.media_tracks]
             down == UpdateConnectionState(Begin, state)
             b == [down EXCEPT !.pc.opened = {}]
             c == [b EXCEPT !.pc.media_tracks = {}]
             h == IF state = "CONNECTED" THEN a ELSE c
  <2>1. Finish(h, Idle, "", Taken("sig")) /\ reply' = reply
    BY <1>13 DEF OnDtlsTransportStateChanged, Simple, CloseMediaTracks
  <2>2. LET r == InitSctpTransport(Begin)
        IN  /\ r = [f \in HandlerFields |-> r[f]] /\ IsPc(r.pc) /\ r.net \in Seq(NetItems)
            /\ r.ends # "invoke" /\ SameSdp(pc, r.pc)
    BY <1>2, <1>3, <1>4, <1>5, <1>6 DEF InitSctpTransport
  <2>3. /\ up = [f \in HandlerFields |-> up[f]] /\ IsPc(up.pc) /\ up.net \in Seq(NetItems)
        /\ up.ends # "invoke" /\ SameSdp(pc, up.pc)
    BY <1>2, <1>3, <1>10, <2>2
  <2>4. /\ down = [f \in HandlerFields |-> down[f]] /\ IsPc(down.pc) /\ down.net \in Seq(NetItems)
        /\ down.ends # "invoke" /\ SameSdp(pc, down.pc)
    BY <1>2, <1>3, <1>10
  <2> HIDE DEF up, down
  <2>5. IsPc(a.pc) /\ a.net \in Seq(NetItems) /\ a.ends # "invoke" /\ SameSdp(pc, a.pc)
    BY <2>3 DEF HandlerFields, IsPc, PcFields, SameSdp
  <2>6. /\ b = [f \in HandlerFields |-> b[f]] /\ IsPc(b.pc) /\ b.net \in Seq(NetItems)
        /\ b.ends # "invoke" /\ SameSdp(pc, b.pc)
    BY <2>4 DEF HandlerFields, IsPc, PcFields, SameSdp
  <2> HIDE DEF a, b
  <2>7. IsPc(c.pc) /\ c.net \in Seq(NetItems) /\ c.ends # "invoke" /\ SameSdp(pc, c.pc)
    BY <2>6 DEF HandlerFields, IsPc, PcFields, SameSdp
  <2> HIDE DEF c
  <2>8. IsPc(h.pc) /\ h.net \in Seq(NetItems) /\ h.ends # "invoke" /\ SameSdp(pc, h.pc)
    BY <2>5, <2>7
  <2> HIDE DEF h
  <2> QED
    BY <1>1, <2>1, <2>8, SimpleSdp
<1>14. CASE OnSctpTransportStateChanged
  <2> DEFINE g == UpdateConnectionState(Begin, First("sig").arg)
             u == g.pc.closed \cup g.pc.data_channels
             a == [g EXCEPT !.pc.closed = u]
             b == [a EXCEPT !.pc.data_channels = {}]
             h == IF First("sig").arg = "CONNECTED" THEN g ELSE b
  <2>1. Finish(h, Idle, "", Taken("sig")) /\ reply' = reply
    BY <1>14 DEF OnSctpTransportStateChanged, Simple, CloseDataChannels
  <2>2. /\ g = [f \in HandlerFields |-> g[f]] /\ IsPc(g.pc) /\ g.net \in Seq(NetItems)
        /\ g.ends # "invoke" /\ SameSdp(pc, g.pc)
    BY <1>2, <1>3, <1>10
  <2> HIDE DEF g, u
  <2>3. /\ a = [f \in HandlerFields |-> a[f]] /\ IsPc(a.pc) /\ a.net \in Seq(NetItems)
        /\ a.ends # "invoke" /\ SameSdp(pc, a.pc)
    BY <2>2 DEF HandlerFields, IsPc, PcFields, SameSdp
  <2> HIDE DEF a
  <2>4. IsPc(b.pc) /\ b.net \in Seq(NetItems) /\ b.ends # "invoke" /\ SameSdp(pc, b.pc)
    BY <2>3 DEF HandlerFields, IsPc, PcFields, SameSdp
  <2> HIDE DEF b
  <2>5. IsPc(h.pc) /\ h.net \in Seq(NetItems) /\ h.ends # "invoke" /\ SameSdp(pc, h.pc)
    BY <2>2, <2>4
  <2> HIDE DEF h
  <2> QED
    BY <1>1, <2>1, <2>5, SimpleSdp
<1>15. CASE OnDtlsVerify
  BY <1>1, <1>2, <1>3, <1>15, ReplyType, SimpleSdp DEF OnDtlsVerify
<1>16. CASE CloseSignaling
  <2> DEFINE a == [Begin EXCEPT !.pc.negotiation_needed = FALSE]
             b == [a EXCEPT !.pc.data_channel_needed = FALSE]
             c == [b EXCEPT !.pc.opened = {}]
             d == [c EXCEPT !.pc.media_tracks = {}]
             u == d.pc.closed \cup d.pc.data_channels
             e == [d EXCEPT !.pc.closed = u]
             h == [e EXCEPT !.pc.data_channels = {}]
  <2>1. Finish(h, Idle, "", Taken("sig")) /\ reply' = [reply EXCEPT !["app"] = "yes"]
    BY <1>16 DEF CloseSignaling, CloseDataChannels, CloseMediaTracks, Answer
  <2>2. /\ a = [f \in HandlerFields |-> a[f]] /\ IsPc(a.pc) /\ a.net \in Seq(NetItems)
        /\ a.ends # "invoke" /\ SameSdp(pc, a.pc)
    BY <1>2, <1>3 DEF HandlerFields, IsPc, PcFields, SameSdp
  <2> HIDE DEF a
  <2>3. /\ b = [f \in HandlerFields |-> b[f]] /\ IsPc(b.pc) /\ b.net \in Seq(NetItems)
        /\ b.ends # "invoke" /\ SameSdp(pc, b.pc)
    BY <2>2 DEF HandlerFields, IsPc, PcFields, SameSdp
  <2> HIDE DEF b
  <2>4. /\ c = [f \in HandlerFields |-> c[f]] /\ IsPc(c.pc) /\ c.net \in Seq(NetItems)
        /\ c.ends # "invoke" /\ SameSdp(pc, c.pc)
    BY <2>3 DEF HandlerFields, IsPc, PcFields, SameSdp
  <2> HIDE DEF c
  <2>5. /\ d = [f \in HandlerFields |-> d[f]] /\ IsPc(d.pc) /\ d.net \in Seq(NetItems)
        /\ d.ends # "invoke" /\ SameSdp(pc, d.pc)
    BY <2>4 DEF HandlerFields, IsPc, PcFields, SameSdp
  <2> HIDE DEF d, u
  <2>6. /\ e = [f \in HandlerFields |-> e[f]] /\ IsPc(e.pc) /\ e.net \in Seq(NetItems)
        /\ e.ends # "invoke" /\ SameSdp(pc, e.pc)
    BY <2>5 DEF HandlerFields, IsPc, PcFields, SameSdp
  <2> HIDE DEF e
  <2>7. IsPc(h.pc) /\ h.net \in Seq(NetItems) /\ h.ends # "invoke" /\ SameSdp(pc, h.pc)
    BY <2>6 DEF HandlerFields, IsPc, PcFields, SameSdp
  <2> HIDE DEF h
  <2>8. reply' = [t \in Threads |-> reply'[t]]
    BY <1>1, <2>1, ReplyType
  <2> QED
    BY <2>1, <2>7, <2>8, SimpleSdp
<1> QED
  BY <1>7, <1>8, <1>9, <1>11, <1>12, <1>13, <1>14, <1>15, <1>16

\* AddDataChannel, in its three parts.
LEMMA AddChannelSdp ==
  ASSUME NegotiationInv,
         \/ queue["sig"] # <<>> /\ AddDataChannel
         \/ ResumeAddDataChannel \/ ResumeAddDataChannelOpen
  PROVE NegotiationInv' /\ SdpStep(pc, pc')
<1>1. /\ TypeInv /\ reply = [t \in Threads |-> reply[t]]
      /\ queue = [q \in Queues |-> queue[q]] /\ queue["sig"] \in Seq(SigItems)
      /\ queue["net"] \in Seq(NetItems)
  BY DEF NegotiationInv, TypeInv
<1>2. /\ Begin = [f \in HandlerFields |-> Begin[f]] /\ IsPc(Begin.pc) /\ Begin.net \in Seq(NetItems)
      /\ Begin.pc = pc /\ Begin.ends = "return" /\ SameSdp(pc, Begin.pc)
  BY <1>1, BeginHandler DEF Handler, SameSdp
<1> HIDE DEF Taken, Begin
<1>3. CASE queue["sig"] # <<>> /\ AddDataChannel
  <2> DEFINE h == [Begin EXCEPT !.ends = "invoke"]
  <2>1. Finish(h, Item("addChannelRole"), "role", Taken("sig")) /\ reply' = reply
    BY <1>3 DEF AddDataChannel
  <2>2. IsPc(h.pc) /\ h.net \in Seq(NetItems) /\ SameSdp(pc, h.pc)
    BY <1>2 DEF HandlerFields
  <2> HIDE DEF h
  <2>3. SdpStep(pc, h.pc) /\ Resumable(Item("addChannelRole"), h.pc)
    BY <2>2 DEF SdpStep, Resumable, Item
  <2>4. /\ Taken("sig") = [q \in Queues |-> Taken("sig")[q]]
        /\ Taken("sig")["sig"] \in Seq(SigItems) /\ Taken("sig")["net"] \in Seq(NetItems)
    BY <1>1, <1>3, FirstType
  <2> QED
    BY <1>1, <2>1, <2>2, <2>3, <2>4, FinishSdp DEF Queries
<1>4. CASE ResumeAddDataChannel
  <2>1. PICK id :
          Finish([Begin EXCEPT !.ends = "invoke",
                    !.pc.stream_id = Append(@, id),
                    !.pc.data_channels = @ \cup {Len(pc.stream_id) + 1},
                    !.pc.data_channel_needed = TRUE,
                    !.pc.negotiation_needed = @ \/ pc.local_sdp = None \/ ~pc.local_sdp.app],
                 Item("addChannelOpen"), "sctpConnected", queue)
    BY <1>4 DEF ResumeAddDataChannel
  <2> DEFINE ids == Append(Begin.pc.stream_id, id)
             chs == Begin.pc.data_channels \cup {Len(pc.stream_id) + 1}
             need == Begin.pc.negotiation_needed \/ pc.local_sdp = None \/ ~pc.local_sdp.app
             a == [Begin EXCEPT !.ends = "invoke"]
             b == [a EXCEPT !.pc.stream_id = ids]
             c == [b EXCEPT !.pc.data_channels = chs]
             d == [c EXCEPT !.pc.data_channel_needed = TRUE]
             h == [d EXCEPT !.pc.negotiation_needed = need]
  <2>2. Finish(h, Item("addChannelOpen"), "sctpConnected", queue)
    BY <2>1
  <2> HIDE DEF ids, chs, need
  <2>3. /\ a = [f \in HandlerFields |-> a[f]] /\ IsPc(a.pc) /\ SameSdp(pc, a.pc)
        /\ a.net = Begin.net /\ a.ends = "invoke"
    BY <1>2 DEF HandlerFields
  <2> HIDE DEF a
  <2>4. /\ b = [f \in HandlerFields |-> b[f]] /\ IsPc(b.pc) /\ SameSdp(pc, b.pc)
        /\ b.net = Begin.net
    BY <2>3 DEF HandlerFields, IsPc, PcFields, SameSdp
  <2> HIDE DEF b
  <2>5. /\ c = [f \in HandlerFields |-> c[f]] /\ IsPc(c.pc) /\ SameSdp(pc, c.pc)
        /\ c.net = Begin.net
    BY <2>4 DEF HandlerFields, IsPc, PcFields, SameSdp
  <2> HIDE DEF c
  <2>6. /\ d = [f \in HandlerFields |-> d[f]] /\ IsPc(d.pc) /\ SameSdp(pc, d.pc)
        /\ d.net = Begin.net
    BY <2>5 DEF HandlerFields, IsPc, PcFields, SameSdp
  <2> HIDE DEF d
  <2>7. IsPc(h.pc) /\ SameSdp(pc, h.pc) /\ h.net = Begin.net
    BY <2>6 DEF HandlerFields, IsPc, PcFields, SameSdp
  <2> HIDE DEF h
  <2>8. SdpStep(pc, h.pc) /\ Resumable(Item("addChannelOpen"), h.pc)
    BY <2>7 DEF SdpStep, Resumable, Item
  <2>9. reply' = [t \in Threads |-> reply'[t]]
    BY <1>1, <1>4, ReplyType DEF ResumeAddDataChannel
  <2> QED
    BY <1>1, <1>2, <2>2, <2>7, <2>8, <2>9, FinishSdp DEF Queries
<1>5. CASE ResumeAddDataChannelOpen
  BY <1>1, <1>2, <1>5, ReplyType, FinishSdp DEF ResumeAddDataChannelOpen, SdpStep
<1> QED
  BY <1>3, <1>4, <1>5

\* Every step of the signaling queue.
LEMMA SignalingSdp ==
  ASSUME NegotiationInv, Signaling
  PROVE NegotiationInv' /\ SdpStep(pc, pc')
  BY NegotiationClosures, OtherClosures, AddChannelSdp, ResumeSdp DEF Ready, Signaling

\* The other threads assign no member of the signaling queue, and no one else blocks or
\* resumes its thread.
LEMMA ElsewhereSdp ==
  ASSUME NegotiationInv, TypeInv', pc' = pc, blocked'["sig"] = blocked["sig"]
  PROVE NegotiationInv' /\ SdpStep(pc, pc')
  BY DEF NegotiationInv, SdpStep, SameSdp

\* What the network queue reports to the signaling queue is well typed.
LEMMA PostsType ==
  /\ <<>> \in Seq(SigItems)
  /\ \A op \in {"iceState", "dtlsState", "sctpState"}, s \in States :
        <<ItemOf(op, s)>> \in Seq(SigItems) /\ \A old : Reported(old, s, op) \in Seq(SigItems)
  /\ \A s \in {"GATHERING", "COMPLETED"} :
        <<ItemOf("gathering", s)>> \in Seq(SigItems)
        /\ \A old : Reported(old, s, "gathering") \in Seq(SigItems)
  /\ \A r \in Roles : <<ItemOf("role", r)>> \in Seq(SigItems)
<1>1. \A op \in {"iceState", "dtlsState", "sctpState"}, s \in States : ItemOf(op, s) \in SigItems
  BY DEF ItemOf, SigItems
<1>2. \A s \in {"GATHERING", "COMPLETED"} : ItemOf("gathering", s) \in SigItems
  BY DEF ItemOf, SigItems
<1>3. \A r \in Roles : ItemOf("role", r) \in SigItems
  BY DEF ItemOf, SigItems
<1> HIDE DEF ItemOf, SigItems
<1> QED
  BY <1>1, <1>2, <1>3 DEF Reported

\* Assigning fields of the transports keeps them a record of the same fields.
LEMMA TrType ==
  ASSUME TypeInv, NEW f, NEW v
  PROVE [tr EXCEPT ![f] = v] = [g \in TrFields |-> [tr EXCEPT ![f] = v][g]]
  BY DEF TypeInv

\* Every closure of the network queue keeps the types and the members of the signaling queue.
LEMMA NetworkType ==
  ASSUME TypeInv, Network
  PROVE TypeInv' /\ pc' = pc /\ blocked'["sig"] = blocked["sig"]
<1>1. reply = [t \in Threads |-> reply[t]] /\ tr = [f \in TrFields |-> tr[f]]
  BY DEF TypeInv
<1>2. CASE ResumeHandshake
  BY <1>1, <1>2, ReplyType, PostType DEF ResumeHandshake, TypeInv, Threads, Queues, ItemOf, SigItems, States
<1>3. ASSUME queue["net"] # <<>>, reply' = [t \in Threads |-> reply'[t]],
             \E t, posts : /\ NetDone(t, posts) /\ t = [f \in TrFields |-> t[f]]
                           /\ posts \in Seq(SigItems)
      PROVE TypeInv' /\ pc' = pc /\ blocked'["sig"] = blocked["sig"]
  BY <1>3, NetDoneType
<1>4. CASE Ready("net") /\ ~ResumeHandshake
  <2>1. queue["net"] # <<>> /\ First("net") \in NetItems
    BY <1>4, FirstType DEF Ready
  <2>2. \A x, y : [reply EXCEPT ![x] = y] = [t \in Threads |-> [reply EXCEPT ![x] = y][t]]
    BY <1>1, ReplyType
  <2>3. CASE NewIceTransport \/ NewSctpTransport
    BY <1>1, <1>3, <2>1, <2>3, PostsType, TrType DEF NewIceTransport, NewSctpTransport
  <2>4. CASE Query
    BY <1>1, <1>3, <2>1, <2>2, <2>4, PostsType DEF Query, WithIce, NetFails
  <2>5. CASE Gather
    BY <1>1, <1>3, <2>1, <2>5, PostsType, TrType DEF Gather, WithIce, NetFails
  <2>6. CASE AddIceCandidate
    BY <1>1, <1>3, <2>1, <2>6, PostsType DEF AddIceCandidate, WithIce, NetFails
  <2>7. CASE SetRemoteIce
    <3> DEFINE theirs == First("net").arg
               changes == tr.role = "ACT_PASS"
               role == IF ~changes THEN tr.role
                       ELSE IF theirs = "ACTIVE" THEN "PASSIVE" ELSE "ACTIVE"
               a == [tr EXCEPT !.role = role]
               b == [tr EXCEPT !.role = role, !.trickle = @ \/ role # theirs]
               posts == IF changes THEN <<ItemOf("role", role)>> ELSE <<>>
    <3>1. \/ NetDone(tr, <<>>)
          \/ NetDone(b, posts)
      BY <2>7 DEF SetRemoteIce, WithIce, NetFails
    <3>2. posts \in Seq(SigItems)
      BY PostsType DEF Roles
    <3>3. b = [f \in TrFields |-> b[f]]
      BY <1>1
    <3>4. reply' = reply
      BY <2>7 DEF SetRemoteIce
    <3> HIDE DEF b, posts
    <3> QED
      BY <1>1, <1>3, <2>1, <3>1, <3>2, <3>3, <3>4, PostsType
  <2>8. CASE OnIceEvent
    <3> DEFINE state == First("net").arg
               timer == IF state \in {"CONNECTED", "timeout"} THEN "off" ELSE tr.timer
               to == IF state = "timeout" THEN "FAILED" ELSE state
               a == [tr EXCEPT !.timer = "armed"]
               b == [tr EXCEPT !.timer = timer, !.ice = to]
               posts == IF to = "COMPLETED" THEN <<>> ELSE Reported(tr.ice, to, "iceState")
    <3>1. \/ NetDone(tr, <<>>)
          \/ NetDone(a, <<>>)
          \/ NetDone(b, posts)
      BY <2>8 DEF OnIceEvent, OfIce, NetFails
    <3>2. to \in States
      BY <2>1, <2>8 DEF OnIceEvent, NetItems, PlainNet, States
    <3>3. a = [f \in TrFields |-> a[f]] /\ b = [f \in TrFields |-> b[f]]
      BY <1>1
    <3>4. posts \in Seq(SigItems)
      BY <3>2, PostsType
    <3>5. reply' = reply
      BY <2>8 DEF OnIceEvent
    <3> HIDE DEF a, b, posts
    <3> QED
      BY <1>1, <1>3, <2>1, <3>1, <3>3, <3>4, <3>5, PostsType
  <2>9. CASE OnGatheringDone
    BY <1>1, <1>3, <2>1, <2>9, PostsType, TrType DEF OnGatheringDone, OfIce, NetFails
  <2>10. CASE NewDtlsTransport
    <3> DEFINE t == [tr EXCEPT !.dtls = "CONNECTING", !.dtls_made = @ + 1, !.verified = FALSE]
    <3>1. (NetDone(tr, <<>>) \/ NetDone(t, <<>>)) /\ reply' = reply
      BY <2>10 DEF NewDtlsTransport, WithIce, NetFails
    <3>2. t = [f \in TrFields |-> t[f]]
      BY <1>1
    <3> HIDE DEF t
    <3> QED
      BY <1>1, <1>3, <2>1, <3>1, <3>2, PostsType
  <2>11. CASE OnHandshakePacket
    <3>1. reply' = reply
      BY <2>11 DEF OnHandshakePacket
    <3>2. \/ NetDone(tr, <<>>)
          \/ NetDone([tr EXCEPT !.dtls = "CONNECTED"], <<ItemOf("dtlsState", "CONNECTED")>>)
          \/ NetDone([tr EXCEPT !.dtls = "FAILED"], <<ItemOf("dtlsState", "FAILED")>>)
          \/ /\ blocked' = [blocked EXCEPT !["net"] = Item("handshake")]
             /\ queue' = [Taken("net") EXCEPT !["sig"] = Append(@, InvokeOf("verify", "net"))]
             /\ UNCHANGED <<pc, tr>>
      BY <2>11 DEF OnHandshakePacket, OfIce, NetFails
    <3>3. CASE NetDone(tr, <<>>)
      BY <1>1, <1>3, <2>1, <3>1, <3>3, PostsType
    <3>4. CASE NetDone([tr EXCEPT !.dtls = "CONNECTED"], <<ItemOf("dtlsState", "CONNECTED")>>)
      BY <1>1, <1>3, <2>1, <3>1, <3>4, PostsType, TrType DEF States
    <3>5. CASE NetDone([tr EXCEPT !.dtls = "FAILED"], <<ItemOf("dtlsState", "FAILED")>>)
      BY <1>1, <1>3, <2>1, <3>1, <3>5, PostsType, TrType DEF States
    <3>6. CASE /\ blocked' = [blocked EXCEPT !["net"] = Item("handshake")]
               /\ queue' = [Taken("net") EXCEPT !["sig"] = Append(@, InvokeOf("verify", "net"))]
               /\ UNCHANGED <<pc, tr>>
      <4>1. InvokeOf("verify", "net") \in SigItems
        BY DEF InvokeOf, SigItems
      <4>2. Append(queue["sig"], InvokeOf("verify", "net")) \in Seq(SigItems)
        BY <4>1 DEF TypeInv
      <4>3. /\ queue'["sig"] = Append(queue["sig"], InvokeOf("verify", "net"))
            /\ queue'["net"] = Tail(queue["net"]) /\ Tail(queue["net"]) \in Seq(NetItems)
            /\ queue' = [q \in Queues |-> queue'[q]]
        <5> HIDE DEF Taken
        <5> QED
          BY <2>1, <3>6, FirstType DEF Queues
      <4>4. blocked' = [t \in Threads |-> blocked'[t]] /\ blocked'["sig"] = blocked["sig"]
        BY <3>6 DEF TypeInv, Threads, Queues
      <4> QED
        BY <3>1, <3>6, <4>2, <4>3, <4>4 DEF TypeInv
    <3> QED
      BY <3>2, <3>3, <3>4, <3>5, <3>6
  <2>12. CASE OnSctpEvent
    BY <1>1, <1>3, <2>1, <2>12, PostsType, TrType DEF OnSctpEvent, NetItems, PlainNet, States
  <2>13. CASE CloseTransports
    <3> DEFINE a == IF tr.sctp \in {"none", "DISCONNECTED"} THEN <<>>
                    ELSE <<ItemOf("sctpState", "DISCONNECTED")>>
               b == IF tr.dtls = "none" THEN <<>> ELSE <<ItemOf("dtlsState", "DISCONNECTED")>>
               t == [tr EXCEPT !.ice = "none", !.dtls = "none", !.sctp = "none", !.timer = "off"]
    <3>1. NetDone(t, a \o b) /\ reply' = [reply EXCEPT !["app"] = "yes"]
      BY <2>13 DEF CloseTransports, Answer
    <3>2. a \in Seq(SigItems) /\ b \in Seq(SigItems)
      BY PostsType DEF States
    <3>3. t = [f \in TrFields |-> t[f]]
      BY <1>1
    <3> HIDE DEF a, b, t
    <3>4. a \o b \in Seq(SigItems)
      BY <3>2, ConcatProperties
    <3> QED
      BY <1>3, <2>1, <2>2, <3>1, <3>3, <3>4
  <2> QED
    BY <1>4, <2>3, <2>4, <2>5, <2>6, <2>7, <2>8, <2>9, <2>10, <2>11, <2>12, <2>13 DEF Network
<1> QED
  BY <1>2, <1>4 DEF Network

\* The worker queue, the application, the returning Invokes and the outside world.
LEMMA ElsewhereType ==
  ASSUME TypeInv, Worker \/ Application \/ Returns \/ World
  PROVE TypeInv' /\ pc' = pc /\ blocked'["sig"] = blocked["sig"]
<1>1. /\ reply = [t \in Threads |-> reply[t]] /\ tr = [f \in TrFields |-> tr[f]]
      /\ blocked = [t \in Threads |-> blocked[t]]
  BY DEF TypeInv
<1>2. \A w : LET b == [blocked EXCEPT !["app"] = w]
             IN  b = [t \in Threads |-> b[t]] /\ b["sig"] = blocked["sig"]
  BY <1>1 DEF Threads, Queues
<1>3. CASE Worker
  BY <1>1, <1>3, ReplyType DEF Worker, Taken, TypeInv, Queues, OnNegotiated, ClearCall, Answer
<1>4. ASSUME NEW q \in Queues, NEW item, NEW wait, Call(q, item, wait),
             q = "sig" => item \in SigItems, q = "net" => item \in NetItems
      PROVE TypeInv' /\ pc' = pc /\ blocked'["sig"] = blocked["sig"]
  BY <1>1, <1>2, <1>4, PostType DEF Call
<1>5. CASE Application
  BY <1>4, <1>5 DEF Item, ItemOf, SigItems, Queues, Application
<1>6. CASE Returns
  <2>1. UNCHANGED <<pc, tr>> /\ reply' = [reply EXCEPT !["app"] = NoReply]
    BY <1>6 DEF Returns
  <2>2. reply' = [t \in Threads |-> reply'[t]]
    BY <1>1, <2>1, ReplyType
  <2>3. PICK w : blocked' = [blocked EXCEPT !["app"] = w]
    BY <1>6 DEF Returns
  <2>4. \/ queue' = queue
        \/ queue' = [queue EXCEPT !["net"] = Append(@, Item("closeTransports"))]
        \/ queue' = [queue EXCEPT !["sig"] = Append(@, Item("close"))]
    BY <1>6 DEF Returns
  <2>5. Item("closeTransports") \in NetItems /\ Item("close") \in SigItems
    BY DEF Item, NetItems, SigItems
  <2>6. "sig" \in Queues /\ "net" \in Queues
    BY DEF Queues
  <2>7. CASE queue' = queue
    BY <1>2, <2>1, <2>2, <2>3, <2>7 DEF TypeInv
  <2>8. CASE queue' = [queue EXCEPT !["net"] = Append(@, Item("closeTransports"))]
    BY <1>1, <1>2, <2>1, <2>2, <2>3, <2>5, <2>6, <2>8, PostType
  <2>9. CASE queue' = [queue EXCEPT !["sig"] = Append(@, Item("close"))]
    BY <1>1, <1>2, <2>1, <2>2, <2>3, <2>5, <2>6, <2>9, PostType
  <2> QED
    BY <2>4, <2>7, <2>8, <2>9
<1>7. CASE World
  <2>1. PICK item \in NetItems : Event(item)
    <3>1. /\ \A s \in AgentSteps : ItemOf("iceEvent", s[2]) \in NetItems
          /\ ItemOf("iceEvent", "timeout") \in NetItems
      BY DEF AgentSteps, ItemOf, NetItems, States
    <3>2. /\ Item("gatheringDone") \in NetItems /\ Item("packet") \in NetItems
          /\ ItemOf("sctpEvent", "CONNECTED") \in NetItems
          /\ ItemOf("sctpEvent", "DISCONNECTED") \in NetItems
      BY DEF Item, ItemOf, NetItems
    <3> HIDE DEF NetItems
    <3> QED
      BY <1>7, <3>1, <3>2 DEF World
  <2>2. tr' = tr \/ tr' = [tr EXCEPT !.timer = "fired"]
    BY <1>7 DEF World
  <2>3. tr' = [f \in TrFields |-> tr'[f]]
    BY <1>1, <2>2, TrType
  <2>4. queue' = [queue EXCEPT !["net"] = Append(@, item)] /\ UNCHANGED <<blocked, reply, pc>>
    BY <2>1 DEF Event
  <2> QED
    BY <1>1, <2>3, <2>4, PostType DEF Queues
<1> QED
  BY <1>3, <1>5, <1>6, <1>7

\* Every step makes at most one step of the exchange.
LEMMA NegotiationStep ==
  ASSUME NegotiationInv, [Next]_vars
  PROVE NegotiationInv' /\ SdpStep(pc, pc')
  BY SignalingSdp, NetworkType, ElsewhereSdp, ElsewhereType DEF NegotiationInv, vars, TypeInv, SdpStep, SameSdp, Next

\* The initial state is well typed and has no description.
LEMMA NegotiationInit == Init => NegotiationInv
<1> SUFFICES ASSUME Init PROVE NegotiationInv
  OBVIOUS
<1>1. IsPc(pc) /\ pc.signaling = "STABLE"
  BY DEF Init, IsPc, PcFields
<1>2. tr = [f \in TrFields |-> tr[f]]
  BY DEF Init, TrFields
<1>3. Item("initIce") \in SigItems
  BY DEF Item, SigItems
<1>4. /\ queue = [q \in Queues |-> queue[q]]
      /\ queue["sig"] = <<Item("initIce")>> /\ queue["net"] = <<>>
  BY DEF Init, Queues
<1>5. /\ blocked = [t \in Threads |-> blocked[t]] /\ reply = [t \in Threads |-> reply[t]]
      /\ blocked["sig"] = Idle
  BY DEF Init, Threads, Queues
<1>6. queue["sig"] \in Seq(SigItems) /\ queue["net"] \in Seq(NetItems)
  <2>1. \A S : \A e \in S : <<e>> \in Seq(S)
    OBVIOUS
  <2>2. <<Item("initIce")>> \in Seq(SigItems)
    BY <1>3, <2>1
  <2> QED
    BY <1>4, <2>2, EmptySeq
<1>7. TypeInv
  BY <1>1, <1>2, <1>4, <1>5, <1>6 DEF TypeInv
<1> QED
  BY <1>1, <1>5, <1>7 DEF NegotiationInv, OfferHeld, Resumable, Idle

\* Whatever its threads do, PeerConnection changes its signaling state and its
\* descriptions only in complete steps of the offer/answer exchange: Spec implements
\* OfferAnswer, for every configuration and every set of descriptions of the peer.
THEOREM OfferAnswerImplemented == Spec => ImplementsOfferAnswer
<1>1. Init => Negotiation!Init
  BY DEF Init, None, Negotiation!Init
<1>2. NegotiationInv /\ [Next]_vars => [Negotiation!Next]_(Negotiation!vars)
  <2> SUFFICES ASSUME NegotiationInv, [Next]_vars PROVE [Negotiation!Next]_(Negotiation!vars)
    OBVIOUS
  <2>1. SdpStep(pc, pc')
    BY NegotiationStep
  <2> QED
    BY <2>1 DEF SdpStep, SameSdp, Negotiation!Next, Negotiation!vars, Negotiation!LocalOffer,
                Negotiation!RemoteOffer, Negotiation!LocalAnswer, Negotiation!RemoteAnswer
<1>3. NegotiationInv /\ [Next]_vars => NegotiationInv'
  BY NegotiationStep
<1> QED
  BY <1>1, <1>2, <1>3, NegotiationInit, PTL DEF Spec, ImplementsOfferAnswer, Negotiation!Spec
-----------------------------------------------------------------------------
(***************************************************************************)
(* The transports.  While the ICE agent does not flap faster than the       *)
(* queues follow, at most one DTLS and one SCTP transport is made, and the  *)
(* connection is reported as connected only after the peer's certificate    *)
(* was verified.  Whatever the agent does, no closure meets a missing       *)
(* transport before the connection is closed.                               *)
(***************************************************************************)

-----------------------------------------------------------------------------
(* The invariant.  The decision to make a transport travels from queue to    *)
(* queue as a closure; the invariant follows these closures.                 *)

In(s, e) == \E i \in 1..Len(s) : s[i] = e
Uniq(s, e) == \A i, j \in 1..Len(s) : s[i] = e /\ s[j] = e => i = j

InitIce == Item("initIce")
NewIce == Item("newIce")
AgentUp == ItemOf("iceEvent", "CONNECTED")
IceUp == ItemOf("iceState", "CONNECTED")
NewDtls == Item("newDtls")
DtlsUp == ItemOf("dtlsState", "CONNECTED")
NewSctp == Item("newSctp")
AssocUp == ItemOf("sctpEvent", "CONNECTED")
SctpUp == ItemOf("sctpState", "CONNECTED")

\* The constructor's closure makes the only ICE transport.
IceOnce(sig, net) ==
    /\ Uniq(sig, InitIce) /\ Uniq(net, NewIce)
    /\ ~(In(sig, InitIce) /\ In(net, NewIce))
    /\ tr.ice # "none" \/ tr.dtls_made # 0 => ~In(sig, InitIce) /\ ~In(net, NewIce)

\* One report of the agent is under way at a time, and it meets no DTLS transport.
DtlsOnce(sig, net) ==
    /\ Uniq(net, AgentUp) /\ Uniq(sig, IceUp) /\ Uniq(net, NewDtls)
    /\ ~(In(net, AgentUp) /\ In(sig, IceUp))
    /\ ~(In(net, AgentUp) /\ In(net, NewDtls))
    /\ ~(In(sig, IceUp) /\ In(net, NewDtls))
    /\ In(net, NewDtls) => tr.dtls = "none"
    /\ tr.dtls = "none" => tr.dtls_made = 0 \/ tr.ice = "none"
    /\ tr.dtls # "none" => tr.dtls_made = 1
    /\ tr.dtls_made \in {0, 1}

\* The handshake ends once, and so does the making of the SCTP transport.
SctpOnce(sig, net) ==
    /\ Uniq(sig, DtlsUp) /\ Uniq(net, NewSctp)
    /\ ~(In(sig, DtlsUp) /\ In(net, NewSctp))
    /\ tr.sctp_made \in {0, 1}
    /\ tr.sctp_made = 1 => ~In(sig, DtlsUp) /\ ~In(net, NewSctp)
    /\ tr.dtls = "CONNECTING" \/ tr.dtls_made = 0 =>
          ~In(sig, DtlsUp) /\ ~In(net, NewSctp) /\ tr.sctp_made = 0

\* Whatever says that the connection is up says so of a verified peer.
UpIsVerified(sig, net) ==
    /\ \/ tr.dtls = "CONNECTED" \/ tr.sctp # "none" \/ pc.connection = "CONNECTED"
       \/ In(sig, DtlsUp) \/ In(net, NewSctp) \/ In(net, AssocUp) \/ In(sig, SctpUp)
       => tr.verified = TRUE
    /\ tr.verified \in BOOLEAN
    /\ tr.dtls_made = 0 => tr.verified = FALSE
    /\ blocked["net"].op = "handshake" => tr.dtls = "CONNECTING" /\ tr.verified = FALSE

TransportInv ==
    /\ IceOnce(queue["sig"], queue["net"])
    /\ DtlsOnce(queue["sig"], queue["net"])
    /\ SctpOnce(queue["sig"], queue["net"])
    /\ UpIsVerified(queue["sig"], queue["net"])

-----------------------------------------------------------------------------
(* Closures in queues                                                        *)

\* Every closure x of T that waits in t also waits in s, and none twice that did not in s.
Calm(s, t, T) == \A x \in T : (In(t, x) => In(s, x)) /\ (Uniq(s, x) => Uniq(t, x))

\* Concatenation waits for both.
LEMMA ConcatIn ==
  ASSUME NEW S, NEW s \in Seq(S), NEW t \in Seq(S), NEW x
  PROVE /\ In(s \o t, x) <=> In(s, x) \/ In(t, x)
        /\ Uniq(s, x) /\ ~In(t, x) => Uniq(s \o t, x)
        /\ ~In(s, x) /\ Uniq(t, x) => Uniq(s \o t, x)
<1>1. /\ Len(s \o t) = Len(s) + Len(t) /\ Len(s) \in Nat /\ Len(t) \in Nat
      /\ \A i \in 1..(Len(s) + Len(t)) : (s \o t)[i] = IF i <= Len(s) THEN s[i] ELSE t[i - Len(s)]
  BY ConcatProperties, LenProperties
<1>2. In(s \o t, x) => In(s, x) \/ In(t, x)
  <2> SUFFICES ASSUME NEW i \in 1..(Len(s) + Len(t)), (s \o t)[i] = x PROVE In(s, x) \/ In(t, x)
    BY <1>1 DEF In
  <2>1. CASE i <= Len(s)
    BY <1>1, <2>1 DEF In
  <2>2. CASE ~(i <= Len(s))
    BY <1>1, <2>2 DEF In
  <2> QED
    BY <2>1, <2>2
<1>3. In(s, x) => In(s \o t, x)
  <2> SUFFICES ASSUME NEW i \in 1..Len(s), s[i] = x PROVE In(s \o t, x)
    BY DEF In
  <2>1. i \in 1..(Len(s) + Len(t)) /\ (s \o t)[i] = x
    BY <1>1
  <2> QED
    BY <1>1, <2>1 DEF In
<1>4. In(t, x) => In(s \o t, x)
  <2> SUFFICES ASSUME NEW i \in 1..Len(t), t[i] = x PROVE In(s \o t, x)
    BY DEF In
  <2>1. i + Len(s) \in 1..(Len(s) + Len(t)) /\ (s \o t)[i + Len(s)] = x
    BY <1>1
  <2> QED
    BY <1>1, <2>1 DEF In
<1>5. ASSUME Uniq(s, x), ~In(t, x)
      PROVE Uniq(s \o t, x)
  <2> SUFFICES ASSUME NEW i \in 1..(Len(s) + Len(t)), NEW j \in 1..(Len(s) + Len(t)),
                      (s \o t)[i] = x, (s \o t)[j] = x
               PROVE i = j
    BY <1>1 DEF Uniq
  <2>1. \A k \in 1..(Len(s) + Len(t)) : (s \o t)[k] = x => k \in 1..Len(s) /\ s[k] = x
    <3> SUFFICES ASSUME NEW k \in 1..(Len(s) + Len(t)), (s \o t)[k] = x
                 PROVE k \in 1..Len(s) /\ s[k] = x
      OBVIOUS
    <3>1. CASE k <= Len(s)
      BY <1>1, <3>1
    <3>2. CASE ~(k <= Len(s))
      BY <1>1, <1>5, <3>2 DEF In
    <3> QED
      BY <3>1, <3>2
  <2> QED
    BY <2>1, <1>5 DEF Uniq
<1>6. ASSUME ~In(s, x), Uniq(t, x)
      PROVE Uniq(s \o t, x)
  <2> SUFFICES ASSUME NEW i \in 1..(Len(s) + Len(t)), NEW j \in 1..(Len(s) + Len(t)),
                      (s \o t)[i] = x, (s \o t)[j] = x
               PROVE i = j
    BY <1>1 DEF Uniq
  <2>1. \A k \in 1..(Len(s) + Len(t)) :
          (s \o t)[k] = x => k - Len(s) \in 1..Len(t) /\ t[k - Len(s)] = x
    <3> SUFFICES ASSUME NEW k \in 1..(Len(s) + Len(t)), (s \o t)[k] = x
                 PROVE k - Len(s) \in 1..Len(t) /\ t[k - Len(s)] = x
      OBVIOUS
    <3>1. CASE k <= Len(s)
      BY <1>1, <3>1, <1>6 DEF In
    <3>2. CASE ~(k <= Len(s))
      BY <1>1, <3>2
    <3> QED
      BY <3>1, <3>2
  <2>2. i - Len(s) = j - Len(s)
    BY <2>1, <1>6 DEF Uniq
  <2> QED
    BY <2>2, <1>1
<1> QED
  BY <1>2, <1>3, <1>4, <1>5, <1>6

\* A queue of one closure, and the empty queue.
LEMMA OneIn ==
  ASSUME NEW e, NEW x
  PROVE /\ In(<<e>>, x) <=> e = x
        /\ Uniq(<<e>>, x)
        /\ ~In(<<>>, x) /\ Uniq(<<>>, x)
        /\ <<e>> = <<x>> <=> e = x
        /\ <<>> # <<x>>
        /\ \A S : e \in S => <<e>> \in Seq(S)
  BY DEF In, Uniq

\* Taking the first closure.
LEMMA TailIn ==
  ASSUME NEW S, NEW s \in Seq(S), s # <<>>, NEW x
  PROVE /\ In(Tail(s), x) => In(s, x)
        /\ Uniq(s, x) => Uniq(Tail(s), x)
        /\ Uniq(s, x) /\ Head(s) = x => ~In(Tail(s), x)
        /\ Head(s) = x => In(s, x)
<1>1. /\ Len(s) \in Nat /\ Len(s) > 0 /\ Len(Tail(s)) = Len(s) - 1 /\ Head(s) = s[1]
      /\ \A i \in 1..Len(Tail(s)) : i + 1 \in 1..Len(s) /\ Tail(s)[i] = s[i + 1]
  BY HeadTailProperties, LenProperties, EmptySeq
<1>2. In(Tail(s), x) => In(s, x)
  BY <1>1 DEF In
<1>3. ASSUME Uniq(s, x) PROVE Uniq(Tail(s), x)
  <2> SUFFICES ASSUME NEW i \in 1..Len(Tail(s)), NEW j \in 1..Len(Tail(s)), Tail(s)[i] = x, Tail(s)[j] = x
               PROVE i = j
    BY DEF Uniq
  <2>1. i + 1 = j + 1
    BY <1>1, <1>3 DEF Uniq
  <2> QED
    BY <2>1, <1>1
<1>4. ASSUME Uniq(s, x), Head(s) = x PROVE ~In(Tail(s), x)
  <2> SUFFICES ASSUME NEW i \in 1..Len(Tail(s)), Tail(s)[i] = x PROVE FALSE
    BY DEF In
  <2>1. 1 = i + 1
    BY <1>1, <1>4 DEF Uniq
  <2> QED
    BY <2>1, <1>1
<1>5. Head(s) = x => In(s, x)
  BY <1>1 DEF In
<1> QED
  BY <1>2, <1>3, <1>4, <1>5

-----------------------------------------------------------------------------
(* Steps that make no decision about a transport                             *)

SigTokens == {InitIce, IceUp, DtlsUp, SctpUp}
NetTokens == {NewIce, AgentUp, NewDtls, NewSctp, AssocUp}

\* The transports agree in what the invariant is about.
SameTransports(t, u) ==
    /\ u.ice = "none" <=> t.ice = "none"
    /\ u.dtls = t.dtls /\ u.dtls_made = t.dtls_made /\ u.verified = t.verified
    /\ u.sctp = t.sctp /\ u.sctp_made = t.sctp_made

\* The closures the invariant follows differ from each other.
LEMMA TokensDiffer ==
  /\ InitIce # IceUp /\ InitIce # DtlsUp /\ InitIce # SctpUp
  /\ IceUp # DtlsUp /\ IceUp # SctpUp /\ DtlsUp # SctpUp
  /\ NewIce # AgentUp /\ NewIce # NewDtls /\ NewIce # NewSctp /\ NewIce # AssocUp
  /\ AgentUp # NewDtls /\ AgentUp # NewSctp /\ AgentUp # AssocUp
  /\ NewDtls # NewSctp /\ NewDtls # AssocUp /\ NewSctp # AssocUp
  BY DEF InitIce, IceUp, DtlsUp, SctpUp, NewIce, AgentUp, NewDtls, NewSctp, AssocUp, Item, ItemOf

\* A step that brings no new closure and no new state keeps the invariant.
LEMMA CalmStep ==
  ASSUME TransportInv,
         Calm(queue["sig"], queue'["sig"], SigTokens),
         Calm(queue["net"], queue'["net"], NetTokens),
         SameTransports(tr, tr'),
         pc'.connection = pc.connection \/ pc'.connection # "CONNECTED",
         blocked'["net"] = blocked["net"] \/ blocked'["net"].op # "handshake"
  PROVE TransportInv'
  BY DEF Calm, SigTokens, NetTokens, TransportInv, IceOnce, SameTransports, DtlsOnce, SctpOnce, UpIsVerified

\* Calm steps follow one another.
LEMMA CalmTransitive ==
  ASSUME NEW s, NEW t, NEW u, NEW T, Calm(s, t, T), Calm(t, u, T)
  PROVE Calm(s, u, T)
  BY DEF Calm

\* Taking a closure is calm, and so is posting others than those of T.
LEMMA CalmQueue ==
  ASSUME NEW S, NEW s \in Seq(S), NEW T
  PROVE /\ Calm(s, s, T)
        /\ s # <<>> => Calm(s, Tail(s), T)
        /\ \A t \in Seq(S) : \A P : t \in Seq(P) /\ P \cap T = {} => Calm(s, s \o t, T)
<1>1. Calm(s, s, T)
  BY DEF Calm
<1>2. s # <<>> => Calm(s, Tail(s), T)
  BY TailIn DEF Calm
<1>3. ASSUME NEW t \in Seq(S), NEW P, t \in Seq(P), P \cap T = {}
      PROVE Calm(s, s \o t, T)
  <2>1. \A x \in T : ~In(t, x)
    <3> SUFFICES ASSUME NEW x \in T, NEW i \in 1..Len(t), t[i] = x PROVE FALSE
      BY DEF In
    <3>1. t[i] \in P
      BY <1>3, ElementOfSeq
    <3> QED
      BY <1>3, <3>1
  <2> QED
    BY <2>1, ConcatIn DEF Calm
<1> QED
  BY <1>1, <1>2, <1>3

\* What the negotiation posts decides nothing about a transport.
LEMMA PlainTokens ==
  /\ PlainNet \cap NetTokens = {}
  /\ [op : Queries, from : {"sig"}] \cap NetTokens = {}
  BY DEF NetTokens, NewIce, AgentUp, NewDtls, NewSctp, AssocUp, Item, ItemOf, PlainNet, Queries

\* What a closure of the signaling queue leaves behind, whatever it posts.
LEMMA FinishQueues ==
  ASSUME TypeInv, NEW h, h.net \in Seq(NetItems), NEW rest, NEW op,
         h.ends = "invoke" => op \in Queries,
         NEW taken, taken = [q \in Queues |-> taken[q]],
         taken["sig"] \in Seq(SigItems), taken["net"] \in Seq(NetItems),
         Finish(h, rest, op, taken)
  PROVE /\ queue'["sig"] = taken["sig"]
        /\ Calm(taken["net"] \o h.net, queue'["net"], NetTokens)
        /\ blocked'["net"] = blocked["net"]
        /\ pc' = IF Survives(h) THEN h.pc ELSE pc
        /\ tr' = tr
<1> DEFINE asked == IF h.ends = "invoke" THEN <<InvokeOf(op, "sig")>> ELSE <<>>
           net == taken["net"] \o h.net \o asked
           Asks == [op : Queries, from : {"sig"}]
<1>1. asked \in Seq(NetItems) /\ asked \in Seq(Asks)
  <2>1. h.ends = "invoke" => InvokeOf(op, "sig") \in NetItems /\ InvokeOf(op, "sig") \in Asks
    BY DEF InvokeOf, NetItems, Queries
  <2>2. \A S : \A e \in S : <<e>> \in Seq(S)
    OBVIOUS
  <2> HIDE DEF Asks
  <2> QED
    BY <2>1, <2>2, EmptySeq
<1>2. taken["net"] \o h.net \in Seq(NetItems)
  BY ConcatProperties
<1> HIDE DEF asked, Asks
<1>3. Calm(taken["net"] \o h.net, net, NetTokens)
  BY <1>1, <1>2, CalmQueue, PlainTokens DEF Asks
<1>4. queue' = [taken EXCEPT !["net"] = net, !["wrk"] = @ \o h.wrk]
  BY DEF Finish, asked
<1> HIDE DEF net
<1>5. queue'["sig"] = taken["sig"] /\ queue'["net"] = net
  BY <1>4 DEF Queues
<1>6. /\ pc' = (IF Survives(h) THEN h.pc ELSE pc) /\ tr' = tr
      /\ blocked' = [blocked EXCEPT !["sig"] = IF h.ends = "invoke" THEN rest ELSE Idle]
  BY DEF Finish
<1>7. blocked'["net"] = blocked["net"]
  BY <1>6 DEF TypeInv, Threads, Queues
<1> QED
  BY <1>3, <1>5, <1>6, <1>7

\* A closure of the signaling queue that posts plain closures alone and does not report
\* the connection as up.
LEMMA FinishCalm ==
  ASSUME TypeInv, TransportInv, NEW h, h.net \in Seq(PlainNet),
         Survives(h) => h.pc.connection = pc.connection \/ h.pc.connection # "CONNECTED",
         NEW rest, NEW op, h.ends = "invoke" => op \in Queries,
         NEW taken, taken = queue \/ (queue["sig"] # <<>> /\ taken = Taken("sig")),
         Finish(h, rest, op, taken)
  PROVE TransportInv'
<1>1. queue["sig"] \in Seq(SigItems) /\ queue["net"] \in Seq(NetItems) /\ queue = [q \in Queues |-> queue[q]]
  BY DEF TypeInv
<1>2. /\ taken = [q \in Queues |-> taken[q]]
      /\ taken["sig"] = queue["sig"] \/ (queue["sig"] # <<>> /\ taken["sig"] = Tail(queue["sig"]))
      /\ taken["sig"] \in Seq(SigItems) /\ taken["net"] = queue["net"]
  BY <1>1, FirstType
<1>3. h.net \in Seq(NetItems)
  BY SeqMonotonic DEF NetItems
<1>4. /\ queue'["sig"] = taken["sig"]
      /\ Calm(queue["net"] \o h.net, queue'["net"], NetTokens)
      /\ blocked'["net"] = blocked["net"]
      /\ pc' = IF Survives(h) THEN h.pc ELSE pc
      /\ tr' = tr
  BY <1>1, <1>2, <1>3, FinishQueues
<1>5. Calm(queue["net"], queue["net"] \o h.net, NetTokens)
  BY <1>1, <1>3, CalmQueue, PlainTokens
<1>6. Calm(queue["net"], queue'["net"], NetTokens)
  BY <1>4, <1>5, CalmTransitive
<1>7. Calm(queue["sig"], queue'["sig"], SigTokens)
  BY <1>1, <1>2, <1>4, CalmQueue
<1>8. SameTransports(tr, tr')
  BY <1>4 DEF SameTransports
<1> QED
  BY <1>4, <1>6, <1>7, <1>8, CalmStep

\* A closure of the signaling queue that decides nothing about a transport: it posts what
\* the negotiation posts, the start of the gathering only with a local description, and
\* leaves the connection state alone.
PlainStep ==
    \E h, rest, op, taken :
        /\ h.net \in Seq(PlainNet) /\ (h.net \in Seq(QuietNet) \/ h.pc.local_sdp.type # "none")
        /\ Survives(h) => h.pc.connection = pc.connection
        /\ h.ends \in Outcomes \cup {"invoke"} /\ (h.ends = "invoke" => op \in Queries)
        /\ taken = queue \/ (queue["sig"] # <<>> /\ taken = Taken("sig"))
        /\ Finish(h, rest, op, taken)

LEMMA PlainCalm ==
  ASSUME TypeInv, TransportInv, PlainStep
  PROVE TransportInv'
<1>1. PICK h, rest, op, taken :
        /\ h.net \in Seq(PlainNet)
        /\ Survives(h) => h.pc.connection = pc.connection \/ h.pc.connection # "CONNECTED"
        /\ h.ends = "invoke" => op \in Queries
        /\ taken = queue \/ (queue["sig"] # <<>> /\ taken = Taken("sig"))
        /\ Finish(h, rest, op, taken)
  BY DEF PlainStep
<1> HIDE DEF Finish, Taken
<1> QED
  BY <1>1, FinishCalm

\* A handler that has posted nothing and left the connection state at c.
Silent(h, c) ==
    /\ h = [f \in HandlerFields |-> h[f]]
    /\ h.pc = [f \in PcFields |-> h.pc[f]]
    /\ h.net = <<>> /\ h.pc.connection = c

\* Assigning another member keeps a handler silent.
LEMMA SilentEdit ==
  ASSUME NEW h, NEW c, Silent(h, c), NEW f \in PcFields \ {"connection"}, NEW v
  PROVE Silent([h EXCEPT !.pc[f] = v], c) /\ [h EXCEPT !.pc[f] = v].ends = h.ends
  BY DEF Silent, HandlerFields, PcFields

\* A closure starts silent; UpdateConnectionState assigns the connection state alone.
LEMMA SilentBegin ==
  ASSUME TypeInv
  PROVE /\ Silent(Begin, pc.connection) /\ Begin.ends = "return" /\ Begin.pc = pc
        /\ \A v : Silent(UpdateConnectionState(Begin, v), v)
                  /\ UpdateConnectionState(Begin, v).ends = "return"
<1>1. Silent(Begin, pc.connection) /\ Begin.ends = "return" /\ Begin.pc = pc
  BY BeginHandler DEF Handler, Silent, IsPc
<1> HIDE DEF Begin
<1> QED
  BY <1>1 DEF UpdateConnectionState, Silent, HandlerFields, PcFields

\* A silent closure.
LEMMA SilentCalm ==
  ASSUME TypeInv, TransportInv, NEW h, NEW c, Silent(h, c), c = pc.connection \/ c # "CONNECTED",
         NEW rest, NEW op, h.ends = "invoke" => op \in Queries,
         NEW taken, taken = queue \/ (queue["sig"] # <<>> /\ taken = Taken("sig")),
         Finish(h, rest, op, taken)
  PROVE TransportInv'
  BY EmptySeq, FinishCalm DEF Silent

\* The closures of the negotiation.
LEMMA NegotiationPlain ==
  ASSUME NegotiationInv,
         \/ queue["sig"] # <<>> /\ (CreateOffer \/ CreateAnswer \/ SetRemote \/ AddRemoteCandidate)
         \/ ResumeLocalDescription
  PROVE PlainStep
<1>1. TypeInv /\ OfferHeld(pc) /\ Resumable(blocked["sig"], pc)
  BY DEF NegotiationInv
<1>2. Handler(Begin) /\ Begin.pc = pc /\ Begin.ends = "return" /\ Begin.net = <<>>
  BY <1>1, BeginHandler
<1>q. <<>> \in Seq(QuietNet) /\ "return" \in Outcomes /\ "invoke" \notin Outcomes
  BY EmptySeq DEF Outcomes
<1>s. {"return", "throw", "invoke"} \subseteq Outcomes \cup {"invoke"}
  BY DEF Outcomes
<1>3. "localDescription" \in Queries
  BY DEF Queries
<1>4. ASSUME NEW h, Handler(h), Survives(h) => h.pc.connection = pc.connection,
             h.ends \in Outcomes \cup {"invoke"}, h.net \in Seq(QuietNet) \/ h.pc.local_sdp.type # "none",
             NEW rest, NEW taken, taken = queue \/ (queue["sig"] # <<>> /\ taken = Taken("sig")),
             NEW op, h.ends = "invoke" => op \in Queries, Finish(h, rest, op, taken)
      PROVE PlainStep
  BY <1>4 DEF Handler, PlainStep
<1> HIDE DEF Taken, Begin
<1>5. CASE queue["sig"] # <<>> /\ CreateOffer
  <2> DEFINE h == IF pc.signaling = "HAVE_REMOTE_OFFER" THEN Begin
                  ELSE SetLocalDescription(Begin, "OFFER")
  <2>1. Finish(h, ItemOf("finishLocal", "OFFER"), "localDescription", Taken("sig"))
    BY <1>5 DEF CreateOffer
  <2>2. /\ Handler(h) /\ h.pc.connection = pc.connection /\ h.net = <<>>
        /\ h.ends \in {"return", "throw", "invoke"}
    BY <1>2, SetLocalHandler DEF Same
  <2> HIDE DEF h
  <2> QED
    BY <1>3, <1>4, <1>5, <1>q, <1>s, <2>1, <2>2
<1>6. CASE queue["sig"] # <<>> /\ CreateAnswer
  <2> DEFINE h == IF pc.signaling # "HAVE_REMOTE_OFFER" THEN Begin
                  ELSE SetLocalDescription(Begin, "ANSWER")
  <2>1. Finish(h, ItemOf("finishLocal", "ANSWER"), "localDescription", Taken("sig"))
    BY <1>6 DEF CreateAnswer
  <2>2. /\ Handler(h) /\ h.pc.connection = pc.connection /\ h.net = <<>>
        /\ h.ends \in {"return", "throw", "invoke"}
    BY <1>2, SetLocalHandler DEF Same
  <2> HIDE DEF h
  <2> QED
    BY <1>3, <1>4, <1>6, <1>q, <1>s, <2>1, <2>2
<1>7. CASE queue["sig"] # <<>> /\ SetRemote
  <2> DEFINE d == First("sig").arg
             h == SetRemoteDescription(Begin, d)
  <2>1. /\ Finish(h, Item("finishAuto"), "localDescription", Taken("sig"))
        /\ First("sig").op = "setRemoteDescription"
    BY <1>7 DEF SetRemote
  <2>2. d \in RemoteDescriptions
    BY <1>1, <1>7, <2>1, FirstType DEF SigItems
  <2>3. pc.signaling = "HAVE_LOCAL_OFFER" => pc.local_sdp # None
    BY <1>1 DEF OfferHeld, None
  <2> HIDE DEF d
  <2>4. /\ Handler(h) /\ (Survives(h) => h.pc.connection = pc.connection)
        /\ h.ends \in Outcomes \cup {"invoke"}
        /\ Begin.net \in Seq(QuietNet) => h.net \in Seq(QuietNet)
    BY <1>2, <2>2, <2>3, SetRemoteHandler DEF Same
  <2>5. h.net \in Seq(QuietNet)
    BY <1>2, <1>q, <2>4
  <2> HIDE DEF h
  <2> QED
    BY <1>3, <1>4, <1>7, <2>1, <2>4, <2>5
<1>8. CASE queue["sig"] # <<>> /\ AddRemoteCandidate
  <2> DEFINE g == [Begin EXCEPT !.pc.remote_candidates = @ + 1]
             h == IF pc.remote_sdp # None /\ pc.connection # "CONNECTED"
                  THEN ProcessRemoteCandidates(g) ELSE g
  <2>1. Finish(h, Idle, "", Taken("sig"))
    BY <1>8 DEF AddRemoteCandidate, Simple
  <2>2. Handler(g) /\ g.pc.connection = pc.connection /\ g.ends = "return" /\ g.net = <<>>
    <3> DEFINE k == Begin.pc.remote_candidates + 1
    <3>1. k \in Nat
      BY <1>2 DEF Handler, IsPc
    <3> HIDE DEF k
    <3>2. g = [Begin EXCEPT !.pc.remote_candidates = k]
      BY DEF k
    <3> HIDE DEF g
    <3> QED
      BY <1>2, <3>1, <3>2 DEF Handler, HandlerFields, IsPc, PcFields
  <2> HIDE DEF g
  <2>3. /\ Handler(h) /\ h.pc.connection = pc.connection /\ h.ends = "return"
        /\ h.net \in Seq(QuietNet)
    BY <1>q, <2>2, CandidatesHandler DEF Same
  <2> HIDE DEF h
  <2> QED
    BY <1>4, <1>8, <1>q, <2>1, <2>3
<1>9. CASE ResumeLocalDescription
  <2> DEFINE auto == blocked["sig"].op = "finishAuto"
             type == IF auto THEN "ANSWER" ELSE blocked["sig"].arg
             g == FinishLocalDescription(Begin, type)
             h == IF auto /\ g.ends = "return" THEN ProcessRemoteCandidates(g) ELSE g
  <2>1. Finish(h, Idle, "", queue)
    BY <1>9 DEF ResumeLocalDescription
  <2>t. type # "none"
    BY <1>1, <1>9 DEF ResumeLocalDescription, Resumable
  <2> HIDE DEF auto, type
  <2>2. /\ Handler(g) /\ g.ends \in Outcomes /\ g.pc.connection = pc.connection
        /\ \/ g.ends # "return" /\ g.net = <<>>
           \/ g.ends = "return" /\ g.pc.local_sdp.type = type
    BY <1>2, FinishLocalHandler DEF Same
  <2> HIDE DEF g
  <2>3. /\ Handler(h) /\ h.ends \in Outcomes /\ h.pc.connection = pc.connection
        /\ h.net \in Seq(QuietNet) \/ h.pc.local_sdp.type # "none"
    BY <1>q, <2>2, <2>t, CandidatesHandler DEF Same
  <2> HIDE DEF h
  <2> QED
    BY <1>4, <1>q, <2>1, <2>3
<1> QED
  BY <1>5, <1>6, <1>7, <1>8, <1>9

\* The closures of the signaling queue that have nothing to do with transports.
LEMMA OtherPlain ==
  ASSUME TypeInv,
         \/ /\ queue["sig"] # <<>>
            /\ \/ AddMediaTrack \/ AddDataChannel \/ ShiftDataChannels
               \/ OnGatheringStateChanged \/ OnDtlsVerify \/ CloseSignaling
         \/ ResumeAddDataChannel \/ ResumeAddDataChannelOpen
  PROVE PlainStep
<1> DEFINE c == pc.connection
<1>1. Silent(Begin, c) /\ Begin.ends = "return" /\ Begin.pc = pc
  BY SilentBegin
<1>2. ASSUME NEW h, Silent(h, c), h.ends \in {"return", "invoke"}, NEW rest, NEW op, h.ends = "invoke" => op \in Queries,
             NEW taken, taken = queue \/ (queue["sig"] # <<>> /\ taken = Taken("sig")),
             Finish(h, rest, op, taken)
      PROVE PlainStep
  BY <1>2, EmptySeq DEF Silent, Outcomes, PlainStep
<1>3. \A h : Silent(h, c) => \A v :
        /\ Silent([h EXCEPT !.pc.media_tracks = v], c) /\ [h EXCEPT !.pc.media_tracks = v].ends = h.ends
        /\ Silent([h EXCEPT !.pc.opened = v], c) /\ [h EXCEPT !.pc.opened = v].ends = h.ends
        /\ Silent([h EXCEPT !.pc.closed = v], c) /\ [h EXCEPT !.pc.closed = v].ends = h.ends
        /\ Silent([h EXCEPT !.pc.data_channels = v], c) /\ [h EXCEPT !.pc.data_channels = v].ends = h.ends
        /\ Silent([h EXCEPT !.pc.stream_id = v], c) /\ [h EXCEPT !.pc.stream_id = v].ends = h.ends
        /\ Silent([h EXCEPT !.pc.gathering = v], c) /\ [h EXCEPT !.pc.gathering = v].ends = h.ends
        /\ Silent([h EXCEPT !.pc.negotiation_needed = v], c)
        /\ [h EXCEPT !.pc.negotiation_needed = v].ends = h.ends
        /\ Silent([h EXCEPT !.pc.data_channel_needed = v], c)
        /\ [h EXCEPT !.pc.data_channel_needed = v].ends = h.ends
  <2>1. {"media_tracks", "opened", "closed", "data_channels", "stream_id", "gathering",
         "negotiation_needed", "data_channel_needed"} \subseteq PcFields \ {"connection"}
    BY DEF PcFields
  <2> SUFFICES ASSUME NEW h, Silent(h, c), NEW v
               PROVE \A f \in PcFields \ {"connection"} :
                        Silent([h EXCEPT !.pc[f] = v], c) /\ [h EXCEPT !.pc[f] = v].ends = h.ends
    BY <2>1, ZenonT(40)
  <2> QED
    BY SilentEdit
<1> HIDE DEF Taken, Begin, c
<1>4. CASE queue["sig"] # <<>> /\ AddMediaTrack
  <2> DEFINE mid == First("sig").arg
             a == [Begin EXCEPT !.pc.media_tracks = @ \cup {mid}]
             b == [a EXCEPT !.pc.negotiation_needed = TRUE]
             h == IF mid \in pc.media_tracks THEN Begin ELSE b
  <2>1. Finish(h, Idle, "", Taken("sig"))
    BY <1>4 DEF AddMediaTrack
  <2>2. Silent(a, c) /\ a.ends = "return"
    BY <1>1, <1>3
  <2> HIDE DEF a
  <2>3. Silent(b, c) /\ b.ends = "return"
    BY <2>2, <1>3
  <2> HIDE DEF b
  <2>4. Silent(h, c) /\ h.ends = "return"
    BY <1>1, <2>3
  <2> HIDE DEF h
  <2> QED
    BY <1>2, <1>4, <2>1, <2>4
<1>5. CASE queue["sig"] # <<>> /\ AddDataChannel
  <2> DEFINE h == [Begin EXCEPT !.ends = "invoke"]
  <2>1. Finish(h, Item("addChannelRole"), "role", Taken("sig"))
    BY <1>5 DEF AddDataChannel
  <2>2. Silent(h, c) /\ h.ends = "invoke"
    BY <1>1 DEF Silent, HandlerFields
  <2> HIDE DEF h
  <2> QED
    BY <1>2, <1>5, <2>1, <2>2 DEF Queries
<1>6. CASE queue["sig"] # <<>> /\ ShiftDataChannels
  <2>1. PICK ids, kept :
          Finish(IF First("sig").arg # "ACTIVE" THEN Begin
                 ELSE [Begin EXCEPT !.pc.stream_id = ids, !.pc.data_channels = kept],
                 Idle, "", Taken("sig"))
    BY <1>6 DEF ShiftDataChannels, Simple
  <2> DEFINE a == [Begin EXCEPT !.pc.stream_id = ids]
             b == [a EXCEPT !.pc.data_channels = kept]
             h == IF First("sig").arg # "ACTIVE" THEN Begin ELSE b
  <2>2. Finish(h, Idle, "", Taken("sig"))
    BY <2>1
  <2>3. Silent(a, c) /\ a.ends = "return"
    BY <1>1, <1>3
  <2> HIDE DEF a
  <2>4. Silent(b, c) /\ b.ends = "return"
    BY <2>3, <1>3
  <2> HIDE DEF b
  <2>5. Silent(h, c) /\ h.ends = "return"
    BY <1>1, <2>4
  <2> HIDE DEF h
  <2> QED
    BY <1>2, <1>6, <2>2, <2>5
<1>7. CASE queue["sig"] # <<>> /\ OnGatheringStateChanged
  <2> DEFINE h == [Begin EXCEPT !.pc.gathering = First("sig").arg]
  <2>1. Finish(h, Idle, "", Taken("sig"))
    BY <1>7 DEF OnGatheringStateChanged, Simple
  <2>2. Silent(h, c) /\ h.ends = "return"
    BY <1>1, <1>3
  <2> HIDE DEF h
  <2> QED
    BY <1>2, <1>7, <2>1, <2>2
<1>8. CASE queue["sig"] # <<>> /\ OnDtlsVerify
  BY <1>1, <1>2, <1>8 DEF OnDtlsVerify
<1>9. CASE queue["sig"] # <<>> /\ CloseSignaling
  <2> DEFINE a == [Begin EXCEPT !.pc.negotiation_needed = FALSE]
             b == [a EXCEPT !.pc.data_channel_needed = FALSE]
             d == [b EXCEPT !.pc.opened = {}]
             e == [d EXCEPT !.pc.media_tracks = {}]
             u == e.pc.closed \cup e.pc.data_channels
             g == [e EXCEPT !.pc.closed = u]
             h == [g EXCEPT !.pc.data_channels = {}]
  <2>1. Finish(h, Idle, "", Taken("sig"))
    BY <1>9 DEF CloseSignaling, CloseDataChannels, CloseMediaTracks
  <2>2. Silent(a, c) /\ a.ends = "return"
    BY <1>1, <1>3
  <2> HIDE DEF a
  <2>3. Silent(b, c) /\ b.ends = "return"
    BY <2>2, <1>3
  <2> HIDE DEF b
  <2>4. Silent(d, c) /\ d.ends = "return"
    BY <2>3, <1>3
  <2> HIDE DEF d
  <2>5. Silent(e, c) /\ e.ends = "return"
    BY <2>4, <1>3
  <2> HIDE DEF e, u
  <2>6. Silent(g, c) /\ g.ends = "return"
    BY <2>5, <1>3
  <2> HIDE DEF g
  <2>7. Silent(h, c) /\ h.ends = "return"
    BY <2>6, <1>3
  <2> HIDE DEF h
  <2> QED
    BY <1>2, <1>9, <2>1, <2>7
<1>10. CASE ResumeAddDataChannel
  <2>1. PICK id :
          Finish([Begin EXCEPT !.ends = "invoke",
                    !.pc.stream_id = Append(@, id),
                    !.pc.data_channels = @ \cup {Len(pc.stream_id) + 1},
                    !.pc.data_channel_needed = TRUE,
                    !.pc.negotiation_needed = @ \/ pc.local_sdp = None \/ ~pc.local_sdp.app],
                 Item("addChannelOpen"), "sctpConnected", queue)
    BY <1>10 DEF ResumeAddDataChannel
  <2> DEFINE ids == Append(Begin.pc.stream_id, id)
             chs == Begin.pc.data_channels \cup {Len(pc.stream_id) + 1}
             need == Begin.pc.negotiation_needed \/ pc.local_sdp = None \/ ~pc.local_sdp.app
             a == [Begin EXCEPT !.ends = "invoke"]
             b == [a EXCEPT !.pc.stream_id = ids]
             d == [b EXCEPT !.pc.data_channels = chs]
             e == [d EXCEPT !.pc.data_channel_needed = TRUE]
             h == [e EXCEPT !.pc.negotiation_needed = need]
  <2>2. Finish(h, Item("addChannelOpen"), "sctpConnected", queue)
    BY <2>1
  <2> HIDE DEF ids, chs, need
  <2>3. Silent(a, c) /\ a.ends = "invoke"
    BY <1>1 DEF Silent, HandlerFields
  <2> HIDE DEF a
  <2>4. Silent(b, c) /\ b.ends = "invoke"
    BY <2>3, <1>3
  <2> HIDE DEF b
  <2>5. Silent(d, c) /\ d.ends = "invoke"
    BY <2>4, <1>3
  <2> HIDE DEF d
  <2>6. Silent(e, c) /\ e.ends = "invoke"
    BY <2>5, <1>3
  <2> HIDE DEF e
  <2>7. Silent(h, c) /\ h.ends = "invoke"
    BY <2>6, <1>3
  <2> HIDE DEF h
  <2> QED
    BY <1>2, <2>2, <2>7 DEF Queries
<1>11. CASE ResumeAddDataChannelOpen
  BY <1>1, <1>2, <1>11 DEF ResumeAddDataChannelOpen
<1> QED
  BY <1>4, <1>5, <1>6, <1>7, <1>8, <1>9, <1>10, <1>11

-----------------------------------------------------------------------------
(* Steps that decide about a transport                                       *)

\* A closure of the signaling queue that posts at most one closure.
LEMMA SigTakes ==
  ASSUME TypeInv, queue["sig"] # <<>>, NEW h, h.ends # "invoke",
         h.net = <<>> \/ \E e \in NetItems : h.net = <<e>>,
         Finish(h, Idle, "", Taken("sig"))
  PROVE /\ \A x : /\ In(queue'["sig"], x) => In(queue["sig"], x)
                  /\ Uniq(queue["sig"], x) => Uniq(queue'["sig"], x)
                  /\ First("sig") = x => In(queue["sig"], x)
                  /\ First("sig") = x /\ Uniq(queue["sig"], x) => ~In(queue'["sig"], x)
        /\ \A x : /\ In(queue'["net"], x) => In(queue["net"], x) \/ h.net = <<x>>
                  /\ Uniq(queue["net"], x) /\ (h.net = <<x>> => ~In(queue["net"], x))
                       => Uniq(queue'["net"], x)
        /\ blocked'["net"] = blocked["net"] /\ tr' = tr
        /\ pc' = IF Survives(h) THEN h.pc ELSE pc
<1>1. queue["sig"] \in Seq(SigItems) /\ queue["net"] \in Seq(NetItems)
  BY DEF TypeInv
<1>2. h.net \in Seq(NetItems)
  <2>1. \A e \in NetItems : <<e>> \in Seq(NetItems)
    BY OneIn
  <2> QED
    BY <2>1, EmptySeq
<1>3. queue' = [Taken("sig") EXCEPT !["net"] = @ \o h.net \o <<>>, !["wrk"] = @ \o h.wrk]
  BY DEF Finish
<1>4. /\ queue'["sig"] = Tail(queue["sig"]) /\ queue'["net"] = (queue["net"] \o h.net) \o <<>>
  <2> HIDE DEF Taken
  <2> QED
    BY <1>3, FirstType DEF Queues
<1>5. queue["net"] \o h.net \in Seq(NetItems)
  BY <1>1, <1>2, ConcatProperties
<1>6. queue'["net"] = queue["net"] \o h.net
  BY <1>4, <1>5, ConcatEmptySeq
<1>7. \A x : /\ In(h.net, x) <=> h.net = <<x>>
             /\ Uniq(h.net, x)
  <2>1. CASE h.net = <<>>
    BY <2>1, OneIn
  <2>2. CASE \E e \in NetItems : h.net = <<e>>
    <3>1. PICK e : h.net = <<e>>
      BY <2>2
    <3>2. \A x : (In(<<e>>, x) <=> e = x) /\ Uniq(<<e>>, x) /\ (<<e>> = <<x>> <=> e = x)
      BY OneIn
    <3> QED
      BY <3>1, <3>2
  <2> QED
    BY <2>1, <2>2
<1>8. \A x : /\ In(queue'["net"], x) => In(queue["net"], x) \/ h.net = <<x>>
             /\ Uniq(queue["net"], x) /\ (h.net = <<x>> => ~In(queue["net"], x))
                  => Uniq(queue'["net"], x)
  <2> SUFFICES ASSUME NEW x
               PROVE /\ In(queue["net"] \o h.net, x) => In(queue["net"], x) \/ h.net = <<x>>
                     /\ Uniq(queue["net"], x) /\ (h.net = <<x>> => ~In(queue["net"], x))
                          => Uniq(queue["net"] \o h.net, x)
    BY <1>6
  <2>1. /\ In(queue["net"] \o h.net, x) <=> In(queue["net"], x) \/ In(h.net, x)
        /\ Uniq(queue["net"], x) /\ ~In(h.net, x) => Uniq(queue["net"] \o h.net, x)
        /\ ~In(queue["net"], x) /\ Uniq(h.net, x) => Uniq(queue["net"] \o h.net, x)
    BY <1>1, <1>2, ConcatIn
  <2> QED
    BY <1>7, <2>1
<1>9. \A x : /\ In(queue'["sig"], x) => In(queue["sig"], x)
             /\ Uniq(queue["sig"], x) => Uniq(queue'["sig"], x)
             /\ First("sig") = x => In(queue["sig"], x)
             /\ First("sig") = x /\ Uniq(queue["sig"], x) => ~In(queue'["sig"], x)
  BY <1>1, <1>4, TailIn DEF First
<1>10. /\ pc' = (IF Survives(h) THEN h.pc ELSE pc) /\ tr' = tr
       /\ blocked' = [blocked EXCEPT !["sig"] = Idle]
  BY DEF Finish
<1>11. blocked'["net"] = blocked["net"]
  BY <1>10 DEF TypeInv, Threads, Queues
<1> QED
  BY <1>8, <1>9, <1>10, <1>11

\* The constructor's closure asks for the ICE transport.
LEMMA InitIceStep ==
  ASSUME TypeInv, TransportInv, queue["sig"] # <<>>, InitIceTransport
  PROVE TransportInv'
<1> DEFINE sig == queue["sig"]
           net == queue["net"]
           h == IF tr.ice # "none" THEN Begin ELSE PostNet(Begin, Item("newIce"))
<1>1. Finish(h, Idle, "", Taken("sig")) /\ First("sig").op = "initIce"
  BY DEF InitIceTransport, Simple
<1>2. First("sig") = InitIce
  BY <1>1, FirstType DEF SigItems, InitIce, Item
<1>3. h.ends = "return" /\ h.pc = pc /\ (h.net = <<>> \/ h.net = <<NewIce>>)
  BY DEF Begin, PostNet, NewIce
<1>4. NewIce \in NetItems
  BY DEF NewIce, Item, NetItems
<1> HIDE DEF h
<1>5. /\ \A x : /\ In(queue'["sig"], x) => In(sig, x)
                /\ Uniq(sig, x) => Uniq(queue'["sig"], x)
                /\ First("sig") = x => In(sig, x)
                /\ First("sig") = x /\ Uniq(sig, x) => ~In(queue'["sig"], x)
      /\ \A x : /\ In(queue'["net"], x) => In(net, x) \/ h.net = <<x>>
                /\ Uniq(net, x) /\ (h.net = <<x>> => ~In(net, x)) => Uniq(queue'["net"], x)
      /\ blocked'["net"] = blocked["net"] /\ tr' = tr /\ pc' = pc
  BY <1>1, <1>3, <1>4, SigTakes
<1>6. \A x : h.net = <<x>> => x = NewIce
  BY <1>3
<1>7. IceOnce(sig, net) /\ DtlsOnce(sig, net) /\ SctpOnce(sig, net) /\ UpIsVerified(sig, net)
  BY DEF TransportInv
<1>8. IceOnce(queue["sig"], queue["net"])'
  BY <1>2, <1>5, <1>6, <1>7 DEF IceOnce
<1>9. DtlsOnce(queue["sig"], queue["net"])'
  BY <1>5, <1>6, <1>7, TokensDiffer DEF DtlsOnce
<1>10. SctpOnce(queue["sig"], queue["net"])'
  BY <1>5, <1>6, <1>7, TokensDiffer DEF SctpOnce
<1>11. UpIsVerified(queue["sig"], queue["net"])'
  BY <1>5, <1>6, <1>7, TokensDiffer DEF UpIsVerified
<1> QED
  BY <1>8, <1>9, <1>10, <1>11 DEF TransportInv

\* InitDtlsTransport asks for a DTLS transport only while there is none.
LEMMA IceStateStep ==
  ASSUME TypeInv, TransportInv, queue["sig"] # <<>>, OnIceTransportStateChanged
  PROVE TransportInv'
<1> DEFINE sig == queue["sig"]
           net == queue["net"]
           state == First("sig").arg
<1>1. First("sig").op = "iceState" /\ First("sig") \in SigItems
  BY FirstType DEF OnIceTransportStateChanged
<1>2. CASE state # "CONNECTED"
  <2> DEFINE h == UpdateConnectionState(Begin, state)
  <2>1. Finish(h, Idle, "", Taken("sig"))
    BY <1>2 DEF OnIceTransportStateChanged, Simple
  <2>2. Silent(h, state) /\ h.ends = "return"
    BY SilentBegin
  <2> HIDE DEF h, state
  <2> QED
    BY <1>2, <2>1, <2>2, SilentCalm
<1>3. CASE state = "CONNECTED"
  <2> DEFINE h == InitDtlsTransport(Begin)
  <2>1. Finish(h, Idle, "", Taken("sig"))
    BY <1>3 DEF OnIceTransportStateChanged, Simple
  <2>2. First("sig") = IceUp
    BY <1>1, <1>3 DEF SigItems, IceUp, ItemOf
  <2>3. /\ h.ends # "invoke" /\ h.pc = pc
        /\ \/ h.net = <<>>
           \/ h.net = <<NewDtls>> /\ tr.dtls = "none" /\ tr.ice # "none"
    BY DEF InitDtlsTransport, Begin, PostNet, Ends, NewDtls
  <2>4. NewDtls \in NetItems
    BY DEF NewDtls, Item, NetItems
  <2> HIDE DEF h
  <2>5. /\ \A x : /\ In(queue'["sig"], x) => In(sig, x)
                  /\ Uniq(sig, x) => Uniq(queue'["sig"], x)
                  /\ First("sig") = x => In(sig, x)
                  /\ First("sig") = x /\ Uniq(sig, x) => ~In(queue'["sig"], x)
        /\ \A x : /\ In(queue'["net"], x) => In(net, x) \/ h.net = <<x>>
                  /\ Uniq(net, x) /\ (h.net = <<x>> => ~In(net, x)) => Uniq(queue'["net"], x)
        /\ blocked'["net"] = blocked["net"] /\ tr' = tr /\ pc' = pc
    BY <2>1, <2>3, <2>4, SigTakes
  <2>6. \A x : h.net = <<x>> => x = NewDtls /\ tr.dtls = "none" /\ tr.ice # "none"
    BY <2>3
  <2>7. IceOnce(sig, net) /\ DtlsOnce(sig, net) /\ SctpOnce(sig, net) /\ UpIsVerified(sig, net)
    BY DEF TransportInv
  <2>8. IceOnce(queue["sig"], queue["net"])'
    BY <2>5, <2>6, <2>7, TokensDiffer DEF IceOnce
  <2>9. DtlsOnce(queue["sig"], queue["net"])'
    BY <2>2, <2>5, <2>6, <2>7, TokensDiffer DEF DtlsOnce
  <2>10. SctpOnce(queue["sig"], queue["net"])'
    BY <2>5, <2>6, <2>7, TokensDiffer DEF SctpOnce
  <2>11. UpIsVerified(queue["sig"], queue["net"])'
    BY <2>5, <2>6, <2>7, TokensDiffer DEF UpIsVerified
  <2> QED
    BY <2>8, <2>9, <2>10, <2>11 DEF TransportInv
<1> QED
  BY <1>2, <1>3

\* The end of the handshake makes the SCTP transport or reports the connection.
LEMMA DtlsStateStep ==
  ASSUME TypeInv, TransportInv, queue["sig"] # <<>>, OnDtlsTransportStateChanged
  PROVE TransportInv'
<1> DEFINE sig == queue["sig"]
           net == queue["net"]
           state == First("sig").arg
<1>1. First("sig").op = "dtlsState" /\ First("sig") \in SigItems
  BY FirstType DEF OnDtlsTransportStateChanged
<1>e. \A h, d : Silent(h, d) => \A v :
        /\ Silent([h EXCEPT !.pc.media_tracks = v], d) /\ [h EXCEPT !.pc.media_tracks = v].ends = h.ends
        /\ Silent([h EXCEPT !.pc.opened = v], d) /\ [h EXCEPT !.pc.opened = v].ends = h.ends
  BY SilentEdit DEF PcFields
<1>2. CASE state # "CONNECTED"
  <2> DEFINE g == UpdateConnectionState(Begin, state)
             b == [g EXCEPT !.pc.opened = {}]
             h == [b EXCEPT !.pc.media_tracks = {}]
  <2>1. Finish(h, Idle, "", Taken("sig"))
    BY <1>2 DEF OnDtlsTransportStateChanged, Simple, CloseMediaTracks
  <2>2. Silent(g, state) /\ g.ends = "return"
    BY SilentBegin
  <2> HIDE DEF g, state
  <2>3. Silent(b, state) /\ b.ends = "return"
    BY <2>2, <1>e
  <2> HIDE DEF b
  <2>4. Silent(h, state) /\ h.ends = "return"
    BY <2>3, <1>e
  <2> HIDE DEF h
  <2> QED
    BY <1>2, <2>1, <2>4, SilentCalm
<1>3. CASE state = "CONNECTED"
  <2> DEFINE up == IF pc.remote_sdp # None /\ pc.remote_sdp.app THEN InitSctpTransport(Begin)
                   ELSE UpdateConnectionState(Begin, "CONNECTED")
             h == [up EXCEPT !.pc.opened = @ \cup pc.media_tracks]
  <2>1. Finish(h, Idle, "", Taken("sig"))
    BY <1>3 DEF OnDtlsTransportStateChanged, Simple
  <2>2. First("sig") = DtlsUp
    BY <1>1, <1>3 DEF SigItems, DtlsUp, ItemOf
  <2>3. up.ends # "invoke" /\ (up.net = <<>> \/ up.net = <<NewSctp>>)
        /\ up = [f \in HandlerFields |-> up[f]]
    BY DEF InitSctpTransport, UpdateConnectionState, Begin, PostNet, Ends, NewSctp, HandlerFields
  <2> HIDE DEF up
  <2>4. h.ends # "invoke" /\ (h.net = <<>> \/ h.net = <<NewSctp>>)
    BY <2>3 DEF HandlerFields
  <2>5. NewSctp \in NetItems
    BY DEF NewSctp, Item, NetItems
  <2> HIDE DEF h
  <2>6. /\ \A x : /\ In(queue'["sig"], x) => In(sig, x)
                  /\ Uniq(sig, x) => Uniq(queue'["sig"], x)
                  /\ First("sig") = x => In(sig, x)
                  /\ First("sig") = x /\ Uniq(sig, x) => ~In(queue'["sig"], x)
        /\ \A x : /\ In(queue'["net"], x) => In(net, x) \/ h.net = <<x>>
                  /\ Uniq(net, x) /\ (h.net = <<x>> => ~In(net, x)) => Uniq(queue'["net"], x)
        /\ blocked'["net"] = blocked["net"] /\ tr' = tr
    BY <2>1, <2>4, <2>5, SigTakes
  <2>7. \A x : h.net = <<x>> => x = NewSctp
    BY <2>4
  <2>8. IceOnce(sig, net) /\ DtlsOnce(sig, net) /\ SctpOnce(sig, net) /\ UpIsVerified(sig, net)
    BY DEF TransportInv
  <2>9. IceOnce(queue["sig"], queue["net"])'
    BY <2>6, <2>7, <2>8, TokensDiffer DEF IceOnce
  <2>10. DtlsOnce(queue["sig"], queue["net"])'
    BY <2>6, <2>7, <2>8, TokensDiffer DEF DtlsOnce
  <2>11. SctpOnce(queue["sig"], queue["net"])'
    BY <2>2, <2>6, <2>7, <2>8, TokensDiffer DEF SctpOnce
  <2>12. UpIsVerified(queue["sig"], queue["net"])'
    BY <2>2, <2>6, <2>7, <2>8, TokensDiffer DEF UpIsVerified
  <2> QED
    BY <2>9, <2>10, <2>11, <2>12 DEF TransportInv
<1> QED
  BY <1>2, <1>3

\* The SCTP transport reports the connection.
LEMMA SctpStateStep ==
  ASSUME TypeInv, TransportInv, queue["sig"] # <<>>, OnSctpTransportStateChanged
  PROVE TransportInv'
<1> DEFINE sig == queue["sig"]
           net == queue["net"]
           state == First("sig").arg
           g == UpdateConnectionState(Begin, state)
<1>1. First("sig").op = "sctpState" /\ First("sig") \in SigItems
  BY FirstType DEF OnSctpTransportStateChanged
<1>2. Silent(g, state) /\ g.ends = "return"
  BY SilentBegin
<1>3. CASE state # "CONNECTED"
  <2> DEFINE u == g.pc.closed \cup g.pc.data_channels
             a == [g EXCEPT !.pc.closed = u]
             h == [a EXCEPT !.pc.data_channels = {}]
  <2>1. Finish(h, Idle, "", Taken("sig"))
    BY <1>3 DEF OnSctpTransportStateChanged, Simple, CloseDataChannels
  <2> HIDE DEF g, state, u
  <2>2. "closed" \in PcFields \ {"connection"} /\ "data_channels" \in PcFields \ {"connection"}
    BY DEF PcFields
  <2>3. Silent(a, state) /\ a.ends = "return"
    BY <1>2, <2>2, SilentEdit
  <2> HIDE DEF a
  <2>4. Silent(h, state) /\ h.ends = "return"
    BY <2>2, <2>3, SilentEdit
  <2> HIDE DEF h
  <2> QED
    BY <1>3, <2>1, <2>4, SilentCalm
<1>4. CASE state = "CONNECTED"
  <2>1. Finish(g, Idle, "", Taken("sig"))
    BY <1>4 DEF OnSctpTransportStateChanged, Simple
  <2>2. First("sig") = SctpUp
    BY <1>1, <1>4 DEF SigItems, SctpUp, ItemOf
  <2>3. g.ends # "invoke" /\ g.net = <<>>
    BY <1>2 DEF Silent
  <2> HIDE DEF g
  <2>4. /\ \A x : /\ In(queue'["sig"], x) => In(sig, x)
                  /\ Uniq(sig, x) => Uniq(queue'["sig"], x)
                  /\ First("sig") = x => In(sig, x)
        /\ \A x : /\ In(queue'["net"], x) => In(net, x) \/ g.net = <<x>>
                  /\ Uniq(net, x) /\ (g.net = <<x>> => ~In(net, x)) => Uniq(queue'["net"], x)
        /\ blocked'["net"] = blocked["net"] /\ tr' = tr
    BY <2>1, <2>3, SigTakes
  <2>5. \A x : g.net # <<x>>
    BY <2>3
  <2>6. IceOnce(sig, net) /\ DtlsOnce(sig, net) /\ SctpOnce(sig, net) /\ UpIsVerified(sig, net)
    BY DEF TransportInv
  <2>7. IceOnce(queue["sig"], queue["net"])'
    BY <2>4, <2>5, <2>6 DEF IceOnce
  <2>8. DtlsOnce(queue["sig"], queue["net"])'
    BY <2>4, <2>5, <2>6 DEF DtlsOnce
  <2>9. SctpOnce(queue["sig"], queue["net"])'
    BY <2>4, <2>5, <2>6 DEF SctpOnce
  <2>10. UpIsVerified(queue["sig"], queue["net"])'
    BY <2>2, <2>4, <2>5, <2>6 DEF UpIsVerified
  <2> QED
    BY <2>7, <2>8, <2>9, <2>10 DEF TransportInv
<1> QED
  BY <1>3, <1>4

-----------------------------------------------------------------------------
(* The network queue                                                         *)

\* What a closure of the network queue takes and posts.
LEMMA NetTakes ==
  ASSUME TypeInv, queue["net"] # <<>>, NEW t, NEW posts \in Seq(SigItems), NetDone(t, posts)
  PROVE /\ \A x : /\ In(queue'["net"], x) => In(queue["net"], x)
                  /\ Uniq(queue["net"], x) => Uniq(queue'["net"], x)
                  /\ First("net") = x => In(queue["net"], x)
                  /\ First("net") = x /\ Uniq(queue["net"], x) => ~In(queue'["net"], x)
        /\ \A x : /\ In(queue'["sig"], x) => In(queue["sig"], x) \/ In(posts, x)
                  /\ Uniq(queue["sig"], x) /\ ~In(posts, x) => Uniq(queue'["sig"], x)
                  /\ ~In(queue["sig"], x) /\ Uniq(posts, x) => Uniq(queue'["sig"], x)
        /\ blocked' = blocked /\ pc' = pc /\ tr' = t
<1>1. queue["sig"] \in Seq(SigItems) /\ queue["net"] \in Seq(NetItems)
  BY DEF TypeInv
<1>2. /\ queue' = [Taken("net") EXCEPT !["sig"] = @ \o posts]
      /\ blocked' = blocked /\ pc' = pc /\ tr' = t
  BY DEF NetDone
<1>3. queue'["net"] = Tail(queue["net"]) /\ queue'["sig"] = queue["sig"] \o posts
  <2> HIDE DEF Taken
  <2> QED
    BY <1>2, FirstType DEF Queues
<1>4. \A x : /\ In(queue'["net"], x) => In(queue["net"], x)
             /\ Uniq(queue["net"], x) => Uniq(queue'["net"], x)
             /\ First("net") = x => In(queue["net"], x)
             /\ First("net") = x /\ Uniq(queue["net"], x) => ~In(queue'["net"], x)
  BY <1>1, <1>3, TailIn DEF First
<1>5. \A x : /\ In(queue'["sig"], x) => In(queue["sig"], x) \/ In(posts, x)
             /\ Uniq(queue["sig"], x) /\ ~In(posts, x) => Uniq(queue'["sig"], x)
             /\ ~In(queue["sig"], x) /\ Uniq(posts, x) => Uniq(queue'["sig"], x)
  <2> SUFFICES ASSUME NEW x
               PROVE /\ In(queue["sig"] \o posts, x) => In(queue["sig"], x) \/ In(posts, x)
                     /\ Uniq(queue["sig"], x) /\ ~In(posts, x) => Uniq(queue["sig"] \o posts, x)
                     /\ ~In(queue["sig"], x) /\ Uniq(posts, x) => Uniq(queue["sig"] \o posts, x)
    BY <1>3
  <2> QED
    BY <1>1, ConcatIn
<1> QED
  BY <1>2, <1>4, <1>5

\* A closure of the network queue that decides nothing about a transport.
LEMMA NetCalm ==
  ASSUME TypeInv, TransportInv, queue["net"] # <<>>, NEW t, SameTransports(tr, t),
         NEW posts \in Seq(SigItems), \A x \in SigTokens : ~In(posts, x), NetDone(t, posts)
  PROVE TransportInv'
  BY NetTakes, CalmStep DEF Calm

\* No closure the invariant follows is reported in other states.
LEMMA PostsTokens ==
  /\ \A x : ~In(<<>>, x)
  /\ \A op \in {"iceState", "dtlsState", "sctpState"}, s \in States \ {"CONNECTED"} :
       \A x \in SigTokens : ~In(<<ItemOf(op, s)>>, x) /\ \A old : ~In(Reported(old, s, op), x)
  /\ \A op \in {"gathering", "role"} : \A s :
       \A x \in SigTokens : ~In(<<ItemOf(op, s)>>, x) /\ \A old : ~In(Reported(old, s, op), x)
<1>1. \A x \in SigTokens : \/ x = [op |-> "initIce"]
                           \/ /\ x.op \in {"iceState", "dtlsState", "sctpState"}
                              /\ x.arg = "CONNECTED"
  BY DEF SigTokens, InitIce, IceUp, DtlsUp, SctpUp, Item, ItemOf
<1>2. \A op \in {"iceState", "dtlsState", "sctpState"}, s \in States \ {"CONNECTED"} :
        ItemOf(op, s) \notin SigTokens
  <2> SUFFICES ASSUME NEW op \in {"iceState", "dtlsState", "sctpState"},
                      NEW s \in States \ {"CONNECTED"}, ItemOf(op, s) \in SigTokens
               PROVE FALSE
    OBVIOUS
  <2>1. ItemOf(op, s).op = op /\ ItemOf(op, s).arg = s
    BY DEF ItemOf
  <2>2. ItemOf(op, s) # [op |-> "initIce"]
    BY <2>1
  <2> QED
    BY <1>1, <2>1, <2>2
<1>3. \A op \in {"gathering", "role"} : \A s : ItemOf(op, s) \notin SigTokens
  <2> SUFFICES ASSUME NEW op \in {"gathering", "role"}, NEW s, ItemOf(op, s) \in SigTokens
               PROVE FALSE
    OBVIOUS
  <2>1. ItemOf(op, s).op = op
    BY DEF ItemOf
  <2>2. ItemOf(op, s) # [op |-> "initIce"]
    BY <2>1
  <2> QED
    BY <1>1, <2>1, <2>2
<1>4. \A e, x : (In(<<e>>, x) => e = x) /\ ~In(<<>>, x)
  BY OneIn
<1>5. \A old, s, op : Reported(old, s, op) = <<>> \/ Reported(old, s, op) = <<ItemOf(op, s)>>
  BY DEF Reported
<1>6. ASSUME NEW op, NEW s, ItemOf(op, s) \notin SigTokens
      PROVE \A x \in SigTokens : ~In(<<ItemOf(op, s)>>, x) /\ \A old : ~In(Reported(old, s, op), x)
  <2> SUFFICES ASSUME NEW x \in SigTokens
               PROVE ~In(<<ItemOf(op, s)>>, x) /\ \A old : ~In(Reported(old, s, op), x)
    OBVIOUS
  <2>1. ~In(<<ItemOf(op, s)>>, x)
    BY <1>4, <1>6
  <2> QED
    BY <1>4, <1>5, <2>1
<1> QED
  BY <1>2, <1>3, <1>4, <1>6

\* Closures of the network queue that leave the transports as they are.
LEMMA NetworkCalm ==
  ASSUME TypeInv, TransportInv, queue["net"] # <<>>,
         Query \/ Gather \/ SetRemoteIce \/ AddIceCandidate \/ OnGatheringDone
  PROVE TransportInv'
<1>1. tr = [f \in TrFields |-> tr[f]]
  BY DEF TypeInv
<1>2. SameTransports(tr, tr)
  BY DEF SameTransports
<1>3. \A x : ~In(<<>>, x)
  BY PostsTokens
<1>4. <<>> \in Seq(SigItems)
  BY PostsType
<1>5. NetDone(tr, <<>>) => TransportInv'
  BY <1>2, <1>3, <1>4, NetCalm
<1>6. CASE Query
  BY <1>5, <1>6 DEF Query, WithIce, NetFails
<1>7. CASE AddIceCandidate
  BY <1>5, <1>7 DEF AddIceCandidate, WithIce, NetFails
<1>8. CASE Gather
  <2> DEFINE t == [tr EXCEPT !.gathering = "GATHERING"]
             posts == IF tr.gathering = "GATHERING" THEN <<>> ELSE <<ItemOf("gathering", "GATHERING")>>
  <2>1. NetDone(tr, <<>>) \/ NetDone(t, posts)
    BY <1>8 DEF Gather, WithIce, NetFails
  <2>2. SameTransports(tr, t)
    BY <1>1 DEF SameTransports, TrFields
  <2>3. posts \in Seq(SigItems) /\ \A x \in SigTokens : ~In(posts, x)
    BY PostsType, PostsTokens
  <2> HIDE DEF t, posts
  <2> QED
    BY <1>5, <2>1, <2>2, <2>3, NetCalm
<1>9. CASE OnGatheringDone
  <2> DEFINE t == [tr EXCEPT !.gathering = "COMPLETED"]
             posts == Reported(tr.gathering, "COMPLETED", "gathering")
  <2>1. NetDone(tr, <<>>) \/ NetDone(t, posts)
    BY <1>9 DEF OnGatheringDone, OfIce, NetFails
  <2>2. SameTransports(tr, t)
    BY <1>1 DEF SameTransports, TrFields
  <2>3. posts \in Seq(SigItems) /\ \A x \in SigTokens : ~In(posts, x)
    BY PostsType, PostsTokens
  <2> HIDE DEF t, posts
  <2> QED
    BY <1>5, <2>1, <2>2, <2>3, NetCalm
<1>10. CASE SetRemoteIce
  <2> DEFINE theirs == First("net").arg
             changes == tr.role = "ACT_PASS"
             role == IF ~changes THEN tr.role
                     ELSE IF theirs = "ACTIVE" THEN "PASSIVE" ELSE "ACTIVE"
             t == [tr EXCEPT !.role = role, !.trickle = @ \/ role # theirs]
             posts == IF changes THEN <<ItemOf("role", role)>> ELSE <<>>
  <2>1. NetDone(tr, <<>>) \/ NetDone(t, posts)
    BY <1>10 DEF SetRemoteIce, WithIce, NetFails
  <2>2. posts \in Seq(SigItems) /\ \A x \in SigTokens : ~In(posts, x)
    BY PostsType, PostsTokens DEF Roles
  <2> HIDE DEF role, posts
  <2>3. SameTransports(tr, t)
    BY <1>1 DEF SameTransports, TrFields
  <2> HIDE DEF t
  <2> QED
    BY <1>5, <2>1, <2>2, <2>3, NetCalm
<1> QED
  BY <1>6, <1>7, <1>8, <1>9, <1>10

\* What the queues hold after a closure of the network queue that posts nothing the
\* invariant follows.
LEMMA NetSilent ==
  ASSUME TypeInv, queue["net"] # <<>>, NEW t, NEW posts \in Seq(SigItems),
         \A x \in SigTokens : ~In(posts, x), NetDone(t, posts)
  PROVE /\ \A x \in SigTokens : /\ In(queue'["sig"], x) => In(queue["sig"], x)
                                /\ Uniq(queue["sig"], x) => Uniq(queue'["sig"], x)
        /\ \A x : /\ In(queue'["net"], x) => In(queue["net"], x)
                  /\ Uniq(queue["net"], x) => Uniq(queue'["net"], x)
                  /\ First("net") = x => In(queue["net"], x)
                  /\ First("net") = x /\ Uniq(queue["net"], x) => ~In(queue'["net"], x)
        /\ InitIce \in SigTokens /\ IceUp \in SigTokens /\ DtlsUp \in SigTokens /\ SctpUp \in SigTokens
        /\ blocked' = blocked /\ pc' = pc /\ tr' = t
  BY NetTakes DEF SigTokens

\* The closures that make the transports.
LEMMA NewTransportStep ==
  ASSUME TypeInv, TransportInv, queue["net"] # <<>>,
         NewIceTransport \/ NewDtlsTransport \/ NewSctpTransport
  PROVE TransportInv'
<1> DEFINE sig == queue["sig"]
           net == queue["net"]
<1>1. tr = [f \in TrFields |-> tr[f]] /\ First("net") \in NetItems
  BY FirstType DEF TypeInv
<1>2. IceOnce(sig, net) /\ DtlsOnce(sig, net) /\ SctpOnce(sig, net) /\ UpIsVerified(sig, net)
  BY DEF TransportInv
<1>3. ASSUME NEW t, NetDone(t, <<>>)
      PROVE /\ \A x \in SigTokens : /\ In(queue'["sig"], x) => In(sig, x)
                                    /\ Uniq(sig, x) => Uniq(queue'["sig"], x)
            /\ \A x : /\ In(queue'["net"], x) => In(net, x)
                      /\ Uniq(net, x) => Uniq(queue'["net"], x)
                      /\ First("net") = x => In(net, x)
                      /\ First("net") = x /\ Uniq(net, x) => ~In(queue'["net"], x)
            /\ InitIce \in SigTokens /\ IceUp \in SigTokens /\ DtlsUp \in SigTokens /\ SctpUp \in SigTokens
            /\ blocked' = blocked /\ pc' = pc /\ tr' = t
  BY <1>3, PostsType, PostsTokens, NetSilent
<1>4. CASE NewIceTransport
  <2>1. First("net") = NewIce
    BY <1>1, <1>4 DEF NewIceTransport, NetItems, PlainNet, NewIce, Item
  <2> DEFINE t == [tr EXCEPT !.ice = "DISCONNECTED"]
  <2>2. NetDone(t, <<>>)
    BY <1>4 DEF NewIceTransport
  <2>3. /\ t.ice # "none" /\ t.dtls = tr.dtls /\ t.dtls_made = tr.dtls_made
        /\ t.verified = tr.verified /\ t.sctp = tr.sctp /\ t.sctp_made = tr.sctp_made
    BY <1>1 DEF TrFields
  <2> HIDE DEF t
  <2>4. /\ \A x \in SigTokens : /\ In(queue'["sig"], x) => In(sig, x)
                                /\ Uniq(sig, x) => Uniq(queue'["sig"], x)
        /\ \A x : /\ In(queue'["net"], x) => In(net, x)
                  /\ Uniq(net, x) => Uniq(queue'["net"], x)
                  /\ First("net") = x => In(net, x)
                  /\ First("net") = x /\ Uniq(net, x) => ~In(queue'["net"], x)
        /\ InitIce \in SigTokens /\ IceUp \in SigTokens /\ DtlsUp \in SigTokens /\ SctpUp \in SigTokens
        /\ blocked' = blocked /\ pc' = pc /\ tr' = t
    BY <1>3, <2>2
  <2>5. IceOnce(queue["sig"], queue["net"])'
    BY <1>2, <2>1, <2>3, <2>4 DEF IceOnce
  <2>6. DtlsOnce(queue["sig"], queue["net"])'
    BY <1>2, <2>1, <2>3, <2>4 DEF DtlsOnce, IceOnce
  <2>7. SctpOnce(queue["sig"], queue["net"])'
    BY <1>2, <2>3, <2>4 DEF SctpOnce
  <2>8. UpIsVerified(queue["sig"], queue["net"])'
    BY <1>2, <2>3, <2>4 DEF UpIsVerified
  <2> QED
    BY <2>5, <2>6, <2>7, <2>8 DEF TransportInv
<1>5. CASE NewDtlsTransport
  <2>1. First("net") = NewDtls
    BY <1>1, <1>5 DEF NewDtlsTransport, NetItems, PlainNet, NewDtls, Item
  <2> DEFINE t == [tr EXCEPT !.dtls = "CONNECTING", !.dtls_made = @ + 1, !.verified = FALSE]
  <2>2. NetDone(tr, <<>>) \/ (tr.ice # "none" /\ NetDone(t, <<>>))
    BY <1>5 DEF NewDtlsTransport, WithIce, NetFails
  <2>3. CASE NetDone(tr, <<>>)
    BY <2>3, PostsType, PostsTokens, NetCalm DEF SameTransports
  <2>4. CASE tr.ice # "none" /\ NetDone(t, <<>>)
    <3>1. /\ t.ice = tr.ice /\ t.dtls = "CONNECTING" /\ t.dtls_made = tr.dtls_made + 1
          /\ t.verified = FALSE /\ t.sctp = tr.sctp /\ t.sctp_made = tr.sctp_made
      BY <1>1 DEF TrFields
    <3> HIDE DEF t
    <3>2. /\ \A x \in SigTokens : /\ In(queue'["sig"], x) => In(sig, x)
                                  /\ Uniq(sig, x) => Uniq(queue'["sig"], x)
          /\ \A x : /\ In(queue'["net"], x) => In(net, x)
                    /\ Uniq(net, x) => Uniq(queue'["net"], x)
                    /\ First("net") = x => In(net, x)
                    /\ First("net") = x /\ Uniq(net, x) => ~In(queue'["net"], x)
          /\ InitIce \in SigTokens /\ IceUp \in SigTokens /\ DtlsUp \in SigTokens /\ SctpUp \in SigTokens
          /\ blocked' = blocked /\ pc' = pc /\ tr' = t
      BY <1>3, <2>4
    <3>3. tr.dtls = "none" /\ tr.dtls_made = 0 /\ t.dtls_made = 1 /\ tr.verified = FALSE
          /\ ~In(queue'["net"], NewDtls)
      BY <1>2, <2>1, <2>4, <3>1, <3>2 DEF DtlsOnce, UpIsVerified
    <3>4. IceOnce(queue["sig"], queue["net"])'
      BY <1>2, <2>4, <3>1, <3>2 DEF IceOnce
    <3>5. DtlsOnce(queue["sig"], queue["net"])'
      BY <1>2, <3>1, <3>2, <3>3 DEF DtlsOnce
    <3>6. SctpOnce(queue["sig"], queue["net"])'
      BY <1>2, <3>1, <3>2, <3>3 DEF SctpOnce
    <3>7. UpIsVerified(queue["sig"], queue["net"])'
      BY <1>2, <3>1, <3>2, <3>3 DEF UpIsVerified
    <3> QED
      BY <3>4, <3>5, <3>6, <3>7 DEF TransportInv
  <2> QED
    BY <2>2, <2>3, <2>4
<1>6. CASE NewSctpTransport
  <2>1. First("net") = NewSctp
    BY <1>1, <1>6 DEF NewSctpTransport, NetItems, PlainNet, NewSctp, Item
  <2> DEFINE t == [tr EXCEPT !.sctp = "CONNECTING", !.sctp_made = @ + 1]
  <2>2. NetDone(t, <<>>)
    BY <1>6 DEF NewSctpTransport
  <2>3. /\ t.ice = tr.ice /\ t.dtls = tr.dtls /\ t.dtls_made = tr.dtls_made
        /\ t.verified = tr.verified /\ t.sctp = "CONNECTING" /\ t.sctp_made = tr.sctp_made + 1
    BY <1>1 DEF TrFields
  <2> HIDE DEF t
  <2>4. /\ \A x \in SigTokens : /\ In(queue'["sig"], x) => In(sig, x)
                                /\ Uniq(sig, x) => Uniq(queue'["sig"], x)
        /\ \A x : /\ In(queue'["net"], x) => In(net, x)
                  /\ Uniq(net, x) => Uniq(queue'["net"], x)
                  /\ First("net") = x => In(net, x)
                  /\ First("net") = x /\ Uniq(net, x) => ~In(queue'["net"], x)
        /\ InitIce \in SigTokens /\ IceUp \in SigTokens /\ DtlsUp \in SigTokens /\ SctpUp \in SigTokens
        /\ blocked' = blocked /\ pc' = pc /\ tr' = t
    BY <1>3, <2>2
  <2>5. IceOnce(queue["sig"], queue["net"])'
    BY <1>2, <2>3, <2>4 DEF IceOnce
  <2>6. DtlsOnce(queue["sig"], queue["net"])'
    BY <1>2, <2>3, <2>4 DEF DtlsOnce
  <2>7. tr.sctp_made = 0 /\ t.sctp_made = 1 /\ ~In(queue'["net"], NewSctp)
    BY <1>2, <2>1, <2>3, <2>4 DEF SctpOnce
  <2>8. SctpOnce(queue["sig"], queue["net"])'
    BY <1>2, <2>1, <2>3, <2>4, <2>7 DEF SctpOnce
  <2>9. UpIsVerified(queue["sig"], queue["net"])'
    BY <1>2, <2>1, <2>3, <2>4 DEF UpIsVerified
  <2> QED
    BY <2>5, <2>6, <2>8, <2>9 DEF TransportInv
<1> QED
  BY <1>4, <1>5, <1>6

\* A report of the agent moves on to the signaling queue.
LEMMA IceEventStep ==
  ASSUME TypeInv, TransportInv, queue["net"] # <<>>, OnIceEvent
  PROVE TransportInv'
<1> DEFINE sig == queue["sig"]
           net == queue["net"]
           state == First("net").arg
           timer == IF state \in {"CONNECTED", "timeout"} THEN "off" ELSE tr.timer
           to == IF state = "timeout" THEN "FAILED" ELSE state
           a == [tr EXCEPT !.timer = "armed"]
           b == [tr EXCEPT !.timer = timer, !.ice = to]
           posts == IF to = "COMPLETED" THEN <<>> ELSE Reported(tr.ice, to, "iceState")
<1>1. tr = [f \in TrFields |-> tr[f]] /\ First("net") \in NetItems /\ First("net").op = "iceEvent"
  BY FirstType DEF TypeInv, OnIceEvent
<1>2. state \in States \cup {"timeout"}
  BY <1>1 DEF NetItems, PlainNet
<1>3. to \in States /\ (to = "CONNECTED" <=> state = "CONNECTED") /\ to # "none"
  BY <1>2 DEF States
<1>4. \/ NetDone(tr, <<>>)
      \/ NetDone(a, <<>>)
      \/ tr.ice # "none" /\ NetDone(b, posts)
  BY DEF OnIceEvent, OfIce, NetFails
<1>5. First("net") = AgentUp \/ state # "CONNECTED"
  BY <1>1 DEF NetItems, PlainNet, AgentUp, ItemOf
<1> HIDE DEF timer, to, state
<1>6. /\ SameTransports(tr, tr) /\ SameTransports(tr, a)
      /\ tr.ice # "none" => SameTransports(tr, b)
  BY <1>1, <1>3 DEF SameTransports, TrFields
<1>7. <<>> \in Seq(SigItems) /\ posts \in Seq(SigItems) /\ \A x : ~In(<<>>, x)
  BY <1>3, PostsType, PostsTokens
<1>8. to # "CONNECTED" => \A x \in SigTokens : ~In(posts, x)
  BY <1>3, PostsTokens
<1>9. posts = <<>> \/ to # "CONNECTED" \/ posts = <<IceUp>>
  BY DEF Reported, IceUp
<1> HIDE DEF a, b, posts
<1>10. CASE NetDone(tr, <<>>) \/ NetDone(a, <<>>)
  BY <1>6, <1>7, <1>10, NetCalm
<1>11. CASE tr.ice # "none" /\ NetDone(b, posts) /\ (to # "CONNECTED" \/ posts = <<>>)
  BY <1>6, <1>7, <1>8, <1>11, NetCalm
<1>12. CASE tr.ice # "none" /\ NetDone(b, posts) /\ to = "CONNECTED" /\ posts = <<IceUp>>
  <2>1. First("net") = AgentUp
    BY <1>3, <1>5, <1>12
  <2>2. /\ \A x : /\ In(queue'["net"], x) => In(net, x)
                  /\ Uniq(net, x) => Uniq(queue'["net"], x)
                  /\ First("net") = x => In(net, x)
                  /\ First("net") = x /\ Uniq(net, x) => ~In(queue'["net"], x)
        /\ \A x : /\ In(queue'["sig"], x) => In(sig, x) \/ In(posts, x)
                  /\ Uniq(sig, x) /\ ~In(posts, x) => Uniq(queue'["sig"], x)
                  /\ ~In(sig, x) /\ Uniq(posts, x) => Uniq(queue'["sig"], x)
        /\ blocked' = blocked /\ pc' = pc /\ tr' = b
    BY <1>7, <1>12, NetTakes
  <2>3. \A x : (In(posts, x) <=> x = IceUp) /\ Uniq(posts, x)
    BY <1>12, OneIn
  <2>4. IceOnce(sig, net) /\ DtlsOnce(sig, net) /\ SctpOnce(sig, net) /\ UpIsVerified(sig, net)
    BY DEF TransportInv
  <2>5. SameTransports(tr, b)
    BY <1>6, <1>12
  <2>6. IceOnce(queue["sig"], queue["net"])'
    BY <2>2, <2>3, <2>4, <2>5, TokensDiffer DEF IceOnce, SameTransports
  <2>7. DtlsOnce(queue["sig"], queue["net"])'
    BY <2>1, <2>2, <2>3, <2>4, <2>5, TokensDiffer DEF DtlsOnce, SameTransports
  <2>8. SctpOnce(queue["sig"], queue["net"])'
    BY <2>2, <2>3, <2>4, <2>5, TokensDiffer DEF SctpOnce, SameTransports
  <2>9. UpIsVerified(queue["sig"], queue["net"])'
    BY <2>2, <2>3, <2>4, <2>5, TokensDiffer DEF UpIsVerified, SameTransports
  <2> QED
    BY <2>6, <2>7, <2>8, <2>9 DEF TransportInv
<1> QED
  BY <1>4, <1>9, <1>10, <1>11, <1>12

\* The association comes up or goes down.
LEMMA SctpEventStep ==
  ASSUME TypeInv, TransportInv, queue["net"] # <<>>, OnSctpEvent
  PROVE TransportInv'
<1> DEFINE sig == queue["sig"]
           net == queue["net"]
           state == First("net").arg
           t == [tr EXCEPT !.sctp = state]
           posts == Reported(tr.sctp, state, "sctpState")
<1>1. tr = [f \in TrFields |-> tr[f]] /\ First("net") \in NetItems /\ First("net").op = "sctpEvent"
  BY FirstType DEF TypeInv, OnSctpEvent
<1>2. state \in {"CONNECTED", "DISCONNECTED"}
  BY <1>1 DEF NetItems, PlainNet
<1>3. NetDone(tr, <<>>) \/ (tr.sctp # "none" /\ NetDone(t, posts))
  BY DEF OnSctpEvent
<1>4. /\ t.ice = tr.ice /\ t.dtls = tr.dtls /\ t.dtls_made = tr.dtls_made
      /\ t.verified = tr.verified /\ t.sctp_made = tr.sctp_made
  BY <1>1 DEF TrFields
<1>5. <<>> \in Seq(SigItems) /\ posts \in Seq(SigItems) /\ \A x : ~In(<<>>, x)
  BY <1>2, PostsType, PostsTokens DEF States
<1>6. \A x \in SigTokens : x # SctpUp => ~In(posts, x)
  BY <1>2, <1>5, OneIn, PostsTokens DEF Reported, SctpUp, States
<1> HIDE DEF state, t, posts
<1>7. CASE NetDone(tr, <<>>)
  BY <1>5, <1>7, NetCalm DEF SameTransports
<1>8. CASE tr.sctp # "none" /\ NetDone(t, posts)
  BY <1>4, <1>5, <1>6, <1>8, NetTakes, TokensDiffer DEF SigTokens, TransportInv, IceOnce, DtlsOnce, SctpOnce, UpIsVerified
<1> QED
  BY <1>3, <1>7, <1>8

\* Close destroys the transports.
LEMMA CloseTransportsStep ==
  ASSUME TypeInv, TransportInv, queue["net"] # <<>>, blocked["net"] = Idle, CloseTransports
  PROVE TransportInv'
<1> DEFINE sig == queue["sig"]
           net == queue["net"]
           a == IF tr.sctp \in {"none", "DISCONNECTED"} THEN <<>>
                ELSE <<ItemOf("sctpState", "DISCONNECTED")>>
           b == IF tr.dtls = "none" THEN <<>> ELSE <<ItemOf("dtlsState", "DISCONNECTED")>>
           t == [tr EXCEPT !.ice = "none", !.dtls = "none", !.sctp = "none", !.timer = "off"]
<1>1. NetDone(t, a \o b)
  BY DEF CloseTransports
<1>2. /\ t.ice = "none" /\ t.dtls = "none" /\ t.sctp = "none" /\ t.dtls_made = tr.dtls_made
      /\ t.verified = tr.verified /\ t.sctp_made = tr.sctp_made
  BY DEF TypeInv, TrFields
<1>3. /\ a \in Seq(SigItems) /\ b \in Seq(SigItems)
      /\ \A x \in SigTokens : ~In(a, x) /\ ~In(b, x)
  BY PostsType, PostsTokens DEF States
<1> HIDE DEF a, b, t
<1>4. a \o b \in Seq(SigItems) /\ \A x \in SigTokens : ~In(a \o b, x)
  BY <1>3, ConcatIn, ConcatProperties
<1>5. /\ \A x \in SigTokens : /\ In(queue'["sig"], x) => In(sig, x)
                              /\ Uniq(sig, x) => Uniq(queue'["sig"], x)
      /\ \A x : /\ In(queue'["net"], x) => In(net, x)
                /\ Uniq(net, x) => Uniq(queue'["net"], x)
      /\ InitIce \in SigTokens /\ IceUp \in SigTokens /\ DtlsUp \in SigTokens /\ SctpUp \in SigTokens
      /\ blocked' = blocked /\ pc' = pc /\ tr' = t
  BY <1>1, <1>4, NetSilent
<1>6. IceOnce(sig, net) /\ DtlsOnce(sig, net) /\ SctpOnce(sig, net) /\ UpIsVerified(sig, net)
  BY DEF TransportInv
<1>7. IceOnce(queue["sig"], queue["net"])'
  BY <1>2, <1>5, <1>6 DEF IceOnce
<1>8. DtlsOnce(queue["sig"], queue["net"])'
  BY <1>2, <1>5, <1>6 DEF DtlsOnce
<1>9. SctpOnce(queue["sig"], queue["net"])'
  BY <1>2, <1>5, <1>6 DEF SctpOnce
<1>10. UpIsVerified(queue["sig"], queue["net"])'
  BY <1>2, <1>5, <1>6 DEF UpIsVerified, Idle
<1> QED
  BY <1>7, <1>8, <1>9, <1>10 DEF TransportInv

\* Posting one closure.
LEMMA AppendIn ==
  ASSUME NEW S, NEW s \in Seq(S), NEW e \in S, NEW x
  PROVE /\ In(Append(s, e), x) <=> In(s, x) \/ e = x
        /\ Uniq(s, x) /\ (e = x => ~In(s, x)) => Uniq(Append(s, e), x)
<1> DEFINE t == <<e>>
<1>1. Append(s, e) = s \o t /\ t \in Seq(S)
  BY AppendIsConcat
<1>2. (In(t, x) <=> e = x) /\ Uniq(t, x)
  BY OneIn
<1> HIDE DEF t
<1>3. /\ In(s \o t, x) <=> In(s, x) \/ In(t, x)
      /\ Uniq(s, x) /\ ~In(t, x) => Uniq(s \o t, x)
      /\ ~In(s, x) /\ Uniq(t, x) => Uniq(s \o t, x)
  BY <1>1, ConcatIn
<1> QED
  BY <1>1, <1>2, <1>3

\* A packet of the handshake: the thread waits for the verification, or the handshake ends.
LEMMA HandshakeStep ==
  ASSUME TypeInv, TransportInv, queue["net"] # <<>>, blocked["net"] = Idle, OnHandshakePacket
  PROVE TransportInv'
<1> DEFINE sig == queue["sig"]
           net == queue["net"]
           up == [tr EXCEPT !.dtls = "CONNECTED"]
           down == [tr EXCEPT !.dtls = "FAILED"]
<1>1. tr = [f \in TrFields |-> tr[f]] /\ sig \in Seq(SigItems) /\ net \in Seq(NetItems)
  BY DEF TypeInv
<1>2. IceOnce(sig, net) /\ DtlsOnce(sig, net) /\ SctpOnce(sig, net) /\ UpIsVerified(sig, net)
  BY DEF TransportInv
<1>3. \/ NetDone(tr, <<>>)
      \/ /\ tr.dtls = "CONNECTING" /\ ~tr.verified
         /\ blocked' = [blocked EXCEPT !["net"] = Item("handshake")]
         /\ queue' = [Taken("net") EXCEPT !["sig"] = Append(@, InvokeOf("verify", "net"))]
         /\ UNCHANGED <<pc, tr>>
      \/ tr.dtls = "CONNECTING" /\ tr.verified /\ NetDone(up, <<DtlsUp>>)
      \/ tr.dtls = "CONNECTING" /\ NetDone(down, <<ItemOf("dtlsState", "FAILED")>>)
  BY DEF OnHandshakePacket, OfIce, NetFails, DtlsUp
<1>4. /\ <<>> \in Seq(SigItems) /\ <<DtlsUp>> \in Seq(SigItems)
      /\ <<ItemOf("dtlsState", "FAILED")>> \in Seq(SigItems)
  BY PostsType DEF DtlsUp, States
<1>5. CASE NetDone(tr, <<>>)
  BY <1>5, PostsType, PostsTokens, NetCalm DEF SameTransports
<1>6. CASE /\ tr.dtls = "CONNECTING" /\ ~tr.verified
           /\ blocked' = [blocked EXCEPT !["net"] = Item("handshake")]
           /\ queue' = [Taken("net") EXCEPT !["sig"] = Append(@, InvokeOf("verify", "net"))]
           /\ UNCHANGED <<pc, tr>>
  <2> DEFINE v == InvokeOf("verify", "net")
  <2>1. v \in SigItems /\ \A x \in SigTokens : v # x
    BY DEF SigTokens, InitIce, IceUp, DtlsUp, SctpUp, Item, ItemOf, InvokeOf, SigItems
  <2> HIDE DEF v, Taken
  <2>2. queue'["sig"] = Append(sig, v) /\ queue'["net"] = Tail(net)
    BY <1>6, FirstType DEF Queues, v
  <2>3. \A x \in SigTokens : /\ In(queue'["sig"], x) => In(sig, x)
                             /\ Uniq(sig, x) => Uniq(queue'["sig"], x)
    BY <1>1, <2>1, <2>2, AppendIn
  <2>4. \A x : /\ In(queue'["net"], x) => In(net, x)
               /\ Uniq(net, x) => Uniq(queue'["net"], x)
    BY <1>1, <2>2, TailIn
  <2>5. InitIce \in SigTokens /\ IceUp \in SigTokens /\ DtlsUp \in SigTokens /\ SctpUp \in SigTokens
    BY DEF SigTokens
  <2>6. IceOnce(queue["sig"], queue["net"])'
    BY <1>2, <1>6, <2>3, <2>4, <2>5 DEF IceOnce
  <2>7. DtlsOnce(queue["sig"], queue["net"])'
    BY <1>2, <1>6, <2>3, <2>4, <2>5 DEF DtlsOnce
  <2>8. SctpOnce(queue["sig"], queue["net"])'
    BY <1>2, <1>6, <2>3, <2>4, <2>5 DEF SctpOnce
  <2>9. tr'.dtls = "CONNECTING" /\ tr'.verified = FALSE
    BY <1>2, <1>6 DEF UpIsVerified
  <2>10. UpIsVerified(queue["sig"], queue["net"])'
    BY <1>2, <1>6, <2>3, <2>4, <2>5, <2>9 DEF UpIsVerified
  <2> QED
    BY <2>6, <2>7, <2>8, <2>10 DEF TransportInv
<1>7. CASE tr.dtls = "CONNECTING" /\ tr.verified /\ NetDone(up, <<DtlsUp>>)
  <2>1. /\ up.ice = tr.ice /\ up.dtls = "CONNECTED" /\ up.dtls_made = tr.dtls_made
        /\ up.verified = tr.verified /\ up.sctp = tr.sctp /\ up.sctp_made = tr.sctp_made
    BY <1>1 DEF TrFields
  <2> HIDE DEF up
  <2>2. /\ \A x : /\ In(queue'["net"], x) => In(net, x)
                  /\ Uniq(net, x) => Uniq(queue'["net"], x)
        /\ \A x : /\ In(queue'["sig"], x) => In(sig, x) \/ In(<<DtlsUp>>, x)
                  /\ Uniq(sig, x) /\ ~In(<<DtlsUp>>, x) => Uniq(queue'["sig"], x)
                  /\ ~In(sig, x) /\ Uniq(<<DtlsUp>>, x) => Uniq(queue'["sig"], x)
        /\ blocked' = blocked /\ pc' = pc /\ tr' = up
    BY <1>4, <1>7, NetTakes
  <2>3. \A x : (In(<<DtlsUp>>, x) <=> DtlsUp = x) /\ Uniq(<<DtlsUp>>, x)
    BY OneIn
  <2>4. tr.verified = TRUE /\ blocked["net"].op # "handshake" /\ tr.dtls_made # 0
    BY <1>2, <1>7 DEF UpIsVerified
  <2>5. IceOnce(queue["sig"], queue["net"])'
    BY <1>2, <2>1, <2>2, <2>3, TokensDiffer DEF IceOnce
  <2>6. DtlsOnce(queue["sig"], queue["net"])'
    BY <1>2, <1>7, <2>1, <2>2, <2>3, TokensDiffer DEF DtlsOnce
  <2>7. SctpOnce(queue["sig"], queue["net"])'
    BY <1>2, <1>7, <2>1, <2>2, <2>3, <2>4 DEF SctpOnce
  <2>8. UpIsVerified(queue["sig"], queue["net"])'
    BY <1>2, <2>1, <2>2, <2>3, <2>4 DEF UpIsVerified
  <2> QED
    BY <2>5, <2>6, <2>7, <2>8 DEF TransportInv
<1>8. CASE tr.dtls = "CONNECTING" /\ NetDone(down, <<ItemOf("dtlsState", "FAILED")>>)
           /\ blocked["net"].op # "handshake"
  <2>1. /\ down.ice = tr.ice /\ down.dtls = "FAILED" /\ down.dtls_made = tr.dtls_made
        /\ down.verified = tr.verified /\ down.sctp = tr.sctp /\ down.sctp_made = tr.sctp_made
    BY <1>1 DEF TrFields
  <2> HIDE DEF down
  <2>2. \A x \in SigTokens : ~In(<<ItemOf("dtlsState", "FAILED")>>, x)
    BY PostsTokens DEF States
  <2>3. /\ \A x \in SigTokens : /\ In(queue'["sig"], x) => In(sig, x)
                                /\ Uniq(sig, x) => Uniq(queue'["sig"], x)
        /\ \A x : /\ In(queue'["net"], x) => In(net, x)
                  /\ Uniq(net, x) => Uniq(queue'["net"], x)
        /\ InitIce \in SigTokens /\ IceUp \in SigTokens /\ DtlsUp \in SigTokens /\ SctpUp \in SigTokens
        /\ blocked' = blocked /\ pc' = pc /\ tr' = down
    BY <1>4, <1>8, <2>2, NetSilent
  <2>4. IceOnce(queue["sig"], queue["net"])'
    BY <1>2, <2>1, <2>3 DEF IceOnce
  <2>5. DtlsOnce(queue["sig"], queue["net"])'
    BY <1>2, <1>8, <2>1, <2>3 DEF DtlsOnce
  <2>6. SctpOnce(queue["sig"], queue["net"])'
    BY <1>2, <1>8, <2>1, <2>3 DEF SctpOnce
  <2>7. UpIsVerified(queue["sig"], queue["net"])'
    BY <1>2, <1>8, <2>1, <2>3 DEF UpIsVerified
  <2> QED
    BY <2>4, <2>5, <2>6, <2>7 DEF TransportInv
<1>9. blocked["net"].op # "handshake"
  BY DEF Idle
<1> QED
  BY <1>3, <1>5, <1>6, <1>7, <1>8, <1>9

\* The handshake goes on after the verification.
LEMMA ResumeStep ==
  ASSUME TypeInv, TransportInv, ResumeHandshake
  PROVE TransportInv'
<1> DEFINE sig == queue["sig"]
           net == queue["net"]
           yes == reply["net"] = "yes"
           a == [tr EXCEPT !.verified = yes]
           b == [tr EXCEPT !.verified = TRUE, !.dtls = "CONNECTED"]
<1>1. tr = [f \in TrFields |-> tr[f]] /\ sig \in Seq(SigItems) /\ net \in Seq(NetItems)
  BY DEF TypeInv
<1>2. IceOnce(sig, net) /\ DtlsOnce(sig, net) /\ SctpOnce(sig, net) /\ UpIsVerified(sig, net)
  BY DEF TransportInv
<1>3. /\ \/ tr' = a /\ queue' = queue
         \/ tr' = b /\ queue' = [queue EXCEPT !["sig"] = Append(@, DtlsUp)]
      /\ blocked' = [blocked EXCEPT !["net"] = Idle] /\ pc' = pc
  BY DEF ResumeHandshake, DtlsUp
<1>4. blocked'["net"].op # "handshake"
  BY <1>3 DEF TypeInv, Threads, Queues, Idle
<1>5. /\ tr.dtls = "CONNECTING" /\ tr.verified = FALSE
  BY <1>2 DEF ResumeHandshake, UpIsVerified
<1>6. tr.dtls_made = 1 /\ tr.dtls # "none"
  BY <1>2, <1>5 DEF DtlsOnce
<1>7. /\ a.ice = tr.ice /\ a.dtls = tr.dtls /\ a.dtls_made = tr.dtls_made
      /\ a.verified = yes /\ a.sctp = tr.sctp /\ a.sctp_made = tr.sctp_made
  BY <1>1 DEF TrFields
<1>8. /\ b.ice = tr.ice /\ b.dtls = "CONNECTED" /\ b.dtls_made = tr.dtls_made
      /\ b.verified = TRUE /\ b.sctp = tr.sctp /\ b.sctp_made = tr.sctp_made
  BY <1>1 DEF TrFields
<1>9. yes \in BOOLEAN
  OBVIOUS
<1> HIDE DEF a, b, yes
<1>10. CASE tr' = a /\ queue' = queue
  BY <1>2, <1>3, <1>4, <1>5, <1>6, <1>7, <1>9, <1>10 DEF IceOnce, DtlsOnce, SctpOnce, UpIsVerified, TransportInv
<1>11. CASE tr' = b /\ queue' = [queue EXCEPT !["sig"] = Append(@, DtlsUp)]
  <2>1. queue'["sig"] = Append(sig, DtlsUp) /\ queue'["net"] = net
    BY <1>11 DEF TypeInv, Queues
  <2>2. DtlsUp \in SigItems
    BY DEF DtlsUp, ItemOf, SigItems, States
  <2>3. \A x : /\ In(queue'["sig"], x) <=> In(sig, x) \/ DtlsUp = x
               /\ Uniq(sig, x) /\ (DtlsUp = x => ~In(sig, x)) => Uniq(queue'["sig"], x)
    BY <1>1, <2>1, <2>2, AppendIn
  <2>4. IceOnce(queue["sig"], queue["net"])'
    BY <1>2, <1>8, <1>11, <2>1, <2>3, TokensDiffer DEF IceOnce
  <2>5. DtlsOnce(queue["sig"], queue["net"])'
    BY <1>2, <1>5, <1>8, <1>11, <2>1, <2>3, TokensDiffer DEF DtlsOnce
  <2>6. SctpOnce(queue["sig"], queue["net"])'
    BY <1>2, <1>5, <1>6, <1>8, <1>11, <2>1, <2>3, TokensDiffer DEF SctpOnce
  <2>7. tr'.verified = TRUE /\ tr'.dtls_made # 0
    BY <1>6, <1>8, <1>11
  <2>8. UpIsVerified(queue["sig"], queue["net"])'
    BY <1>4, <2>7 DEF UpIsVerified
  <2> QED
    BY <2>4, <2>5, <2>6, <2>8 DEF TransportInv
<1> QED
  BY <1>3, <1>10, <1>11

-----------------------------------------------------------------------------
(* The other threads                                                         *)

\* Posting to a queue what the invariant does not follow.
LEMMA PostCalm ==
  ASSUME TypeInv, TransportInv, NEW q \in Queues, NEW item,
         queue' = [queue EXCEPT ![q] = Append(@, item)],
         q = "sig" => item \in SigItems \ SigTokens, q = "net" => item \in NetItems \ NetTokens,
         SameTransports(tr, tr'), pc' = pc, blocked'["net"] = blocked["net"]
  PROVE TransportInv'
<1>1. /\ queue["sig"] \in Seq(SigItems) /\ queue["net"] \in Seq(NetItems)
      /\ queue'[q] = Append(queue[q], item) /\ \A p \in Queues : p # q => queue'[p] = queue[p]
  BY DEF TypeInv
<1>2. Calm(queue["sig"], queue'["sig"], SigTokens)
  BY <1>1, AppendIn DEF Calm, Queues
<1>3. Calm(queue["net"], queue'["net"], NetTokens)
  BY <1>1, AppendIn DEF Calm, Queues
<1> QED
  BY <1>2, <1>3, CalmStep

\* The worker queue and the application.
LEMMA ApplicationCalm ==
  ASSUME TypeInv, TransportInv, Worker \/ Application \/ Returns
  PROVE TransportInv'
<1>1. \A x \in SigTokens : \/ x.op = "initIce"
                           \/ x.op \in {"iceState", "dtlsState", "sctpState"}
  BY DEF SigTokens, InitIce, IceUp, DtlsUp, SctpUp, Item, ItemOf
<1>2. \A x \in NetTokens : x.op \in {"newIce", "iceEvent", "newDtls", "newSctp", "sctpEvent"}
  BY DEF NetTokens, NewIce, AgentUp, NewDtls, NewSctp, AssocUp, Item, ItemOf
<1>3. /\ \A op \in {"createOffer", "createAnswer", "candidate", "addChannel", "close"} :
           Item(op) \in SigItems \ SigTokens
      /\ \A d \in RemoteDescriptions : ItemOf("setRemoteDescription", d) \in SigItems \ SigTokens
      /\ \A mid \in Mids : ItemOf("addTrack", mid) \in SigItems \ SigTokens
  BY <1>1 DEF Item, ItemOf, SigItems
<1>4. Item("closeTransports") \in NetItems \ NetTokens
  BY <1>2 DEF Item, NetItems
<1>5. /\ blocked = [t \in Threads |-> blocked[t]] /\ SameTransports(tr, tr)
      /\ queue = [q \in Queues |-> queue[q]]
      /\ "net" \in Queues /\ "sig" \in Queues /\ "wrk" \in Queues /\ "net" \in Threads
  BY DEF TypeInv, SameTransports, Queues, Threads
<1>6. \A w : blocked' = [blocked EXCEPT !["app"] = w] => blocked'["net"] = blocked["net"]
  BY <1>5
<1>7. CASE Worker
  BY <1>5, <1>7, CalmStep DEF Worker, Taken, Calm
<1>8. ASSUME NEW q \in Queues, NEW item, NEW wait, Call(q, item, wait),
             q = "sig" => item \in SigItems \ SigTokens, q # "net"
      PROVE TransportInv'
  BY <1>5, <1>6, <1>8, PostCalm DEF Call
<1>9. CASE Application
  BY <1>3, <1>5, <1>8, <1>9 DEF Application
<1>10. CASE Returns
  <2>1. PICK w : blocked' = [blocked EXCEPT !["app"] = w]
    BY <1>10 DEF Returns
  <2>2. UNCHANGED <<pc, tr>>
    BY <1>10 DEF Returns
  <2>3. \/ queue' = queue
        \/ queue' = [queue EXCEPT !["net"] = Append(@, Item("closeTransports"))]
        \/ queue' = [queue EXCEPT !["sig"] = Append(@, Item("close"))]
    BY <1>10 DEF Returns
  <2>4. blocked'["net"] = blocked["net"]
    BY <1>6, <2>1
  <2>5. CASE queue' = queue
    BY <1>5, <2>2, <2>4, <2>5, CalmStep DEF Calm
  <2>6. CASE queue' = [queue EXCEPT !["net"] = Append(@, Item("closeTransports"))]
    BY <1>4, <1>5, <2>2, <2>4, <2>6, PostCalm
  <2>7. CASE queue' = [queue EXCEPT !["sig"] = Append(@, Item("close"))]
    BY <1>3, <1>5, <2>2, <2>4, <2>7, PostCalm
  <2> QED
    BY <2>3, <2>5, <2>6, <2>7
<1> QED
  BY <1>7, <1>9, <1>10

\* The agent, the peer and the SCTP stack.
LEMMA WorldStep ==
  ASSUME ~FastFlaps, TypeInv, TransportInv, World
  PROVE TransportInv'
<1> DEFINE sig == queue["sig"]
           net == queue["net"]
<1>1. /\ tr = [f \in TrFields |-> tr[f]] /\ sig \in Seq(SigItems) /\ net \in Seq(NetItems)
      /\ queue = [q \in Queues |-> queue[q]] /\ "net" \in Queues /\ "sig" \in Queues
  BY DEF TypeInv, Queues
<1>2. IceOnce(sig, net) /\ DtlsOnce(sig, net) /\ SctpOnce(sig, net) /\ UpIsVerified(sig, net)
  BY DEF TransportInv
<1>3. \/ \E s \in AgentSteps :
           /\ s[2] = "CONNECTED" => ~DtlsUnderWay
           /\ Event(ItemOf("iceEvent", s[2])) /\ tr' = tr
      \/ tr' = [tr EXCEPT !.timer = "fired"] /\ Event(ItemOf("iceEvent", "timeout"))
      \/ tr' = tr /\ Event(Item("gatheringDone"))
      \/ tr' = tr /\ Event(Item("packet"))
      \/ tr.dtls = "CONNECTED" /\ tr' = tr /\ Event(AssocUp)
      \/ tr' = tr /\ Event(ItemOf("sctpEvent", "DISCONNECTED"))
  BY DEF World, AssocUp
<1>4. SameTransports(tr, tr) /\ SameTransports(tr, [tr EXCEPT !.timer = "fired"])
  BY <1>1 DEF SameTransports, TrFields
<1>5. \A item : Event(item) => /\ queue' = [queue EXCEPT !["net"] = Append(@, item)]
                               /\ blocked' = blocked /\ pc' = pc
  BY DEF Event
<1>6. \A item \in NetItems \ NetTokens :
        Event(item) /\ SameTransports(tr, tr') => TransportInv'
  BY <1>1, <1>5, PostCalm
<1>7. \A x \in NetTokens : \/ x.op \in {"newIce", "newDtls", "newSctp"}
                           \/ x.op \in {"iceEvent", "sctpEvent"} /\ x.arg = "CONNECTED"
  BY DEF NetTokens, NewIce, AgentUp, NewDtls, NewSctp, AssocUp, Item, ItemOf
<1>8. /\ \A s \in (States \cup {"timeout"}) \ {"CONNECTED"} :
           ItemOf("iceEvent", s) \in NetItems \ NetTokens
      /\ Item("gatheringDone") \in NetItems \ NetTokens
      /\ Item("packet") \in NetItems \ NetTokens
      /\ ItemOf("sctpEvent", "DISCONNECTED") \in NetItems \ NetTokens
  BY <1>7 DEF Item, ItemOf, NetItems, States
<1>9. CASE \/ tr' = [tr EXCEPT !.timer = "fired"] /\ Event(ItemOf("iceEvent", "timeout"))
           \/ tr' = tr /\ Event(Item("gatheringDone"))
           \/ tr' = tr /\ Event(Item("packet"))
           \/ tr' = tr /\ Event(ItemOf("sctpEvent", "DISCONNECTED"))
  BY <1>4, <1>6, <1>8, <1>9
<1>10. ASSUME NEW item \in NetItems, Event(item)
       PROVE /\ queue'["sig"] = sig /\ blocked' = blocked /\ pc' = pc
             /\ \A x : /\ In(queue'["net"], x) <=> In(net, x) \/ item = x
                       /\ Uniq(net, x) /\ (item = x => ~In(net, x)) => Uniq(queue'["net"], x)
  <2>1. queue'["sig"] = sig /\ queue'["net"] = Append(net, item) /\ blocked' = blocked /\ pc' = pc
    BY <1>1, <1>5, <1>10
  <2> QED
    BY <1>1, <2>1, AppendIn
<1>11. CASE tr.dtls = "CONNECTED" /\ tr' = tr /\ Event(AssocUp)
  BY <1>2, <1>10, <1>11, TokensDiffer DEF AssocUp, ItemOf, NetItems, IceOnce, DtlsOnce, SctpOnce, UpIsVerified, TransportInv
<1>12. CASE ~DtlsUnderWay /\ tr' = tr /\ Event(AgentUp)
  <2>1. AgentUp \in NetItems
    BY DEF AgentUp, ItemOf, NetItems, States
  <2>2. /\ queue'["sig"] = sig /\ blocked' = blocked /\ pc' = pc
        /\ \A x : /\ In(queue'["net"], x) <=> In(net, x) \/ AgentUp = x
                  /\ Uniq(net, x) /\ (AgentUp = x => ~In(net, x)) => Uniq(queue'["net"], x)
    BY <1>10, <1>12, <2>1
  <2>3. ~In(sig, IceUp) /\ ~In(net, NewDtls) /\ ~In(net, AgentUp)
    BY <1>1, <1>12, LenProperties DEF IceUp, NewDtls, AgentUp, Item, ItemOf, In, DtlsUnderWay
  <2>4. IceOnce(queue["sig"], queue["net"])'
    BY <1>2, <1>12, <2>2, TokensDiffer DEF IceOnce
  <2>5. DtlsOnce(queue["sig"], queue["net"])'
    BY <1>2, <1>12, <2>2, <2>3, TokensDiffer DEF DtlsOnce
  <2>6. SctpOnce(queue["sig"], queue["net"])'
    BY <1>2, <1>12, <2>2, TokensDiffer DEF SctpOnce
  <2>7. UpIsVerified(queue["sig"], queue["net"])'
    BY <1>2, <1>12, <2>2, TokensDiffer DEF UpIsVerified
  <2> QED
    BY <2>4, <2>5, <2>6, <2>7 DEF TransportInv
<1>13. CASE \E s \in AgentSteps : /\ s[2] = "CONNECTED" => ~DtlsUnderWay
                                  /\ Event(ItemOf("iceEvent", s[2])) /\ tr' = tr
  <2>1. PICK s \in AgentSteps : /\ s[2] = "CONNECTED" => ~DtlsUnderWay
                                /\ Event(ItemOf("iceEvent", s[2])) /\ tr' = tr
    BY <1>13
  <2>2. s[2] \in States
    BY DEF AgentSteps, States
  <2>3. CASE s[2] = "CONNECTED"
    BY <1>12, <2>1, <2>3 DEF AgentUp
  <2>4. CASE s[2] # "CONNECTED"
    BY <1>4, <1>6, <1>8, <2>1, <2>2, <2>4
  <2> QED
    BY <2>3, <2>4
<1> QED
  BY <1>3, <1>9, <1>11, <1>13

-----------------------------------------------------------------------------
(* The theorems                                                              *)

\* Every step keeps the invariant.
LEMMA TransportStep ==
  ASSUME ~FastFlaps, NegotiationInv, TransportInv, [Next]_vars
  PROVE TransportInv'
<1>1. TypeInv
  BY DEF NegotiationInv
<1>2. /\ Ready("sig") => queue["sig"] # <<>>
      /\ Ready("net") => queue["net"] # <<>> /\ blocked["net"] = Idle
  BY DEF Ready
<1>3. CASE Signaling
  BY <1>1, <1>2, <1>3, NegotiationPlain, OtherPlain, PlainCalm, InitIceStep, IceStateStep, DtlsStateStep,
     SctpStateStep DEF Signaling
<1>4. CASE Network
  BY <1>1, <1>2, <1>4, NetworkCalm, NewTransportStep, IceEventStep, SctpEventStep,
     CloseTransportsStep, HandshakeStep, ResumeStep DEF Network
<1>5. CASE Worker \/ Application \/ Returns
  BY <1>1, <1>5, ApplicationCalm
<1>6. CASE World
  BY <1>1, <1>6, WorldStep
<1>7. CASE UNCHANGED vars
  BY <1>7 DEF vars, TransportInv, IceOnce, DtlsOnce, SctpOnce, UpIsVerified
<1> QED
  BY <1>3, <1>4, <1>5, <1>6, <1>7 DEF Next

\* There is no transport in the initial state.
LEMMA TransportInit == Init => TransportInv
<1> SUFFICES ASSUME Init PROVE TransportInv
  OBVIOUS
<1>1. queue["sig"] = <<InitIce>> /\ queue["net"] = <<>>
  BY DEF Init, Queues, InitIce
<1>2. \A x : (In(<<InitIce>>, x) <=> InitIce = x) /\ Uniq(<<InitIce>>, x) /\ ~In(<<>>, x) /\ Uniq(<<>>, x)
  BY OneIn
<1>3. /\ tr.ice = "none" /\ tr.dtls = "none" /\ tr.dtls_made = 0 /\ tr.verified = FALSE
      /\ tr.sctp = "none" /\ tr.sctp_made = 0 /\ pc.connection = "CLOSED"
  BY DEF Init
<1>4. blocked["net"].op = "idle"
  BY DEF Init, Threads, Queues, Idle
<1>5. IceOnce(queue["sig"], queue["net"])
  BY <1>1, <1>2, <1>3 DEF IceOnce
<1>6. DtlsOnce(queue["sig"], queue["net"])
  BY <1>1, <1>2, <1>3, TokensDiffer DEF DtlsOnce
<1>7. SctpOnce(queue["sig"], queue["net"])
  BY <1>1, <1>2, <1>3, TokensDiffer DEF SctpOnce
<1>8. UpIsVerified(queue["sig"], queue["net"])
  BY <1>1, <1>2, <1>3, <1>4, TokensDiffer DEF UpIsVerified
<1> QED
  BY <1>5, <1>6, <1>7, <1>8 DEF TransportInv

\* The invariant holds in every behavior in which the agent does not connect again while a
\* DTLS transport is being made.
LEMMA TransportInvariant == ~FastFlaps => (Spec => []TransportInv)
<1> SUFFICES ASSUME ~FastFlaps PROVE Spec => []TransportInv
  OBVIOUS
<1>1. NegotiationInv /\ [Next]_vars => NegotiationInv'
  BY NegotiationStep
<1>2. NegotiationInv /\ TransportInv /\ [Next]_vars => TransportInv'
  BY TransportStep
<1> QED
  BY <1>1, <1>2, NegotiationInit, TransportInit, PTL DEF Spec

\* Although the signaling queue decides about the DTLS and the SCTP transport from pointers
\* that the network queue assigns later, each is made at most once, when the agent does not
\* connect again while a DTLS transport is being made; with such flaps a second transport
\* can be made.
THEOREM TransportsCreatedOnce == ~FastFlaps => (Spec => []CreatedOnce)
<1> SUFFICES ASSUME ~FastFlaps PROVE Spec => []CreatedOnce
  OBVIOUS
<1>1. TransportInv => CreatedOnce
  <2> SUFFICES ASSUME TransportInv PROVE CreatedOnce
    OBVIOUS
  <2>1. tr.dtls_made \in {0, 1} /\ tr.sctp_made \in {0, 1}
    BY DEF TransportInv, DtlsOnce, SctpOnce
  <2>2. tr.dtls_made <= 1 /\ tr.sctp_made <= 1
    BY <2>1
  <2> QED
    BY <2>2 DEF CreatedOnce
<1> QED
  BY <1>1, TransportInvariant, PTL

\* Whatever order the closures of the signaling and the network queue run in, the connection
\* is reported as connected only after OnDtlsVerify accepted the peer's certificate.
THEOREM ConnectedVerified == ~FastFlaps => (Spec => []ConnectedIsVerified)
<1> SUFFICES ASSUME ~FastFlaps PROVE Spec => []ConnectedIsVerified
  OBVIOUS
<1>1. TransportInv => ConnectedIsVerified
  BY DEF TransportInv, UpIsVerified, ConnectedIsVerified
<1> QED
  BY <1>1, TransportInvariant, PTL

-----------------------------------------------------------------------------
(* The assertions.  Each closure that asserts on a transport or on the local  *)
(* description runs after the closure that made it, because the reports that  *)
(* post the one pass through the other; the invariant holds this order until  *)
(* the application closes the connection.                                     *)

StartGathering == Item("gather")
GatheringDone == Item("gatheringDone")
CloseAll == Item("closeTransports")

Described(p) == p.local_sdp.type # "none"

\* Without an ICE transport, the next closure of the network queue makes it.
Opening(sig, net) ==
    \/ net # <<>> /\ Head(net) = NewIce
    \/ sig # <<>> /\ Head(sig) = InitIce /\ net = <<>> /\ blocked["sig"] = Idle

\* The agent has connected, or a later transport exists.
Reaching(sig, net) ==
    \/ In(net, AgentUp) \/ In(sig, IceUp) \/ In(net, NewDtls) \/ tr.dtls # "none"
    \/ In(sig, DtlsUp) \/ In(net, NewSctp) \/ tr.sctp # "none"

Gathers(net) == In(net, StartGathering) \/ In(net, GatheringDone) \/ tr.gathering # "NEW"

Ordered(sig, net) ==
    /\ tr.ice = "none" => Opening(sig, net)
    /\ Reaching(sig, net) => Described(pc) /\ tr.role # "ACT_PASS" /\ tr.ice # "none"
    /\ In(sig, DtlsUp) \/ blocked["net"].op = "handshake" => tr.dtls # "none"
    /\ Gathers(net) => Described(pc)
    /\ tr.role = "ACT_PASS" => tr.trickle = FALSE
    /\ ~In(net, CloseAll)

Sound ==
    /\ failed \in {"no"} \cup TrackDefects
    /\ failed = "no" => Ordered(queue["sig"], queue["net"])

AssertInv == Closing \/ Sound

\* What a step must not bring to keep the order.
LEMMA OrderedKeeps ==
  ASSUME Ordered(queue["sig"], queue["net"]),
         Described(pc) => Described(pc'),
         tr.role # "ACT_PASS" => tr'.role # "ACT_PASS",
         tr.ice # "none" => tr'.ice # "none",
         tr.dtls # "none" => tr'.dtls # "none",
         tr'.ice = "none" => Opening(queue["sig"], queue["net"])',
         Reaching(queue["sig"], queue["net"])' =>
            \/ Reaching(queue["sig"], queue["net"])
            \/ Described(pc) /\ tr.role # "ACT_PASS" /\ tr.ice # "none",
         In(queue'["sig"], DtlsUp) \/ blocked'["net"].op = "handshake" =>
            \/ In(queue["sig"], DtlsUp) \/ blocked["net"].op = "handshake"
            \/ tr.dtls # "none",
         Gathers(queue["net"])' => Gathers(queue["net"]) \/ Described(pc'),
         tr'.role = "ACT_PASS" => tr'.trickle = FALSE,
         ~In(queue'["net"], CloseAll)
  PROVE Ordered(queue["sig"], queue["net"])'
  BY DEF Ordered

\* A local description stays.
LEMMA DescribedStays ==
  ASSUME NEW p, NEW q, SdpStep(p, q), Described(p)
  PROVE Described(q)
  BY DEF SdpStep, SameSdp, Described

\* Posting leaves the first closure in front.
LEMMA FrontStays ==
  ASSUME NEW S, NEW s \in Seq(S), NEW t \in Seq(S), s # <<>>
  PROVE s \o t # <<>> /\ Head(s \o t) = Head(s)
  BY ConcatProperties, LenProperties, HeadTailProperties, EmptySeq

\* A closure of the signaling queue keeps the order when what it posts does.
LEMMA SigOrdered ==
  ASSUME TypeInv, failed = "no", Ordered(queue["sig"], queue["net"]), SdpStep(pc, pc'),
         NEW h, h.net \in Seq(NetItems), h.ends \in Outcomes \cup {"invoke"},
         NEW rest, NEW op, h.ends = "invoke" => op \in Queries,
         NEW taken, taken = queue \/ (queue["sig"] # <<>> /\ taken = Taken("sig")),
         Finish(h, rest, op, taken),
         ~In(h.net, AgentUp), ~In(h.net, GatheringDone), ~In(h.net, CloseAll),
         In(h.net, NewDtls) \/ In(h.net, NewSctp) => Reaching(queue["sig"], queue["net"]),
         In(h.net, StartGathering) => Described(h.pc),
         tr.ice = "none" => /\ queue["net"] \o h.net # <<>>
                            /\ Head(queue["net"] \o h.net) = NewIce
  PROVE Sound'
<1> DEFINE sig == queue["sig"]
           net == queue["net"]
           asked == IF h.ends = "invoke" THEN <<InvokeOf(op, "sig")>> ELSE <<>>
<1>1. sig \in Seq(SigItems) /\ net \in Seq(NetItems) /\ queue = [q \in Queues |-> queue[q]]
  BY DEF TypeInv
<1>2. /\ taken = [q \in Queues |-> taken[q]]
      /\ taken["sig"] = sig \/ (sig # <<>> /\ taken["sig"] = Tail(sig))
      /\ taken["net"] = net
  BY <1>1, FirstType
<1>3. asked \in Seq(NetItems) /\ \A x : In(asked, x) => x.op \in Queries
  <2>1. h.ends = "invoke" => InvokeOf(op, "sig") \in NetItems /\ InvokeOf(op, "sig").op \in Queries
    BY DEF InvokeOf, NetItems, Queries
  <2>2. \A e \in NetItems : <<e>> \in Seq(NetItems)
    BY OneIn
  <2>3. \A e, x : (In(<<e>>, x) <=> e = x) /\ ~In(<<>>, x)
    BY OneIn
  <2>4. CASE h.ends = "invoke"
    BY <2>1, <2>2, <2>3, <2>4
  <2>5. CASE h.ends # "invoke"
    BY <2>3, <2>5, EmptySeq
  <2> QED
    BY <2>4, <2>5
<1> HIDE DEF asked
<1>4. queue'["sig"] = taken["sig"] /\ queue'["net"] = (net \o h.net) \o asked
  <2>1. queue' = [taken EXCEPT !["net"] = @ \o h.net \o asked, !["wrk"] = @ \o h.wrk]
    BY DEF Finish, asked
  <2> HIDE DEF Taken
  <2> QED
    BY <1>2, <2>1 DEF Queues
<1>5. /\ pc' = (IF Survives(h) THEN h.pc ELSE pc) /\ tr' = tr
      /\ failed' = (IF Survives(h) THEN failed ELSE h.ends)
      /\ blocked'["net"] = blocked["net"]
  BY DEF Finish, TypeInv, Threads, Queues
<1>6. failed' \in {"no"} \cup TrackDefects /\ (failed' = "no" => Survives(h))
  BY <1>5 DEF Survives, Outcomes, TrackDefects
<1>7. \A x : In(queue'["sig"], x) => In(sig, x)
  BY <1>1, <1>2, <1>4, TailIn
<1>8. \A x : In(queue'["net"], x) => In(net, x) \/ In(h.net, x) \/ x.op \in Queries
  <2> SUFFICES ASSUME NEW x, In((net \o h.net) \o asked, x)
               PROVE In(net, x) \/ In(h.net, x) \/ x.op \in Queries
    BY <1>4
  <2> DEFINE both == net \o h.net
  <2>1. both \in Seq(NetItems) /\ In(both \o asked, x)
    BY <1>1, ConcatProperties
  <2>2. In(both, x) => In(net, x) \/ In(h.net, x)
    BY <1>1, ConcatIn
  <2> HIDE DEF both
  <2>3. In(both, x) \/ In(asked, x)
    BY <1>3, <2>1, ConcatIn
  <2> QED
    BY <1>3, <2>2, <2>3
<1>9. \A x \in {AgentUp, NewDtls, NewSctp, StartGathering, GatheringDone, CloseAll} : x.op \notin Queries
  BY DEF AgentUp, NewDtls, NewSctp, StartGathering, GatheringDone, CloseAll, Item, ItemOf, Queries
<1>10. tr.ice = "none" => Opening(queue["sig"], queue["net"])'
  <2>1. net \o h.net \in Seq(NetItems)
    BY <1>1, ConcatProperties
  <2> QED
    BY <1>3, <1>4, <2>1, FrontStays DEF Opening
<1>11. ASSUME failed' = "no"
       PROVE Ordered(queue["sig"], queue["net"])'
  BY <1>5, <1>6, <1>7, <1>8, <1>9, <1>10, <1>11, DescribedStays, OrderedKeeps DEF Reaching, Gathers, Ordered
<1> QED
  BY <1>6, <1>11 DEF Sound

\* Only the constructor's closure runs before the ICE transport is asked for.
LEMMA AskedFirst ==
  ASSUME Ordered(queue["sig"], queue["net"]), tr.ice = "none",
         First("sig").op # "initIce" \/ blocked["sig"].op # "idle" \/ queue["net"] # <<>>
  PROVE queue["net"] # <<>> /\ Head(queue["net"]) = NewIce
  BY DEF InitIce, Item, Idle, Ordered, Opening, First

\* The closures that decide nothing about a transport.
LEMMA PlainSound ==
  ASSUME TypeInv, failed = "no", Ordered(queue["sig"], queue["net"]), SdpStep(pc, pc'), PlainStep,
         First("sig").op # "initIce" \/ blocked["sig"].op # "idle"
  PROVE Sound'
<1>1. PICK h, rest, op, taken :
        /\ h.net \in Seq(PlainNet) /\ (h.net \in Seq(QuietNet) \/ h.pc.local_sdp.type # "none")
        /\ h.ends \in Outcomes \cup {"invoke"} /\ (h.ends = "invoke" => op \in Queries)
        /\ taken = queue \/ (queue["sig"] # <<>> /\ taken = Taken("sig"))
        /\ Finish(h, rest, op, taken)
  BY DEF PlainStep
<1>2. h.net \in Seq(NetItems) /\ queue["net"] \in Seq(NetItems)
  BY <1>1, SeqMonotonic DEF NetItems, TypeInv
<1>3. \A S, x : h.net \in Seq(S) /\ In(h.net, x) => x \in S
  BY ElementOfSeq DEF In
<1>4. /\ \A x \in PlainNet : x.op \in {"gather", "addCandidate", "setRemote"}
      /\ \A x \in QuietNet : x.op \in {"addCandidate", "setRemote"}
      /\ AgentUp.op = "iceEvent" /\ NewDtls.op = "newDtls" /\ NewSctp.op = "newSctp"
      /\ StartGathering.op = "gather" /\ GatheringDone.op = "gatheringDone"
      /\ CloseAll.op = "closeTransports"
  BY DEF PlainNet, QuietNet, AgentUp, NewDtls, NewSctp, StartGathering, GatheringDone, CloseAll,
         Item, ItemOf
<1>5. /\ ~In(h.net, AgentUp) /\ ~In(h.net, GatheringDone) /\ ~In(h.net, CloseAll)
      /\ ~In(h.net, NewDtls) /\ ~In(h.net, NewSctp)
      /\ In(h.net, StartGathering) => Described(h.pc)
  BY <1>1, <1>3, <1>4 DEF Described
<1>6. tr.ice = "none" => queue["net"] \o h.net # <<>> /\ Head(queue["net"] \o h.net) = NewIce
  BY <1>2, AskedFirst, FrontStays
<1> HIDE DEF Finish, Taken
<1> QED
  BY <1>1, <1>2, <1>5, <1>6, SigOrdered

\* A closure that asks for a DTLS or an SCTP transport, or for nothing.
LEMMA AskingSound ==
  ASSUME TypeInv, failed = "no", Ordered(queue["sig"], queue["net"]), SdpStep(pc, pc'),
         queue["sig"] # <<>>, First("sig").op # "initIce", NEW h, h.ends = "return",
         h.net = <<>> \/ (h.net \in {<<NewDtls>>, <<NewSctp>>} /\ Reaching(queue["sig"], queue["net"])),
         Finish(h, Idle, "", Taken("sig"))
  PROVE Sound'
<1>1. NewDtls \in NetItems /\ NewSctp \in NetItems
  BY DEF NewDtls, NewSctp, Item, NetItems
<1>2. h.net \in Seq(NetItems) /\ queue["net"] \in Seq(NetItems)
  BY <1>1, OneIn, EmptySeq DEF TypeInv
<1>3. \A x : In(h.net, x) => x \in {NewDtls, NewSctp} /\ Reaching(queue["sig"], queue["net"])
  <2>1. \A e, x : (In(<<e>>, x) <=> e = x) /\ ~In(<<>>, x)
    BY OneIn
  <2>2. CASE h.net = <<>>
    BY <2>1, <2>2
  <2>3. ASSUME NEW e \in {NewDtls, NewSctp}, h.net = <<e>>, Reaching(queue["sig"], queue["net"])
        PROVE \A x : In(h.net, x) => x \in {NewDtls, NewSctp} /\ Reaching(queue["sig"], queue["net"])
    <3> SUFFICES ASSUME NEW x, In(<<e>>, x) PROVE x \in {NewDtls, NewSctp}
      BY <2>3
    <3>1. e = x
      BY OneIn
    <3> QED
      BY <2>3, <3>1
  <2> QED
    BY <2>2, <2>3
<1>4. /\ AgentUp.op = "iceEvent" /\ NewDtls.op = "newDtls" /\ NewSctp.op = "newSctp"
      /\ StartGathering.op = "gather" /\ GatheringDone.op = "gatheringDone"
      /\ CloseAll.op = "closeTransports"
  BY DEF AgentUp, NewDtls, NewSctp, StartGathering, GatheringDone, CloseAll, Item, ItemOf
<1>5. /\ ~In(h.net, AgentUp) /\ ~In(h.net, GatheringDone) /\ ~In(h.net, CloseAll)
      /\ ~In(h.net, StartGathering)
  BY <1>3, <1>4
<1>6. tr.ice = "none" => queue["net"] \o h.net # <<>> /\ Head(queue["net"] \o h.net) = NewIce
  BY <1>2, AskedFirst, FrontStays
<1>7. h.ends \in Outcomes \cup {"invoke"} /\ h.ends # "invoke"
  BY DEF Outcomes
<1> HIDE DEF Finish, Taken
<1> QED
  BY <1>2, <1>3, <1>5, <1>6, <1>7, SigOrdered

\* The constructor's closure.
LEMMA InitIceSound ==
  ASSUME TypeInv, failed = "no", Ordered(queue["sig"], queue["net"]), SdpStep(pc, pc'),
         queue["sig"] # <<>>, InitIceTransport
  PROVE Sound'
<1> DEFINE net == queue["net"]
           h == IF tr.ice # "none" THEN Begin ELSE PostNet(Begin, Item("newIce"))
<1>1. Finish(h, Idle, "", Taken("sig"))
  BY DEF InitIceTransport, Simple
<1>2. h.ends = "return" /\ h.net = IF tr.ice # "none" THEN <<>> ELSE <<NewIce>>
  BY DEF Begin, PostNet, NewIce
<1> HIDE DEF h
<1>3. h.net \in Seq(NetItems) /\ net \in Seq(NetItems) /\ NewIce \in NetItems
  <2>1. NewIce \in NetItems
    BY DEF NewIce, Item, NetItems
  <2>2. \A e \in NetItems : <<e>> \in Seq(NetItems)
    BY OneIn
  <2> QED
    BY <1>2, <2>1, <2>2, EmptySeq DEF TypeInv
<1>4. \A x : In(h.net, x) => x = NewIce
  BY <1>2, OneIn
<1>5. /\ AgentUp.op = "iceEvent" /\ NewDtls.op = "newDtls" /\ NewSctp.op = "newSctp"
      /\ StartGathering.op = "gather" /\ GatheringDone.op = "gatheringDone"
      /\ CloseAll.op = "closeTransports" /\ NewIce.op = "newIce"
  BY DEF AgentUp, NewDtls, NewSctp, StartGathering, GatheringDone, CloseAll, NewIce, Item, ItemOf
<1>6. /\ ~In(h.net, AgentUp) /\ ~In(h.net, GatheringDone) /\ ~In(h.net, CloseAll)
      /\ ~In(h.net, StartGathering) /\ ~In(h.net, NewDtls) /\ ~In(h.net, NewSctp)
  BY <1>4, <1>5
<1>7. ASSUME tr.ice = "none"
      PROVE net \o h.net # <<>> /\ Head(net \o h.net) = NewIce
  BY <1>2, <1>3, <1>7, ConcatEmptySeq, AskedFirst, FrontStays
<1>8. h.ends \in Outcomes \cup {"invoke"} /\ h.ends # "invoke"
  BY <1>2 DEF Outcomes
<1> HIDE DEF Finish, Taken
<1> QED
  BY <1>1, <1>3, <1>6, <1>7, <1>8, SigOrdered

\* The reports of the transports find what they assert.
LEMMA ReportsSound ==
  ASSUME TypeInv, failed = "no", Ordered(queue["sig"], queue["net"]), SdpStep(pc, pc'),
         queue["sig"] # <<>>,
         \/ OnIceTransportStateChanged \/ OnDtlsTransportStateChanged
         \/ OnSctpTransportStateChanged
  PROVE Sound'
<1> DEFINE state == First("sig").arg
<1>1. First("sig") \in SigItems /\ First("sig").op \in {"iceState", "dtlsState", "sctpState"}
  BY FirstType DEF OnIceTransportStateChanged, OnDtlsTransportStateChanged,
                   OnSctpTransportStateChanged
<1>2. queue["sig"] \in Seq(SigItems) /\ First("sig").op # "initIce"
  BY <1>1 DEF TypeInv
<1>3. \A x : First("sig") = x => In(queue["sig"], x)
  BY <1>2, TailIn DEF First
<1>4. CASE OnIceTransportStateChanged
  <2> DEFINE h == IF state = "CONNECTED" THEN InitDtlsTransport(Begin)
                  ELSE UpdateConnectionState(Begin, state)
  <2>1. Finish(h, Idle, "", Taken("sig")) /\ First("sig").op = "iceState"
    BY <1>4 DEF OnIceTransportStateChanged, Simple
  <2>2. state = "CONNECTED" => First("sig") = IceUp
    BY <1>1, <2>1 DEF SigItems, IceUp, ItemOf
  <2>3. state = "CONNECTED" => /\ Reaching(queue["sig"], queue["net"])
                               /\ tr.ice # "none" /\ pc.local_sdp # None
    BY <1>3, <2>2 DEF Reaching, Ordered, Described, None
  <2>4. CASE state = "CONNECTED"
    <3>1. h \in {Begin, PostNet(Begin, NewDtls)}
      BY <2>3, <2>4 DEF InitDtlsTransport, Begin, NewDtls
    <3>2. h.ends = "return" /\ h.net \in {<<>>, <<NewDtls>>}
      BY <3>1 DEF Begin, PostNet
    <3> HIDE DEF h, Taken
    <3> QED
      BY <1>2, <2>1, <2>3, <2>4, <3>2, AskingSound
  <2>5. CASE state # "CONNECTED"
    <3>1. h.ends = "return" /\ h.net = <<>>
      BY <2>5 DEF Begin, UpdateConnectionState
    <3> HIDE DEF h, Taken
    <3> QED
      BY <1>2, <2>1, <3>1, AskingSound
  <2> QED
    BY <2>4, <2>5
<1>5. CASE OnDtlsTransportStateChanged
  <2> DEFINE up == IF pc.remote_sdp # None /\ pc.remote_sdp.app THEN InitSctpTransport(Begin)
                   ELSE UpdateConnectionState(Begin, "CONNECTED")
             a == [up EXCEPT !.pc.opened = @ \cup pc.media_tracks]
             b == CloseMediaTracks(UpdateConnectionState(Begin, state))
  <2>1. /\ Finish(IF state = "CONNECTED" THEN a ELSE b, Idle, "", Taken("sig"))
        /\ First("sig").op = "dtlsState"
    BY <1>5 DEF OnDtlsTransportStateChanged, Simple
  <2>2. state = "CONNECTED" => First("sig") = DtlsUp
    BY <1>1, <2>1 DEF SigItems, DtlsUp, ItemOf
  <2>3. state = "CONNECTED" => Reaching(queue["sig"], queue["net"]) /\ tr.dtls # "none"
    BY <1>3, <2>2 DEF Reaching, Ordered
  <2>4. CASE state = "CONNECTED"
    <3>1. up \in {Begin, PostNet(Begin, NewSctp), UpdateConnectionState(Begin, "CONNECTED")}
      BY <2>3, <2>4 DEF InitSctpTransport, NewSctp
    <3>2. up.ends = "return" /\ up.net \in {<<>>, <<NewSctp>>} /\ up = [f \in HandlerFields |-> up[f]]
      BY <3>1 DEF Begin, PostNet, UpdateConnectionState, HandlerFields
    <3> HIDE DEF up
    <3>3. a.ends = "return" /\ a.net \in {<<>>, <<NewSctp>>}
      BY <3>2 DEF HandlerFields
    <3> HIDE DEF a, Taken
    <3> QED
      BY <1>2, <2>1, <2>3, <2>4, <3>3, AskingSound
  <2>5. CASE state # "CONNECTED"
    <3>1. b.ends = "return" /\ b.net = <<>>
      BY DEF Begin, UpdateConnectionState, CloseMediaTracks
    <3> HIDE DEF b, Taken
    <3> QED
      BY <1>2, <2>1, <2>5, <3>1, AskingSound
  <2> QED
    BY <2>4, <2>5
<1>6. CASE OnSctpTransportStateChanged
  <2> DEFINE g == UpdateConnectionState(Begin, state)
             h == IF state = "CONNECTED" THEN g ELSE CloseDataChannels(g)
  <2>1. Finish(h, Idle, "", Taken("sig"))
    BY <1>6 DEF OnSctpTransportStateChanged, Simple
  <2>2. g.ends = "return" /\ g.net = <<>> /\ g = [f \in HandlerFields |-> g[f]]
    BY DEF Begin, UpdateConnectionState, HandlerFields
  <2> HIDE DEF g
  <2>3. h.ends = "return" /\ h.net = <<>>
    BY <2>2 DEF CloseDataChannels, HandlerFields
  <2> HIDE DEF h, Taken
  <2> QED
    BY <1>2, <2>1, <2>3, AskingSound
<1> QED
  BY <1>4, <1>5, <1>6

\* Every closure of the signaling queue.
LEMMA SignalingSound ==
  ASSUME NegotiationInv, failed = "no", Ordered(queue["sig"], queue["net"]), SdpStep(pc, pc'),
         Signaling
  PROVE Sound'
<1>1. TypeInv
  BY DEF NegotiationInv
<1>2. Ready("sig") => queue["sig"] # <<>>
  BY DEF Ready
<1>3. CASE /\ Ready("sig")
           /\ \/ CreateOffer \/ CreateAnswer \/ SetRemote \/ AddRemoteCandidate
              \/ AddMediaTrack \/ AddDataChannel \/ ShiftDataChannels
              \/ OnGatheringStateChanged \/ OnDtlsVerify \/ CloseSignaling
  <2>1. First("sig").op # "initIce"
    BY <1>3 DEF CreateOffer, CreateAnswer, SetRemote, AddRemoteCandidate, AddMediaTrack,
                AddDataChannel, ShiftDataChannels, OnGatheringStateChanged, OnDtlsVerify,
                CloseSignaling
  <2>2. PlainStep
    BY <1>1, <1>2, <1>3, NegotiationPlain, OtherPlain
  <2> QED
    BY <1>1, <2>1, <2>2, PlainSound
<1>4. CASE ResumeLocalDescription \/ ResumeAddDataChannel \/ ResumeAddDataChannelOpen
  BY <1>1, <1>4, NegotiationPlain, OtherPlain, PlainSound
     DEF ResumeLocalDescription, ResumeAddDataChannel, ResumeAddDataChannelOpen
<1> QED
  BY <1>1, <1>2, <1>3, <1>4, InitIceSound, ReportsSound DEF Signaling

\* A closure of the network queue keeps the order when the state it leaves and what it
\* posts do.
LEMMA NetOrdered ==
  ASSUME TypeInv, failed = "no", Ordered(queue["sig"], queue["net"]), queue["net"] # <<>>,
         NEW t, NEW posts \in Seq(SigItems), NetDone(t, posts), failed' = failed, t.ice # "none",
         tr.role # "ACT_PASS" => t.role # "ACT_PASS", tr.dtls # "none" => t.dtls # "none",
         In(posts, IceUp) \/ t.dtls # "none" \/ t.sctp # "none" => Reaching(queue["sig"], queue["net"]),
         In(posts, DtlsUp) => tr.dtls # "none",
         t.gathering # "NEW" => Gathers(queue["net"]),
         t.role = "ACT_PASS" => t.trickle = FALSE
  PROVE Sound'
  BY NetTakes, OrderedKeeps DEF Reaching, Gathers, Ordered, Sound

\* The ICE transport exists when another closure than the one that makes it runs.
LEMMA IceMade ==
  ASSUME Ordered(queue["sig"], queue["net"]), queue["net"] # <<>>, First("net").op # "newIce"
  PROVE tr.ice # "none"
  BY AskedFirst DEF NewIce, Item, First

\* A report is a closure of its own kind.
LEMMA ReportIn ==
  ASSUME NEW old, NEW s, NEW op, NEW x
  PROVE /\ In(<<ItemOf(op, s)>>, x) => x.op = op
        /\ In(Reported(old, s, op), x) => x.op = op
<1> DEFINE e == ItemOf(op, s)
<1>1. e.op = op
  BY DEF ItemOf
<1>2. Reported(old, s, op) = IF old = s THEN <<>> ELSE <<e>>
  BY DEF Reported
<1> HIDE DEF e
<1>3. (In(<<e>>, x) <=> e = x) /\ ~In(<<>>, x)
  BY OneIn
<1> QED
  BY <1>1, <1>2, <1>3 DEF e

\* Closures of the network queue that make no transport and report none.
LEMMA QueriesSound ==
  ASSUME TypeInv, failed = "no", Ordered(queue["sig"], queue["net"]), queue["net"] # <<>>,
         Query \/ Gather \/ SetRemoteIce \/ AddIceCandidate \/ OnGatheringDone \/ OnSctpEvent
  PROVE Sound'
<1> DEFINE sig == queue["sig"]
           net == queue["net"]
<1>1. tr = [f \in TrFields |-> tr[f]] /\ First("net") \in NetItems /\ net \in Seq(NetItems)
  BY FirstType DEF TypeInv
<1>2. tr.ice # "none"
  BY IceMade DEF Query, Gather, SetRemoteIce, AddIceCandidate, OnGatheringDone, OnSctpEvent
<1>3. \A x : First("net") = x => In(net, x)
  BY <1>1, TailIn DEF First
<1>4. /\ tr.dtls # "none" \/ tr.sctp # "none" => Reaching(sig, net)
      /\ tr.gathering # "NEW" => Gathers(net)
      /\ tr.role = "ACT_PASS" => tr.trickle = FALSE
      /\ Reaching(sig, net) => tr.role # "ACT_PASS"
  BY DEF Reaching, Gathers, Ordered
<1>5. <<>> \in Seq(SigItems) /\ \A x : ~In(<<>>, x)
  BY PostsType, PostsTokens
<1>6. IceUp \in SigTokens /\ DtlsUp \in SigTokens
  BY DEF SigTokens
<1>7. ASSUME NetDone(tr, <<>>), failed' = failed
      PROVE Sound'
  BY <1>2, <1>4, <1>5, <1>7, NetOrdered
<1>8. CASE Query \/ AddIceCandidate
  BY <1>2, <1>7, <1>8 DEF Query, AddIceCandidate, WithIce
<1>9. CASE Gather
  <2> DEFINE t == [tr EXCEPT !.gathering = "GATHERING"]
             posts == IF tr.gathering = "GATHERING" THEN <<>> ELSE <<ItemOf("gathering", "GATHERING")>>
  <2>1. NetDone(t, posts) /\ failed' = failed /\ First("net").op = "gather"
    BY <1>2, <1>9 DEF Gather, WithIce
  <2>2. First("net") = StartGathering
    BY <1>1, <2>1 DEF NetItems, PlainNet, StartGathering, Item
  <2>3. posts \in Seq(SigItems) /\ \A x \in SigTokens : ~In(posts, x)
    BY PostsType, PostsTokens
  <2>4. /\ t.ice = tr.ice /\ t.dtls = tr.dtls /\ t.sctp = tr.sctp /\ t.role = tr.role
        /\ t.trickle = tr.trickle
    BY <1>1 DEF TrFields
  <2>5. Gathers(net)
    BY <1>3, <2>2 DEF Gathers
  <2> HIDE DEF t, posts
  <2> QED
    BY <1>2, <1>4, <1>6, <2>1, <2>3, <2>4, <2>5, NetOrdered
<1>10. CASE OnGatheringDone
  <2> DEFINE t == [tr EXCEPT !.gathering = "COMPLETED"]
             posts == Reported(tr.gathering, "COMPLETED", "gathering")
  <2>1. NetDone(t, posts) /\ failed' = failed /\ First("net").op = "gatheringDone"
    BY <1>2, <1>10 DEF OnGatheringDone, OfIce
  <2>2. First("net") = GatheringDone
    BY <1>1, <2>1 DEF NetItems, PlainNet, GatheringDone, Item
  <2>3. posts \in Seq(SigItems) /\ \A x \in SigTokens : ~In(posts, x)
    BY PostsType, PostsTokens
  <2>4. /\ t.ice = tr.ice /\ t.dtls = tr.dtls /\ t.sctp = tr.sctp /\ t.role = tr.role
        /\ t.trickle = tr.trickle
    BY <1>1 DEF TrFields
  <2>5. Gathers(net)
    BY <1>3, <2>2 DEF Gathers
  <2> HIDE DEF t, posts
  <2> QED
    BY <1>2, <1>4, <1>6, <2>1, <2>3, <2>4, <2>5, NetOrdered
<1>11. CASE SetRemoteIce
  <2> DEFINE theirs == First("net").arg
             changes == tr.role = "ACT_PASS"
             role == IF ~changes THEN tr.role
                     ELSE IF theirs = "ACTIVE" THEN "PASSIVE" ELSE "ACTIVE"
             trickle == tr.trickle \/ role # theirs
             t == [tr EXCEPT !.role = role, !.trickle = trickle]
             posts == IF changes THEN <<ItemOf("role", role)>> ELSE <<>>
  <2>1. ~(changes /\ tr.ice # "none" /\ tr.sctp # "none")
    BY <1>4
  <2>2. NetDone(t, posts) /\ failed' = failed
    BY <1>2, <1>11, <2>1 DEF SetRemoteIce, WithIce
  <2>3. posts \in Seq(SigItems) /\ \A x \in SigTokens : ~In(posts, x)
    BY PostsType, PostsTokens DEF Roles
  <2>4. role # "ACT_PASS"
    OBVIOUS
  <2> HIDE DEF role, trickle, posts
  <2>5. /\ t.ice = tr.ice /\ t.dtls = tr.dtls /\ t.sctp = tr.sctp /\ t.role = role
        /\ t.gathering = tr.gathering
    BY <1>1 DEF TrFields
  <2> HIDE DEF t
  <2> QED
    BY <1>2, <1>4, <1>6, <2>2, <2>3, <2>4, <2>5, NetOrdered
<1>12. CASE OnSctpEvent
  <2>1. CASE tr.sctp = "none"
    BY <1>7, <1>12, <2>1 DEF OnSctpEvent
  <2>2. CASE tr.sctp # "none"
    <3> DEFINE state == First("net").arg
               t == [tr EXCEPT !.sctp = state]
               posts == Reported(tr.sctp, state, "sctpState")
    <3>1. NetDone(t, posts) /\ failed' = failed /\ First("net").op = "sctpEvent"
      BY <1>12, <2>2 DEF OnSctpEvent
    <3>2. state \in States
      BY <1>1, <3>1 DEF NetItems, PlainNet, States
    <3> HIDE DEF state
    <3>3. posts \in Seq(SigItems)
      BY <3>2, PostsType
    <3>4. \A x : In(posts, x) => x.op = "sctpState"
      BY ReportIn
    <3>5. IceUp.op = "iceState" /\ DtlsUp.op = "dtlsState"
      BY DEF IceUp, DtlsUp, ItemOf
    <3>6. ~In(posts, IceUp) /\ ~In(posts, DtlsUp)
      BY <3>4, <3>5
    <3>7. /\ t.ice = tr.ice /\ t.dtls = tr.dtls /\ t.role = tr.role
          /\ t.trickle = tr.trickle /\ t.gathering = tr.gathering
      BY <1>1 DEF TrFields
    <3> HIDE DEF t, posts
    <3> QED
      BY <1>2, <1>4, <2>2, <3>1, <3>3, <3>6, <3>7, NetOrdered
  <2> QED
    BY <2>1, <2>2
<1> QED
  BY <1>8, <1>9, <1>10, <1>11, <1>12

\* Closures of the network queue that make a transport, or report the agent's state.
LEMMA MakersSound ==
  ASSUME TypeInv, failed = "no", Ordered(queue["sig"], queue["net"]), queue["net"] # <<>>,
         NewIceTransport \/ NewDtlsTransport \/ NewSctpTransport \/ OnIceEvent
  PROVE Sound'
<1> DEFINE sig == queue["sig"]
           net == queue["net"]
<1>1. tr = [f \in TrFields |-> tr[f]] /\ First("net") \in NetItems /\ net \in Seq(NetItems)
  BY FirstType DEF TypeInv
<1>2. First("net").op # "newIce" => tr.ice # "none"
  BY IceMade
<1>3. \A x : First("net") = x => In(net, x)
  BY <1>1, TailIn DEF First
<1>4. /\ tr.dtls # "none" \/ tr.sctp # "none" => Reaching(sig, net)
      /\ tr.gathering # "NEW" => Gathers(net)
      /\ tr.role = "ACT_PASS" => tr.trickle = FALSE
  BY DEF Reaching, Gathers, Ordered
<1>5. <<>> \in Seq(SigItems) /\ \A x : ~In(<<>>, x)
  BY PostsType, PostsTokens
<1>6. IceUp \in SigTokens /\ DtlsUp \in SigTokens
  BY DEF SigTokens
<1>7. CASE NewIceTransport
  <2> DEFINE t == [tr EXCEPT !.ice = "DISCONNECTED"]
  <2>1. NetDone(t, <<>>) /\ failed' = failed
    BY <1>7 DEF NewIceTransport
  <2>2. /\ t.ice # "none" /\ t.dtls = tr.dtls /\ t.sctp = tr.sctp /\ t.role = tr.role
        /\ t.trickle = tr.trickle /\ t.gathering = tr.gathering
    BY <1>1 DEF TrFields
  <2> HIDE DEF t
  <2> QED
    BY <1>4, <1>5, <2>1, <2>2, NetOrdered
<1>8. CASE NewDtlsTransport
  <2> DEFINE t == [tr EXCEPT !.dtls = "CONNECTING", !.dtls_made = @ + 1, !.verified = FALSE]
  <2>1. First("net").op = "newDtls"
    BY <1>8 DEF NewDtlsTransport
  <2>2. NetDone(t, <<>>) /\ failed' = failed
    BY <1>2, <1>8, <2>1 DEF NewDtlsTransport, WithIce
  <2>3. First("net") = NewDtls
    BY <1>1, <2>1 DEF NetItems, PlainNet, NewDtls, Item
  <2>4. Reaching(sig, net)
    BY <1>3, <2>3 DEF Reaching
  <2>5. /\ t.ice = tr.ice /\ t.dtls # "none" /\ t.sctp = tr.sctp /\ t.role = tr.role
        /\ t.trickle = tr.trickle /\ t.gathering = tr.gathering
    BY <1>1 DEF TrFields
  <2> HIDE DEF t
  <2> QED
    BY <1>2, <1>4, <1>5, <2>1, <2>2, <2>4, <2>5, NetOrdered
<1>9. CASE NewSctpTransport
  <2> DEFINE t == [tr EXCEPT !.sctp = "CONNECTING", !.sctp_made = @ + 1]
  <2>1. NetDone(t, <<>>) /\ failed' = failed /\ First("net").op = "newSctp"
    BY <1>9 DEF NewSctpTransport
  <2>3. First("net") = NewSctp
    BY <1>1, <2>1 DEF NetItems, PlainNet, NewSctp, Item
  <2>4. Reaching(sig, net)
    BY <1>3, <2>3 DEF Reaching
  <2>5. /\ t.ice = tr.ice /\ t.dtls = tr.dtls /\ t.role = tr.role
        /\ t.trickle = tr.trickle /\ t.gathering = tr.gathering
    BY <1>1 DEF TrFields
  <2> HIDE DEF t
  <2> QED
    BY <1>2, <1>4, <1>5, <2>1, <2>4, <2>5, NetOrdered
<1>10. CASE OnIceEvent
  <2> DEFINE state == First("net").arg
             timer == IF state \in {"CONNECTED", "timeout"} THEN "off" ELSE tr.timer
             to == IF state = "timeout" THEN "FAILED" ELSE state
             a == [tr EXCEPT !.timer = "armed"]
             b == [tr EXCEPT !.timer = timer, !.ice = to]
             posts == IF to = "COMPLETED" THEN <<>> ELSE Reported(tr.ice, to, "iceState")
  <2>1. First("net").op = "iceEvent"
    BY <1>10 DEF OnIceEvent
  <2>2. tr.ice # "none"
    BY <1>2, <2>1
  <2>3. (NetDone(a, <<>>) \/ NetDone(b, posts)) /\ failed' = failed
    BY <1>10, <2>2 DEF OnIceEvent, OfIce
  <2>4. state \in States \cup {"timeout"}
    BY <1>1, <2>1 DEF NetItems, PlainNet
  <2>5. to \in States /\ (to = "CONNECTED" => state = "CONNECTED") /\ to # "none"
    BY <2>4 DEF States
  <2>6. First("net") = AgentUp \/ state # "CONNECTED"
    BY <1>1, <2>1 DEF NetItems, PlainNet, AgentUp, ItemOf
  <2>7. state = "CONNECTED" => Reaching(sig, net)
    BY <1>3, <2>6 DEF Reaching
  <2> HIDE DEF timer, to, state
  <2>8. posts \in Seq(SigItems)
    BY <2>5, PostsType
  <2>9. to # "CONNECTED" => ~In(posts, IceUp)
    BY <1>6, <2>5, PostsTokens
  <2>10. ~In(posts, DtlsUp)
    <3>1. DtlsUp.op = "dtlsState"
      BY DEF ItemOf, DtlsUp
    <3>2. In(Reported(tr.ice, to, "iceState"), DtlsUp) => DtlsUp.op = "iceState"
      BY ReportIn
    <3> QED
      BY <1>5, <3>1, <3>2
  <2>11. /\ a.ice = tr.ice /\ a.dtls = tr.dtls /\ a.sctp = tr.sctp /\ a.role = tr.role
         /\ a.trickle = tr.trickle /\ a.gathering = tr.gathering
         /\ b.ice = to /\ b.dtls = tr.dtls /\ b.sctp = tr.sctp /\ b.role = tr.role
         /\ b.trickle = tr.trickle /\ b.gathering = tr.gathering
    BY <1>1 DEF TrFields
  <2> HIDE DEF a, b, posts
  <2>12. CASE NetDone(a, <<>>)
    BY <1>4, <1>5, <2>2, <2>3, <2>11, <2>12, NetOrdered
  <2>13. CASE NetDone(b, posts)
    BY <1>4, <2>3, <2>5, <2>7, <2>8, <2>9, <2>10, <2>11, <2>13, NetOrdered
  <2> QED
    BY <2>3, <2>12, <2>13
<1> QED
  BY <1>7, <1>8, <1>9, <1>10

\* The handshake: its packets find the ICE transport, and its end the DTLS transport.
LEMMA HandshakeSound ==
  ASSUME TypeInv, failed = "no", Ordered(queue["sig"], queue["net"]),
         (queue["net"] # <<>> /\ OnHandshakePacket) \/ ResumeHandshake
  PROVE Sound'
<1> DEFINE sig == queue["sig"]
           net == queue["net"]
<1>1. /\ tr = [f \in TrFields |-> tr[f]] /\ sig \in Seq(SigItems) /\ net \in Seq(NetItems)
      /\ queue = [q \in Queues |-> queue[q]] /\ blocked = [t \in Threads |-> blocked[t]]
  BY DEF TypeInv
<1>2. /\ tr.dtls # "none" \/ tr.sctp # "none" => Reaching(sig, net)
      /\ tr.gathering # "NEW" => Gathers(net)
      /\ tr.role = "ACT_PASS" => tr.trickle = FALSE
      /\ Reaching(sig, net) => tr.ice # "none"
      /\ blocked["net"].op = "handshake" => tr.dtls # "none"
      /\ ~In(net, CloseAll)
  BY DEF Reaching, Gathers, Ordered
<1>3. IceUp.op = "iceState" /\ DtlsUp.op = "dtlsState" /\ DtlsUp \in SigItems
  BY DEF IceUp, DtlsUp, ItemOf, SigItems, States
<1>4. CASE queue["net"] # <<>> /\ OnHandshakePacket
  <2> DEFINE up == [tr EXCEPT !.dtls = "CONNECTED"]
             down == [tr EXCEPT !.dtls = "FAILED"]
             v == InvokeOf("verify", "net")
  <2>1. tr.ice # "none"
    BY <1>4, IceMade DEF OnHandshakePacket
  <2>2. \/ NetDone(tr, <<>>) /\ failed' = failed
        \/ /\ tr.dtls = "CONNECTING"
           /\ blocked' = [blocked EXCEPT !["net"] = Item("handshake")]
           /\ queue' = [Taken("net") EXCEPT !["sig"] = Append(@, v)]
           /\ UNCHANGED <<pc, tr, failed>>
        \/ tr.dtls = "CONNECTING" /\ NetDone(up, <<ItemOf("dtlsState", "CONNECTED")>>) /\ failed' = failed
        \/ tr.dtls = "CONNECTING" /\ NetDone(down, <<ItemOf("dtlsState", "FAILED")>>) /\ failed' = failed
    BY <1>4, <2>1 DEF OnHandshakePacket, OfIce
  <2>3. /\ <<>> \in Seq(SigItems) /\ \A x : ~In(<<>>, x)
        /\ <<ItemOf("dtlsState", "CONNECTED")>> \in Seq(SigItems)
        /\ <<ItemOf("dtlsState", "FAILED")>> \in Seq(SigItems)
    BY PostsType, PostsTokens DEF States
  <2>4. \A s : ~In(<<ItemOf("dtlsState", s)>>, IceUp)
    <3> SUFFICES ASSUME NEW s, In(<<ItemOf("dtlsState", s)>>, IceUp) PROVE FALSE
      OBVIOUS
    <3>1. IceUp.op = "dtlsState"
      BY ReportIn
    <3> QED
      BY <1>3, <3>1
  <2>5. /\ up.ice = tr.ice /\ up.dtls # "none" /\ up.sctp = tr.sctp /\ up.role = tr.role
        /\ up.trickle = tr.trickle /\ up.gathering = tr.gathering
        /\ down.ice = tr.ice /\ down.dtls # "none" /\ down.sctp = tr.sctp /\ down.role = tr.role
        /\ down.trickle = tr.trickle /\ down.gathering = tr.gathering
    BY <1>1 DEF TrFields
  <2> HIDE DEF up, down
  <2>6. CASE NetDone(tr, <<>>) /\ failed' = failed
    BY <1>2, <1>4, <2>1, <2>3, <2>6, NetOrdered
  <2>7. CASE tr.dtls = "CONNECTING" /\ NetDone(up, <<ItemOf("dtlsState", "CONNECTED")>>) /\ failed' = failed
    BY <1>2, <1>4, <2>1, <2>3, <2>4, <2>5, <2>7, NetOrdered
  <2>8. CASE tr.dtls = "CONNECTING" /\ NetDone(down, <<ItemOf("dtlsState", "FAILED")>>) /\ failed' = failed
    BY <1>2, <1>4, <2>1, <2>3, <2>4, <2>5, <2>8, NetOrdered
  <2>9. CASE /\ tr.dtls = "CONNECTING"
             /\ blocked' = [blocked EXCEPT !["net"] = Item("handshake")]
             /\ queue' = [Taken("net") EXCEPT !["sig"] = Append(@, v)]
             /\ UNCHANGED <<pc, tr, failed>>
    <3>1. v \in SigItems /\ v.op = "verify"
      BY DEF InvokeOf, SigItems
    <3> HIDE DEF v
    <3>2. queue'["sig"] = Append(sig, v) /\ queue'["net"] = Tail(net)
      <4> HIDE DEF Taken
      <4> QED
        BY <1>4, <2>9, FirstType DEF Queues
    <3>3. In(queue'["sig"], IceUp) => In(sig, IceUp)
      BY <1>1, <1>3, <3>1, <3>2, AppendIn
    <3>4. In(queue'["sig"], DtlsUp) => In(sig, DtlsUp)
      BY <1>1, <1>3, <3>1, <3>2, AppendIn
    <3>5. \A x : In(queue'["net"], x) => In(net, x)
      BY <1>1, <1>4, <3>2, TailIn
    <3>6. Reaching(queue["sig"], queue["net"])' => Reaching(sig, net)
      BY <2>9, <3>3, <3>4, <3>5 DEF Reaching
    <3>7. Gathers(queue["net"])' => Gathers(net)
      BY <2>9, <3>5 DEF Gathers
    <3>8. Ordered(queue["sig"], queue["net"])'
      BY <1>2, <2>1, <2>9, <3>5, <3>6, <3>7, OrderedKeeps
    <3> QED
      BY <2>9, <3>8 DEF Sound
  <2> QED
    BY <2>2, <2>6, <2>7, <2>8, <2>9
<1>5. CASE ResumeHandshake
  <2> DEFINE a == [tr EXCEPT !.verified = reply["net"] = "yes"]
             b == [tr EXCEPT !.verified = TRUE, !.dtls = "CONNECTED"]
  <2>1. /\ \/ tr' = a /\ queue' = queue
           \/ tr' = b /\ queue' = [queue EXCEPT !["sig"] = Append(@, DtlsUp)]
        /\ blocked' = [blocked EXCEPT !["net"] = Idle] /\ pc' = pc /\ failed' = failed
        /\ blocked["net"].op = "handshake"
    BY <1>5 DEF ResumeHandshake, DtlsUp
  <2>2. blocked'["net"].op # "handshake"
    BY <1>1, <2>1 DEF Threads, Queues, Idle
  <2>3. tr.dtls # "none" /\ Reaching(sig, net) /\ tr.ice # "none"
    BY <1>2, <2>1
  <2>4. /\ a.ice = tr.ice /\ a.dtls = tr.dtls /\ a.sctp = tr.sctp /\ a.role = tr.role
        /\ a.trickle = tr.trickle /\ a.gathering = tr.gathering
        /\ b.ice = tr.ice /\ b.dtls # "none" /\ b.sctp = tr.sctp /\ b.role = tr.role
        /\ b.trickle = tr.trickle /\ b.gathering = tr.gathering
    BY <1>1 DEF TrFields
  <2> HIDE DEF a, b
  <2>5. /\ tr'.ice # "none" /\ tr'.dtls # "none" /\ tr'.role = tr.role
        /\ tr'.trickle = tr.trickle /\ tr'.gathering = tr.gathering
    BY <2>1, <2>3, <2>4
  <2>6. queue'["net"] = net
    BY <1>1, <2>1 DEF Queues
  <2>7. Gathers(queue["net"])' => Gathers(net)
    BY <2>5, <2>6 DEF Gathers
  <2>8. Ordered(queue["sig"], queue["net"])'
    BY <1>2, <2>1, <2>3, <2>5, <2>6, <2>7, OrderedKeeps
  <2> QED
    BY <2>1, <2>8 DEF Sound
<1> QED
  BY <1>4, <1>5

\* Every closure of the network queue.
LEMMA NetworkSound ==
  ASSUME TypeInv, failed = "no", Ordered(queue["sig"], queue["net"]), Network
  PROVE Sound'
<1>1. Ready("net") => queue["net"] # <<>>
  BY DEF Ready
<1>2. ~(queue["net"] # <<>> /\ CloseTransports)
  <2> SUFFICES ASSUME queue["net"] # <<>>, CloseTransports PROVE FALSE
    OBVIOUS
  <2>1. First("net") \in NetItems /\ First("net").op = "closeTransports" /\ queue["net"] \in Seq(NetItems)
    BY FirstType DEF CloseTransports, TypeInv
  <2>2. First("net") = CloseAll
    BY <2>1 DEF NetItems, PlainNet, CloseAll, Item
  <2>3. In(queue["net"], CloseAll)
    BY <2>1, <2>2, TailIn DEF First
  <2> QED
    BY <2>3 DEF Ordered
<1> QED
  BY <1>1, <1>2, QueriesSound, MakersSound, HandshakeSound DEF Network

\* Posting from another thread.
LEMMA PostSound ==
  ASSUME TypeInv, failed = "no", Ordered(queue["sig"], queue["net"]),
         NEW q \in Queues, NEW item, queue' = [queue EXCEPT ![q] = Append(@, item)],
         q = "sig" => item \in SigItems \ SigTokens,
         q = "net" => /\ item \in NetItems /\ tr.ice # "none"
                      /\ item = AgentUp => Described(pc) /\ tr.role # "ACT_PASS"
                      /\ item = GatheringDone => Gathers(queue["net"])
                      /\ item \notin {NewDtls, NewSctp, StartGathering, CloseAll},
         tr'.ice = tr.ice, tr'.dtls = tr.dtls, tr'.sctp = tr.sctp, tr'.role = tr.role,
         tr'.trickle = tr.trickle, tr'.gathering = tr.gathering,
         pc' = pc, blocked'["sig"] = blocked["sig"], blocked'["net"] = blocked["net"], failed' = failed
  PROVE Sound'
<1> DEFINE sig == queue["sig"]
           net == queue["net"]
<1>1. /\ sig \in Seq(SigItems) /\ net \in Seq(NetItems)
      /\ queue'[q] = Append(queue[q], item) /\ \A p \in Queues : p # q => queue'[p] = queue[p]
      /\ "sig" \in Queues /\ "net" \in Queues
  BY DEF TypeInv, Queues
<1>2. \A x \in SigTokens : In(queue'["sig"], x) => In(sig, x)
  BY <1>1, AppendIn
<1>3. \A x : In(queue'["net"], x) => In(net, x) \/ (q = "net" /\ item = x)
  BY <1>1, AppendIn
<1>4. IceUp \in SigTokens /\ DtlsUp \in SigTokens
  BY DEF SigTokens
<1>5. Reaching(queue["sig"], queue["net"])' =>
        Reaching(sig, net) \/ (Described(pc) /\ tr.role # "ACT_PASS" /\ tr.ice # "none")
  BY <1>2, <1>3, <1>4 DEF Reaching
<1>6. Gathers(queue["net"])' => Gathers(net)
  BY <1>3 DEF Gathers
<1>7. ~In(queue'["net"], CloseAll)
  BY <1>3 DEF Ordered
<1>8. tr.ice = "none" => Opening(queue["sig"], queue["net"])'
  <2> SUFFICES ASSUME tr.ice = "none" PROVE Opening(queue["sig"], queue["net"])'
    OBVIOUS
  <2>1. q # "net" /\ queue'["net"] = net /\ Opening(sig, net)
    BY <1>1 DEF Ordered
  <2>2. sig # <<>> => queue'["sig"] # <<>> /\ Head(queue'["sig"]) = Head(sig)
    <3>1. CASE q = "sig"
      <4> DEFINE t == <<item>>
      <4>1. item \in SigItems
        BY <3>1
      <4>2. t \in Seq(SigItems)
        BY <4>1
      <4>3. Append(sig, item) = sig \o t
        BY <1>1, <4>1, AppendIsConcat
      <4> HIDE DEF t
      <4>4. queue'["sig"] = sig \o t
        BY <1>1, <3>1, <4>3
      <4> HIDE DEF sig
      <4> QED
        BY <1>1, <4>2, <4>4, FrontStays
    <3>2. CASE q # "sig"
      BY <1>1, <3>2
    <3> QED
      BY <3>1, <3>2
  <2> QED
    BY <2>1, <2>2 DEF Opening
<1>9. tr.role = "ACT_PASS" => tr.trickle = FALSE
  BY DEF Ordered
<1>10. Ordered(queue["sig"], queue["net"])'
  BY <1>2, <1>4, <1>5, <1>6, <1>7, <1>8, <1>9, OrderedKeeps
<1> QED
  BY <1>10 DEF Sound

\* The worker queue, the application and the outside world.
LEMMA ElsewhereSound ==
  ASSUME TypeInv, failed = "no", Ordered(queue["sig"], queue["net"]),
         Worker \/ Application \/ Returns \/ World
  PROVE AssertInv'
<1>1. /\ blocked = [t \in Threads |-> blocked[t]] /\ queue = [q \in Queues |-> queue[q]]
      /\ tr = [f \in TrFields |-> tr[f]]
      /\ "net" \in Queues /\ "sig" \in Queues /\ "wrk" \in Queues
      /\ "net" \in Threads /\ "sig" \in Threads /\ "app" \in Threads
  BY DEF TypeInv, Queues, Threads
<1>2. \A w : blocked' = [blocked EXCEPT !["app"] = w] =>
        blocked'["net"] = blocked["net"] /\ blocked'["sig"] = blocked["sig"] /\ blocked'["app"] = w
  BY <1>1
<1>3. ASSUME queue'["sig"] = queue["sig"], queue'["net"] = queue["net"], pc' = pc, tr' = tr,
             blocked'["sig"] = blocked["sig"], blocked'["net"] = blocked["net"]
      PROVE Ordered(queue["sig"], queue["net"])'
  BY <1>3 DEF Ordered, Opening, Reaching, Gathers
<1>4. CASE Worker
  BY <1>1, <1>3, <1>4 DEF Worker, Taken, OnNegotiated, ClearCall, TrackDefects, Sound, AssertInv
<1>5. ASSUME NEW q \in Queues, NEW item, NEW wait, Call(q, item, wait),
             q = "sig" => item \in SigItems \ SigTokens, q # "net"
      PROVE Sound'
  BY <1>1, <1>2, <1>5, PostSound DEF Call
<1>6. CASE Application
  BY <1>1, <1>5, <1>6 DEF SigTokens, InitIce, IceUp, DtlsUp, SctpUp, Item, ItemOf, SigItems, Application, AssertInv
<1>7. CASE Returns
  <2>1. CASE blocked["app"].op = "call" /\ blocked' = [blocked EXCEPT !["app"] = Idle] /\ queue' = queue
    BY <1>2, <1>3, <1>7, <2>1 DEF Returns, Sound, AssertInv
  <2>2. CASE \E op \in {"close2", "close3", "closed"} : blocked' = [blocked EXCEPT !["app"] = Item(op)]
    <3>1. PICK op \in {"close2", "close3", "closed"} : blocked'["app"] = Item(op)
      BY <1>2, <2>2
    <3>2. Item(op).op = op
      BY DEF Item
    <3> QED
      BY <3>1, <3>2 DEF AssertInv, Closing
  <2>3. \/ blocked["app"].op = "call" /\ blocked' = [blocked EXCEPT !["app"] = Idle] /\ queue' = queue
        \/ \E op \in {"close2", "close3", "closed"} : blocked' = [blocked EXCEPT !["app"] = Item(op)]
    BY <1>7 DEF Returns
  <2> QED
    BY <2>1, <2>2, <2>3
<1>8. CASE World
  <2> SUFFICES Sound'
    BY DEF AssertInv
  <2>1. /\ AgentUp.op = "iceEvent" /\ AgentUp.arg = "CONNECTED" /\ NewDtls.op = "newDtls"
        /\ NewSctp.op = "newSctp" /\ StartGathering.op = "gather"
        /\ GatheringDone.op = "gatheringDone" /\ CloseAll.op = "closeTransports"
    BY DEF AgentUp, NewDtls, NewSctp, StartGathering, GatheringDone, CloseAll, Item, ItemOf
  <2>2. \A item : Event(item) => /\ queue' = [queue EXCEPT !["net"] = Append(@, item)]
                                 /\ blocked' = blocked /\ pc' = pc /\ failed' = failed
                                 /\ tr.ice # "none"
    BY DEF Event
  <2>3. tr' = tr \/ tr' = [tr EXCEPT !.timer = "fired"]
    BY <1>8 DEF World
  <2>4. /\ tr'.ice = tr.ice /\ tr'.dtls = tr.dtls /\ tr'.sctp = tr.sctp /\ tr'.role = tr.role
        /\ tr'.trickle = tr.trickle /\ tr'.gathering = tr.gathering
    BY <1>1, <2>3 DEF TrFields
  <2>5. ASSUME NEW item \in NetItems, Event(item),
               item.op \in {"iceEvent", "gatheringDone", "packet", "sctpEvent"},
               item = AgentUp => Described(pc) /\ tr.role # "ACT_PASS",
               item = GatheringDone => Gathers(queue["net"])
        PROVE Sound'
    BY <1>1, <2>1, <2>2, <2>4, <2>5, PostSound
  <2>6. CASE \E s \in AgentSteps : /\ tr.gathering # "NEW" /\ tr.trickle
                                   /\ Event(ItemOf("iceEvent", s[2]))
    <3>1. PICK s \in AgentSteps : Event(ItemOf("iceEvent", s[2]))
      BY <2>6
    <3>2. Described(pc) /\ tr.role # "ACT_PASS"
      BY <2>6 DEF Ordered, Gathers
    <3> DEFINE item == ItemOf("iceEvent", s[2])
    <3>3. item \in NetItems /\ item.op = "iceEvent"
      BY DEF AgentSteps, ItemOf, NetItems, States
    <3> HIDE DEF item
    <3>4. Event(item)
      BY <3>1 DEF item
    <3> QED
      BY <2>1, <2>5, <3>2, <3>3, <3>4
  <2>7. CASE Event(ItemOf("iceEvent", "timeout"))
    <3> DEFINE item == ItemOf("iceEvent", "timeout")
    <3>1. item \in NetItems /\ item.op = "iceEvent" /\ item.arg = "timeout"
      BY DEF ItemOf, NetItems
    <3> HIDE DEF item
    <3>2. Event(item)
      BY <2>7 DEF item
    <3> QED
      BY <2>1, <2>5, <3>1, <3>2
  <2>8. CASE tr.gathering = "GATHERING" /\ Event(Item("gatheringDone"))
    BY <2>1, <2>5, <2>8 DEF GatheringDone, Item, NetItems, Gathers
  <2>9. ASSUME NEW item \in {Item("packet"), ItemOf("sctpEvent", "CONNECTED"),
                             ItemOf("sctpEvent", "DISCONNECTED")}, Event(item)
        PROVE Sound'
    BY <2>1, <2>5, <2>9 DEF Item, ItemOf, NetItems
  <2> QED
    BY <1>8, <2>6, <2>7, <2>8, <2>9 DEF World
<1> QED
  BY <1>4, <1>6, <1>7, <1>8

\* Nothing but its own calls moves the application's thread.
LEMMA FinishApp ==
  ASSUME TypeInv, NEW h, NEW rest, NEW op, NEW taken, Finish(h, rest, op, taken)
  PROVE blocked'["app"] = blocked["app"]
  BY DEF TypeInv, Threads, Finish

LEMMA SignalingApp ==
  ASSUME TypeInv, Signaling
  PROVE blocked'["app"] = blocked["app"]
<1>1. \E h, rest, op, taken : Finish(h, rest, op, taken)
  BY DEF Signaling, Simple, InitIceTransport, CreateOffer, CreateAnswer, SetRemote,
         AddRemoteCandidate, AddMediaTrack, AddDataChannel, ShiftDataChannels,
         OnIceTransportStateChanged, OnGatheringStateChanged, OnDtlsTransportStateChanged,
         OnSctpTransportStateChanged, OnDtlsVerify, CloseSignaling, ResumeLocalDescription,
         ResumeAddDataChannel, ResumeAddDataChannelOpen
<1> QED
  BY <1>1, FinishApp

LEMMA NetworkApp ==
  ASSUME TypeInv, Network
  PROVE blocked'["app"] = blocked["app"]
<1>1. blocked = [t \in Threads |-> blocked[t]] /\ "app" \in Threads /\ "app" # "net"
  BY DEF TypeInv, Threads
<1>2. \A t, posts : NetDone(t, posts) => blocked' = blocked
  BY DEF NetDone
<1>3. blocked' = blocked \/ \E w : blocked' = [blocked EXCEPT !["net"] = w]
  BY <1>2 DEF Network, NewIceTransport, Query, Gather, SetRemoteIce, AddIceCandidate, OnIceEvent,
              NewDtlsTransport, OnHandshakePacket, NewSctpTransport, OnSctpEvent, OnGatheringDone,
              CloseTransports, ResumeHandshake, WithIce, OfIce, NetFails
<1> QED
  BY <1>1, <1>3

\* Close does not go back.
LEMMA ClosingStays ==
  ASSUME TypeInv, Closing, [Next]_vars
  PROVE Closing'
<1>1. blocked = [t \in Threads |-> blocked[t]] /\ "app" \in Threads
  BY DEF TypeInv, Threads
<1>2. blocked'["app"] = blocked["app"] => Closing'
  BY DEF Closing
<1>3. CASE Signaling
  BY <1>2, <1>3, SignalingApp
<1>4. CASE Network
  BY <1>2, <1>4, NetworkApp
<1>5. CASE Worker \/ World \/ UNCHANGED vars
  BY <1>2, <1>5 DEF Worker, World, Event, vars
<1>6. CASE Application
  BY <1>6 DEF Application, Call, MayCall, Closing, Idle
<1>7. CASE Returns
  <2>1. \E op \in {"close2", "close3", "closed"} : blocked' = [blocked EXCEPT !["app"] = Item(op)]
    BY <1>7 DEF Returns, Closing
  <2>2. PICK op \in {"close2", "close3", "closed"} : blocked'["app"] = Item(op)
    BY <1>1, <2>1
  <2>3. Item(op).op = op
    BY DEF Item
  <2> QED
    BY <2>2, <2>3 DEF Closing
<1> QED
  BY <1>3, <1>4, <1>5, <1>6, <1>7 DEF Next

\* Every step keeps the order of the closures, and a process that died stays so.
LEMMA AssertStep ==
  ASSUME NegotiationInv, AssertInv, [Next]_vars
  PROVE AssertInv'
<1>1. TypeInv
  BY DEF NegotiationInv
<1>2. CASE Closing
  BY <1>1, <1>2, ClosingStays DEF AssertInv
<1>3. CASE UNCHANGED vars
  BY <1>3 DEF vars, AssertInv, Closing, Sound, Ordered, Opening, Reaching, Gathers
<1>4. CASE Next /\ Sound
  <2>1. failed = "no"
    BY <1>4 DEF Next, Signaling, Network, Worker, Application, Returns, World, Ready, Call, MayCall,
                Event, ResumeLocalDescription, ResumeAddDataChannel, ResumeAddDataChannelOpen,
                ResumeHandshake
  <2>2. Ordered(queue["sig"], queue["net"])
    BY <1>4, <2>1 DEF Sound
  <2>3. SdpStep(pc, pc')
    BY NegotiationStep
  <2> QED
    BY <1>1, <1>4, <2>1, <2>2, <2>3, SignalingSound, NetworkSound, ElsewhereSound DEF Next, AssertInv
<1> QED
  BY <1>2, <1>3, <1>4 DEF AssertInv

\* The constructor has posted the closure that makes the ICE transport.
LEMMA AssertInit == Init => AssertInv
<1> SUFFICES ASSUME Init PROVE AssertInv
  OBVIOUS
<1>1. queue["sig"] = <<InitIce>> /\ queue["net"] = <<>>
  BY DEF Init, Queues, InitIce
<1>2. \A x : (In(<<InitIce>>, x) <=> InitIce = x) /\ ~In(<<>>, x)
  BY OneIn
<1>3. /\ tr.ice = "none" /\ tr.dtls = "none" /\ tr.sctp = "none" /\ tr.role = "ACT_PASS"
      /\ tr.trickle = FALSE /\ tr.gathering = "NEW" /\ failed = "no"
  BY DEF Init
<1>4. blocked["net"] = Idle /\ blocked["sig"] = Idle /\ Idle.op = "idle"
  BY DEF Init, Threads, Queues, Idle
<1>5. Opening(queue["sig"], queue["net"])
  BY <1>1, <1>4 DEF Opening
<1>6. ~Reaching(queue["sig"], queue["net"]) /\ ~Gathers(queue["net"])
  BY <1>1, <1>2, <1>3, TokensDiffer DEF Reaching, Gathers
<1>7. ~In(queue["sig"], DtlsUp) /\ ~In(queue["net"], CloseAll)
  BY <1>1, <1>2, TokensDiffer
<1>8. Ordered(queue["sig"], queue["net"])
  BY <1>3, <1>4, <1>5, <1>6, <1>7 DEF Ordered
<1> QED
  BY <1>3, <1>8 DEF AssertInv, Sound

\* Apart from the two defects in the negotiation of tracks, no closure runs into one of its
\* assertions or uses a transport that is not there before the application closes the
\* connection: the calls, the agent, the peer and the queues may interleave in any way,
\* flaps of the agent included.
THEOREM AssertionsHold == Spec => []AssertsHold
<1>1. NegotiationInv /\ [Next]_vars => NegotiationInv'
  BY NegotiationStep
<1>2. NegotiationInv /\ AssertInv /\ [Next]_vars => AssertInv'
  BY AssertStep
<1>3. AssertInv => AssertsHold
  BY DEF AssertInv, Sound, AssertsHold
<1> QED
  BY <1>1, <1>2, <1>3, NegotiationInit, AssertInit, PTL DEF Spec

-----------------------------------------------------------------------------
(* The stream ids of data channels                                           *)

\* Some closure in s is one of O; at most one is; a report of the role tells r.
Waits(s, O) == \E i \in 1..Len(s) : s[i].op \in O
Sole(s, O) == \A i, j \in 1..Len(s) : s[i].op \in O /\ s[j].op \in O => i = j
Told(s, r) == \A i \in 1..Len(s) : s[i].op = "role" => s[i].arg = r

\* The channels that are not closed have ids, and different ones.
Numbered(p) ==
    /\ p.stream_id \in Seq(Nat) /\ Len(p.stream_id) <= MaxChannels
    /\ p.data_channels \subseteq DOMAIN p.stream_id
    /\ DOMAIN p.stream_id \subseteq p.data_channels \cup p.closed
    /\ \A c, d \in p.data_channels : p.stream_id[c] = p.stream_id[d] => c = d

\* The ids are even once the signaling queue knows that it is the DTLS client, and odd before.
Parity(p, r, sig) ==
    \A c \in p.data_channels :
        (p.stream_id[c] % 2 = 0) <=> (r = "ACTIVE" /\ ~Waits(sig, {"role"}))

\* The role is settled once, and the signaling queue told of it once.
RoleTold(r, sig) ==
    /\ r \in Roles /\ Sole(sig, {"role"}) /\ Told(sig, r)
    /\ Waits(sig, {"role"}) => r # "ACT_PASS"

\* The signaling queue, blocked in b, has asked the network queue one question or has one
\* answer y; AddDataChannel asks for the role first.
Asked(net, b, y, r) ==
    /\ Sole(net, Queries)
    /\ Waits(net, Queries) \/ y # NoReply => b # Idle
    /\ Waits(net, Queries) => y = NoReply
    /\ b.op = "addChannelRole" => /\ ~Waits(net, Queries \ {"role"})
                                  /\ y # NoReply => y = r

AddParts == {"addChannelRole", "addChannelOpen"}
Adding(sig, b) == Waits(sig, {"addChannel"}) \/ b.op \in AddParts

\* No role is settled while a channel is added, and there is room for it.
AddAlone(p, sig, net, b) ==
    /\ Adding(sig, b) => /\ ~Waits(sig, {"setRemoteDescription", "role"})
                         /\ ~Waits(net, {"setRemote"})
    /\ Waits(sig, {"addChannel"}) \/ b.op = "addChannelRole" => Len(p.stream_id) < MaxChannels

\* No closure of the worker queue clears the call.
NoClear(wrk) == \E S : wrk \in Seq(S) /\ \A e \in S : e.op # "clear"

\* The application waits for one closure at a time.
Adds == {"addTrack", "addChannel"}
CallAlone(sig, net, wrk, b, y, app) ==
    /\ NoClear(wrk) /\ ~Waits(net, {"closeTransports"}) /\ ~Waits(sig, {"close"})
    /\ Sole(sig, Adds)
    /\ Waits(sig, Adds) => b.op \notin AddParts /\ y = NoReply
    /\ b.op \in AddParts => y = NoReply
    /\ Waits(sig, Adds) \/ b.op \in AddParts \/ y # NoReply => app # Idle

OneCall(sig, net, wrk, b, y, app) ==
    IF Closing THEN ~Adding(sig, b) ELSE CallAlone(sig, net, wrk, b, y, app)

RemoteKnown(p) == p.remote_sdp = None \/ p.remote_sdp \in RemoteDescriptions

ChannelInv ==
    /\ Numbered(pc) /\ RemoteKnown(pc)
    /\ Parity(pc, tr.role, queue["sig"])
    /\ RoleTold(tr.role, queue["sig"])
    /\ Asked(queue["net"], blocked["sig"], reply["sig"], tr.role)
    /\ AddAlone(pc, queue["sig"], queue["net"], blocked["sig"])
    /\ OneCall(queue["sig"], queue["net"], queue["wrk"], blocked["sig"], reply["app"], blocked["app"])

\* Closures that wait in a concatenation.
LEMMA WaitsConcat ==
  ASSUME NEW S, NEW s \in Seq(S), NEW t \in Seq(S)
  PROVE /\ \A O : /\ Waits(s \o t, O) <=> Waits(s, O) \/ Waits(t, O)
                  /\ Sole(s, O) /\ ~Waits(t, O) => Sole(s \o t, O)
                  /\ ~Waits(s, O) /\ Sole(t, O) => Sole(s \o t, O)
        /\ \A r : Told(s, r) /\ Told(t, r) => Told(s \o t, r)
<1> DEFINE n == Len(s)
           st == s \o t
<1>1. /\ Len(st) = n + Len(t) /\ n \in Nat /\ Len(t) \in Nat
      /\ \A i \in 1..n : i \in 1..(n + Len(t)) /\ st[i] = s[i]
      /\ \A i \in 1..Len(t) : i + n \in 1..(n + Len(t)) /\ st[i + n] = t[i]
      /\ \A i \in 1..(n + Len(t)) : \/ i \in 1..n /\ st[i] = s[i]
                                    \/ i - n \in 1..Len(t) /\ st[i] = t[i - n]
  <2>1. /\ Len(st) = n + Len(t) /\ n \in Nat /\ Len(t) \in Nat
        /\ \A i \in 1..(n + Len(t)) : st[i] = IF i <= n THEN s[i] ELSE t[i - n]
    BY ConcatProperties, LenProperties
  <2> HIDE DEF st, n
  <2> QED
    BY <2>1
<1> HIDE DEF n, st
<1>2. \A O : Waits(st, O) => Waits(s, O) \/ Waits(t, O)
  BY <1>1 DEF Waits, n
<1>3. \A O : Waits(s, O) => Waits(st, O)
  BY <1>1 DEF Waits, n
<1>4. \A O : Waits(t, O) => Waits(st, O)
  <2> SUFFICES ASSUME NEW O, NEW i \in 1..Len(t), t[i].op \in O PROVE Waits(st, O)
    BY DEF Waits
  <2>1. i + n \in 1..Len(st) /\ st[i + n].op \in O
    BY <1>1
  <2> QED
    BY <2>1 DEF Waits
<1>5. ASSUME NEW O, Sole(s, O), ~Waits(t, O) PROVE Sole(st, O)
  BY <1>1, <1>5 DEF Waits, Sole, n
<1>6. ASSUME NEW O, ~Waits(s, O), Sole(t, O) PROVE Sole(st, O)
  <2>1. \A i \in 1..Len(st) : st[i].op \in O => i - n \in 1..Len(t) /\ t[i - n].op \in O
    BY <1>1, <1>6 DEF Waits, n
  <2> SUFFICES ASSUME NEW i \in 1..Len(st), NEW j \in 1..Len(st), st[i].op \in O, st[j].op \in O
               PROVE i = j
    BY DEF Sole
  <2>2. i - n = j - n
    BY <2>1, <1>6 DEF Sole
  <2> QED
    BY <1>1, <2>2
<1>7. ASSUME NEW r, Told(s, r), Told(t, r) PROVE Told(st, r)
  <2> SUFFICES ASSUME NEW i \in 1..Len(st), st[i].op = "role" PROVE st[i].arg = r
    BY DEF Told
  <2>1. CASE i \in 1..n /\ st[i] = s[i]
    BY <1>7, <2>1 DEF Told, n
  <2>2. CASE i - n \in 1..Len(t) /\ st[i] = t[i - n]
    BY <1>7, <2>2 DEF Told
  <2> QED
    BY <1>1, <2>1, <2>2
<1> QED
  BY <1>2, <1>3, <1>4, <1>5, <1>6, <1>7 DEF st

\* A queue of one closure, and the empty queue.
LEMMA WaitsOne ==
  /\ \A e, O : /\ Waits(<<e>>, O) <=> e.op \in O
               /\ Sole(<<e>>, O)
  /\ \A e, r : (e.op = "role" => e.arg = r) => Told(<<e>>, r)
  /\ \A O : ~Waits(<<>>, O) /\ Sole(<<>>, O)
  /\ \A r : Told(<<>>, r)
  BY DEF Waits, Sole, Told

\* Taking the first closure.
LEMMA WaitsTail ==
  ASSUME NEW S, NEW s \in Seq(S), s # <<>>
  PROVE /\ \A O : /\ Waits(Tail(s), O) => Waits(s, O)
                  /\ Head(s).op \notin O => (Waits(s, O) <=> Waits(Tail(s), O))
                  /\ Head(s).op \in O => Waits(s, O)
                  /\ Sole(s, O) => Sole(Tail(s), O)
                  /\ Sole(s, O) /\ Head(s).op \in O => ~Waits(Tail(s), O)
        /\ \A r : Told(s, r) => /\ Told(Tail(s), r)
                                /\ Head(s).op = "role" => Head(s).arg = r
<1> DEFINE t == Tail(s)
           h == Head(s)
<1>1. /\ Len(s) \in Nat /\ Len(s) > 0 /\ Len(t) = Len(s) - 1 /\ h = s[1]
      /\ \A i \in 1..Len(t) : i + 1 \in 1..Len(s) /\ t[i] = s[i + 1]
      /\ \A i \in 1..Len(s) : i = 1 \/ (i - 1 \in 1..Len(t) /\ s[i] = t[i - 1])
  <2>1. /\ Len(s) \in Nat /\ Len(s) > 0 /\ Len(t) = Len(s) - 1 /\ h = s[1]
        /\ \A i \in 1..Len(t) : i + 1 \in 1..Len(s) /\ t[i] = s[i + 1]
    BY HeadTailProperties, LenProperties, EmptySeq
  <2> HIDE DEF t, h
  <2>2. ASSUME NEW i \in 1..Len(s), i # 1 PROVE i - 1 \in 1..Len(t) /\ s[i] = t[i - 1]
    BY <2>1, <2>2
  <2> QED
    BY <2>1, <2>2
<1> HIDE DEF t, h
<1>2. \A O : Waits(t, O) => Waits(s, O)
  BY <1>1 DEF Waits
<1>3. \A O : h.op \notin O => (Waits(s, O) <=> Waits(t, O))
  <2> SUFFICES ASSUME NEW O, h.op \notin O, Waits(s, O) PROVE Waits(t, O)
    BY <1>2
  <2> QED
    BY <1>1 DEF Waits
<1>4. \A O : h.op \in O => Waits(s, O)
  BY <1>1 DEF Waits
<1>5. ASSUME NEW O, Sole(s, O) PROVE Sole(t, O) /\ (h.op \in O => ~Waits(t, O))
  <2>1. \A i \in 1..Len(t) : t[i].op \in O => i + 1 \in 1..Len(s) /\ s[i + 1].op \in O
    BY <1>1
  <2>2. Sole(t, O)
    <3> SUFFICES ASSUME NEW i \in 1..Len(t), NEW j \in 1..Len(t), t[i].op \in O, t[j].op \in O
                 PROVE i = j
      BY DEF Sole
    <3>1. i + 1 = j + 1
      BY <2>1, <1>5 DEF Sole
    <3> QED
      BY <1>1, <3>1
  <2>3. ASSUME h.op \in O, NEW i \in 1..Len(t), t[i].op \in O PROVE FALSE
    BY <1>1, <1>5, <2>1, <2>3 DEF Sole
  <2> QED
    BY <2>2, <2>3 DEF Waits
<1>6. ASSUME NEW r, Told(s, r) PROVE Told(t, r) /\ (h.op = "role" => h.arg = r)
  BY <1>1, <1>6 DEF Told
<1> QED
  BY <1>2, <1>3, <1>4, <1>5, <1>6 DEF t, h

\* A handler that has left the channels alone and posted no closure of O.
Tame(h, O) ==
    /\ h = [f \in HandlerFields |-> h[f]]
    /\ IsPc(h.pc) /\ RemoteKnown(h.pc)
    /\ h.pc.stream_id = pc.stream_id
    /\ h.pc.data_channels = pc.data_channels
    /\ h.pc.closed = pc.closed
    /\ h.net \in Seq(NetItems) /\ ~Waits(h.net, O)
    /\ NoClear(h.wrk)

OtherFields ==
    {"connection", "gathering", "signaling", "negotiation_needed", "data_channel_needed",
     "local_sdp", "media_tracks", "opened"}

\* Assigning a member that is not about channels.
LEMMA TameEdit ==
  ASSUME NEW h, NEW O, Tame(h, O), NEW v
  PROVE /\ \A f \in OtherFields : Tame([h EXCEPT !.pc[f] = v], O) /\ [h EXCEPT !.pc[f] = v].ends = h.ends
        /\ v \in RemoteDescriptions =>
             Tame([h EXCEPT !.pc.remote_sdp = v], O) /\ [h EXCEPT !.pc.remote_sdp = v].ends = h.ends
        /\ v \in Nat =>
             /\ Tame([h EXCEPT !.pc.remote_candidates = v], O)
             /\ [h EXCEPT !.pc.remote_candidates = v].ends = h.ends
<1>1. ASSUME NEW f \in OtherFields
      PROVE Tame([h EXCEPT !.pc[f] = v], O) /\ [h EXCEPT !.pc[f] = v].ends = h.ends
  <2> DEFINE g == [h EXCEPT !.pc[f] = v]
  <2>1. /\ g = [x \in HandlerFields |-> g[x]] /\ g.net = h.net /\ g.wrk = h.wrk /\ g.ends = h.ends
        /\ g.pc = [h.pc EXCEPT ![f] = v]
    BY DEF Tame, HandlerFields
  <2>2. h.pc = [x \in PcFields |-> h.pc[x]] /\ h.pc.remote_candidates \in Nat
    BY DEF Tame, IsPc
  <2>3. f \notin {"stream_id", "data_channels", "closed", "remote_sdp", "remote_candidates"}
    BY DEF OtherFields
  <2> HIDE DEF g
  <2>4. /\ IsPc(g.pc) /\ g.pc.stream_id = h.pc.stream_id /\ g.pc.data_channels = h.pc.data_channels
        /\ g.pc.closed = h.pc.closed /\ g.pc.remote_sdp = h.pc.remote_sdp
    BY <2>1, <2>2, <2>3 DEF IsPc, PcFields
  <2>5. Tame(g, O) /\ g.ends = h.ends
    BY <2>1, <2>4 DEF Tame, RemoteKnown
  <2> QED
    BY <2>5 DEF g
<1>2. ASSUME v \in RemoteDescriptions
      PROVE Tame([h EXCEPT !.pc.remote_sdp = v], O) /\ [h EXCEPT !.pc.remote_sdp = v].ends = h.ends
  BY <1>2 DEF Tame, HandlerFields, IsPc, PcFields, RemoteKnown
<1>3. ASSUME v \in Nat
      PROVE /\ Tame([h EXCEPT !.pc.remote_candidates = v], O)
            /\ [h EXCEPT !.pc.remote_candidates = v].ends = h.ends
  BY <1>3 DEF Tame, HandlerFields, IsPc, PcFields, RemoteKnown
<1> QED
  BY <1>1, <1>2, <1>3

\* The members one by one.
LEMMA TameFields ==
  ASSUME NEW O
  PROVE \A h : Tame(h, O) => \A v :
        /\ Tame([h EXCEPT !.pc.connection = v], O) /\ [h EXCEPT !.pc.connection = v].ends = h.ends
        /\ Tame([h EXCEPT !.pc.gathering = v], O) /\ [h EXCEPT !.pc.gathering = v].ends = h.ends
        /\ Tame([h EXCEPT !.pc.signaling = v], O) /\ [h EXCEPT !.pc.signaling = v].ends = h.ends
        /\ Tame([h EXCEPT !.pc.local_sdp = v], O) /\ [h EXCEPT !.pc.local_sdp = v].ends = h.ends
        /\ Tame([h EXCEPT !.pc.media_tracks = v], O) /\ [h EXCEPT !.pc.media_tracks = v].ends = h.ends
        /\ Tame([h EXCEPT !.pc.opened = v], O) /\ [h EXCEPT !.pc.opened = v].ends = h.ends
        /\ Tame([h EXCEPT !.pc.negotiation_needed = v], O)
        /\ [h EXCEPT !.pc.negotiation_needed = v].ends = h.ends
        /\ Tame([h EXCEPT !.pc.data_channel_needed = v], O)
        /\ [h EXCEPT !.pc.data_channel_needed = v].ends = h.ends
<1>1. {"connection", "gathering", "signaling", "negotiation_needed", "data_channel_needed",
       "local_sdp", "media_tracks", "opened"} \subseteq OtherFields
  BY DEF OtherFields
<1> SUFFICES ASSUME NEW h, Tame(h, O), NEW v
             PROVE \A f \in OtherFields :
                      Tame([h EXCEPT !.pc[f] = v], O) /\ [h EXCEPT !.pc[f] = v].ends = h.ends
  BY <1>1, ZenonT(40)
<1> QED
  BY TameEdit

\* No closure of the worker queue is posted to start with, and others follow.
LEMMA ClearConcat ==
  /\ NoClear(<<>>)
  /\ \A v, w : NoClear(v) /\ NoClear(w) => NoClear(v \o w)
  /\ \A w : NoClear(w) /\ w # <<>> => NoClear(Tail(w)) /\ Head(w).op # "clear"
<1>1. NoClear(<<>>)
  <2> DEFINE S == {Idle}
  <2>1. \A e \in S : e.op # "clear"
    BY DEF Idle
  <2> HIDE DEF S
  <2>2. <<>> \in Seq(S)
    BY EmptySeq
  <2> QED
    BY <2>1, <2>2 DEF NoClear
<1>2. ASSUME NEW v, NEW w, NoClear(v), NoClear(w) PROVE NoClear(v \o w)
  <2>1. PICK S : v \in Seq(S) /\ \A e \in S : e.op # "clear"
    BY <1>2 DEF NoClear
  <2>2. PICK T : w \in Seq(T) /\ \A e \in T : e.op # "clear"
    BY <1>2 DEF NoClear
  <2>3. v \in Seq(S \cup T) /\ w \in Seq(S \cup T)
    BY <2>1, <2>2, SeqMonotonic
  <2>4. v \o w \in Seq(S \cup T)
    BY <2>3, ConcatProperties
  <2> QED
    BY <2>1, <2>2, <2>4 DEF NoClear
<1>3. ASSUME NEW w, NoClear(w), w # <<>> PROVE NoClear(Tail(w)) /\ Head(w).op # "clear"
  <2>1. PICK S : w \in Seq(S) /\ \A e \in S : e.op # "clear"
    BY <1>3 DEF NoClear
  <2>2. Head(w) \in S /\ Tail(w) \in Seq(S)
    BY <1>3, <2>1, HeadTailProperties
  <2> QED
    BY <2>1, <2>2 DEF NoClear
<1> QED
  BY <1>1, <1>2, <1>3

\* A closure starts tame, and stays so when it ends or posts another closure than those of O.
LEMMA TameBegin ==
  ASSUME TypeInv, RemoteKnown(pc), NEW O
  PROVE Tame(Begin, O) /\ Begin.ends = "return"
<1>1. Handler(Begin) /\ Begin.pc = pc /\ Begin.ends = "return" /\ Begin.net = <<>> /\ Begin.wrk = <<>>
  BY BeginHandler
<1> HIDE DEF Begin
<1> QED
  BY <1>1, ClearConcat, WaitsOne, EmptySeq DEF Handler, Tame

\* The outcome of a closure is set.
LEMMA TameEnds ==
  ASSUME NEW h, NEW O, Tame(h, O), NEW how
  PROVE Tame(Ends(h, how), O) /\ Ends(h, how).ends = how
  BY DEF Ends, Tame, HandlerFields

\* A closure is posted to the network queue.
LEMMA TamePost ==
  ASSUME NEW h, NEW O, Tame(h, O), NEW i \in NetItems, i.op \notin O
  PROVE Tame(PostNet(h, i), O) /\ PostNet(h, i).ends = h.ends
<1> DEFINE n == Append(h.net, i)
           g == PostNet(h, i)
<1>1. n \in Seq(NetItems) /\ ~Waits(n, O)
  <2>1. h.net \in Seq(NetItems) /\ <<i>> \in Seq(NetItems) /\ n = h.net \o <<i>>
    BY AppendIsConcat DEF Tame
  <2>2. ~Waits(<<i>>, O) /\ ~Waits(h.net, O)
    BY WaitsOne DEF Tame
  <2> HIDE DEF n
  <2> QED
    BY <2>1, <2>2, WaitsConcat, ConcatProperties
<1> HIDE DEF n
<1>2. g = [h EXCEPT !.net = n]
  BY DEF PostNet, n
<1> HIDE DEF g
<1>3. Tame(g, O) /\ g.ends = h.ends
  BY <1>1, <1>2 DEF Tame, HandlerFields
<1> QED
  BY <1>3 DEF g

\* SetLocalDescription.
LEMMA TameSetLocal ==
  ASSUME NEW h, NEW O, Tame(h, O), h.ends = "return", NEW type
  PROVE Tame(SetLocalDescription(h, type), O)
<1> DEFINE reset == IF type = "OFFER" THEN [h EXCEPT !.pc.negotiation_needed = FALSE] ELSE h
<1>1. Tame(reset, O)
  BY TameFields
<1> HIDE DEF reset
<1>2. Tame(Throw(h), O) /\ Tame(Throw(reset), O) /\ Tame(Ends(reset, "invoke"), O)
  BY <1>1, TameEnds DEF Throw
<1>3. SetLocalDescription(h, type) \in {Throw(h), h, Throw(reset), reset, Ends(reset, "invoke")}
  BY DEF SetLocalDescription, reset
<1> QED
  BY <1>1, <1>2, <1>3

\* A set of natural numbers has a least one.
LEMMA LeastOf ==
  ASSUME NEW K \in SUBSET Nat, K # {}
  PROVE \E k \in K : \A j \in K : k <= j
<1>1. PICK k \in K : \A j \in K : ~(<<j, k>> \in OpToRel(<, Nat))
  BY WFMin, NatLessThanWellFounded
<1>2. ASSUME NEW j \in K PROVE k <= j
  <2>1. j \in Nat /\ k \in Nat
    OBVIOUS
  <2>2. ~(j < k)
    BY <1>1, <2>1 DEF OpToRel
  <2> QED
    BY <2>1, <2>2
<1> QED
  BY <1>2

\* OnNegotiatedMediaTrack for all m-lines.
LEMMA TameTracks ==
  ASSUME NEW h, NEW O, Tame(h, O), h.ends = "return", NEW mids, Len(mids) \in Nat
  PROVE LET r == OnNegotiatedMediaTracks(h, mids)
        IN  Tame(r, O) /\ r.ends \in Outcomes
<1> DEFINE bad == {i \in 1..Len(mids) : Problem(h.pc, mids[i]) # "return"}
           upto == IF bad = {} THEN Len(mids) ELSE (CHOOSE i \in bad : \A j \in bad : i <= j) - 1
           item(mid) == [op |-> "negotiated", arg |-> mid, described |-> mid \in h.pc.local_sdp.mids]
           w == [i \in 1..upto |-> item(mids[i])]
           posted == [h EXCEPT !.wrk = @ \o w]
           m == mids[upto + 1]
           added == [posted EXCEPT !.pc.media_tracks = @ \cup {m}]
<1>1. OnNegotiatedMediaTracks(h, mids) =
        IF bad = {} THEN posted ELSE Ends(added, Problem(h.pc, m))
  BY DEF OnNegotiatedMediaTracks
<1>2. upto \in Nat
  <2>1. CASE bad = {}
    BY <2>1
  <2>2. CASE bad # {}
    <3>1. \E i \in bad : \A j \in bad : i <= j
      <4>1. bad \in SUBSET Nat
        OBVIOUS
      <4> HIDE DEF bad
      <4> QED
        BY <2>2, <4>1, LeastOf
    <3> DEFINE least == CHOOSE i \in bad : \A j \in bad : i <= j
    <3>2. least \in bad
      BY <3>1
    <3>3. upto = least - 1 /\ bad \subseteq 1..Len(mids)
      BY <2>2
    <3> HIDE DEF least, bad, upto
    <3> QED
      BY <3>2, <3>3
  <2> QED
    BY <2>1, <2>2
<1> HIDE DEF upto, bad, m
<1>3. NoClear(w)
  <2> DEFINE S == {w[i] : i \in 1..upto}
  <2>1. \A e \in S : e.op # "clear"
    OBVIOUS
  <2>2. w \in [1..upto -> S]
    OBVIOUS
  <2>3. w \in Seq(S)
    <3> HIDE DEF w, S
    <3> QED
      BY <1>2, <2>2, SeqDef
  <2> HIDE DEF w, S
  <2> QED
    BY <2>1, <2>3 DEF NoClear
<1> HIDE DEF w
<1>4. Tame(posted, O) /\ posted.ends = "return"
  <2>1. NoClear(h.wrk \o w)
    BY <1>3, ClearConcat DEF Tame
  <2> DEFINE x == h.wrk \o w
  <2> HIDE DEF x
  <2>2. posted = [h EXCEPT !.wrk = x]
    BY DEF x
  <2>3. NoClear(x)
    BY <2>1 DEF x
  <2> HIDE DEF posted
  <2> QED
    BY <2>2, <2>3 DEF Tame, HandlerFields
<1> HIDE DEF posted
<1>5. Tame(added, O)
  BY <1>4, TameFields
<1> HIDE DEF added
<1>6. Tame(Ends(added, Problem(h.pc, m)), O) /\ Ends(added, Problem(h.pc, m)).ends = Problem(h.pc, m)
  BY <1>5, TameEnds
<1>7. Problem(h.pc, m) \in Outcomes /\ "return" \in Outcomes
  BY DEF Problem, Outcomes
<1> QED
  BY <1>1, <1>4, <1>6, <1>7

\* ProcessRemoteCandidates.
LEMMA TameCandidates ==
  ASSUME NEW h, NEW O, Tame(h, O), "addCandidate" \notin O
  PROVE Tame(ProcessRemoteCandidates(h), O) /\ ProcessRemoteCandidates(h).ends = h.ends
<1> DEFINE k == h.pc.remote_candidates
           t == [i \in 1..k |-> Item("addCandidate")]
           n == h.net \o t
           h1 == [h EXCEPT !.net = n]
           h2 == [h1 EXCEPT !.pc.remote_candidates = 0]
<1>1. k \in Nat
  BY DEF Tame, IsPc
<1>2. Item("addCandidate") \in NetItems /\ Item("addCandidate").op = "addCandidate"
  BY DEF Item, NetItems, PlainNet
<1>3. t \in Seq(NetItems) /\ ~Waits(t, O)
  <2>1. t \in Seq(NetItems)
    BY <1>1, <1>2, CopiesSeq
  <2>2. Len(t) = k /\ \A i \in 1..k : t[i] = Item("addCandidate")
    BY <1>1
  <2> HIDE DEF t
  <2> QED
    BY <1>2, <2>1, <2>2 DEF Waits
<1> HIDE DEF t
<1>4. n \in Seq(NetItems) /\ ~Waits(n, O)
  BY <1>3, WaitsConcat, ConcatProperties DEF Tame
<1>5. ProcessRemoteCandidates(h) = h2
  BY DEF ProcessRemoteCandidates, t
<1> HIDE DEF n
<1>6. Tame(h1, O) /\ h1.ends = h.ends
  BY <1>4 DEF Tame, HandlerFields
<1> HIDE DEF h1
<1>7. Tame(h2, O) /\ h2.ends = h.ends
  BY <1>6, TameEdit
<1> HIDE DEF h2
<1> QED
  BY <1>5, <1>7

\* FinishLocalDescription.
LEMMA TameFinishLocal ==
  ASSUME NEW h, NEW O, Tame(h, O), h.ends = "return", NEW type, "gather" \notin O
  PROVE LET r == FinishLocalDescription(h, type)
        IN  Tame(r, O) /\ r.ends \in Outcomes
<1> DEFINE remote == h.pc.remote_sdp
           n == IF remote = None THEN h ELSE OnNegotiatedMediaTracks(h, remote.media)
           s == n.pc
           app == \/ remote # None /\ remote.app
                  \/ type = "OFFER" /\ s.data_channel_needed
           mids == (IF remote = None THEN {} ELSE {remote.media[i] : i \in DOMAIN remote.media})
                   \cup (IF type = "OFFER" THEN s.media_tracks ELSE {})
           gather == IF s.gathering = "NEW" THEN PostNet(n, Item("gather")) ELSE n
           sdp == [type |-> type, app |-> app, mids |-> mids]
           f1 == [gather EXCEPT !.pc.local_sdp = sdp]
           to == IF gather.pc.signaling = "STABLE" THEN "HAVE_LOCAL_OFFER" ELSE "STABLE"
           f2 == [f1 EXCEPT !.pc.signaling = to]
<1>1. FinishLocalDescription(h, type) = IF n.ends # "return" THEN n ELSE f2
  BY DEF FinishLocalDescription
<1>2. Tame(n, O) /\ n.ends \in Outcomes
  <2>1. remote # None => Len(remote.media) \in Nat
    BY MediaAssumption DEF Tame, RemoteKnown
  <2>2. "return" \in Outcomes
    BY DEF Outcomes
  <2> QED
    BY <2>1, <2>2, TameTracks
<1>3. Item("gather") \in NetItems /\ Item("gather").op = "gather"
  BY DEF Item, NetItems, PlainNet
<1> HIDE DEF n, sdp
<1>4. Tame(gather, O) /\ gather.ends = n.ends
  BY <1>2, <1>3, TamePost
<1>f. \A g, v : Tame(g, O) =>
        /\ Tame([g EXCEPT !.pc.local_sdp = v], O) /\ [g EXCEPT !.pc.local_sdp = v].ends = g.ends
        /\ Tame([g EXCEPT !.pc.signaling = v], O) /\ [g EXCEPT !.pc.signaling = v].ends = g.ends
  BY TameFields, ZenonT(40)
<1> HIDE DEF gather, to
<1>5. Tame(f1, O) /\ f1.ends = n.ends
  BY <1>4, <1>f
<1> HIDE DEF f1
<1>6. Tame(f2, O) /\ f2.ends = n.ends
  BY <1>5, <1>f
<1> HIDE DEF f2
<1> QED
  BY <1>1, <1>2, <1>6

\* SetRemoteDescription.
LEMMA TameSetRemote ==
  ASSUME NEW h, NEW O, Tame(h, O), h.ends = "return", NEW d \in RemoteDescriptions,
         "addCandidate" \notin O, "setRemote" \notin O
  PROVE Tame(SetRemoteDescription(h, d), O)
<1> DEFINE p0 == PostNet(h, ItemOf("setRemote", d.role))
           posted == [p0 EXCEPT !.pc.remote_sdp = d]
           tracks == IF d.type = "ANSWER" THEN OnNegotiatedMediaTracks(posted, d.media) ELSE posted
           to == IF tracks.pc.signaling = "STABLE" THEN "HAVE_REMOTE_OFFER" ELSE "STABLE"
           done == [tracks EXCEPT !.pc.signaling = to]
           r == SetRemoteDescription(h, d)
<1>1. \/ r = Throw(h)
      \/ r = tracks
      \/ tracks.ends = "return" /\ r = SetLocalDescription(done, "ANSWER")
      \/ r = ProcessRemoteCandidates(done)
  BY DEF SetRemoteDescription
<1>2. ItemOf("setRemote", d.role) \in NetItems /\ ItemOf("setRemote", d.role).op = "setRemote"
  BY RolesAssumption DEF ItemOf, NetItems, PlainNet, Roles
<1>3. Tame(p0, O) /\ p0.ends = "return"
  BY <1>2, TamePost
<1> HIDE DEF p0
<1>4. Tame(posted, O) /\ posted.ends = "return"
  BY <1>3, TameEdit
<1> HIDE DEF posted
<1>5. Tame(tracks, O)
  BY <1>4, TameTracks, MediaAssumption
<1>f. \A g, v : Tame(g, O) =>
        /\ Tame([g EXCEPT !.pc.signaling = v], O) /\ [g EXCEPT !.pc.signaling = v].ends = g.ends
  BY TameFields, ZenonT(40)
<1> HIDE DEF tracks, to
<1>6. Tame(done, O) /\ done.ends = tracks.ends
  BY <1>5, <1>f
<1> HIDE DEF done
<1>7. Tame(Throw(h), O)
  BY TameEnds DEF Throw
<1>8. Tame(ProcessRemoteCandidates(done), O)
  BY <1>6, TameCandidates
<1>9. tracks.ends = "return" => Tame(SetLocalDescription(done, "ANSWER"), O)
  BY <1>6, TameSetLocal
<1> HIDE DEF r
<1>10. Tame(r, O)
  BY <1>1, <1>5, <1>7, <1>8, <1>9
<1> QED
  BY <1>10 DEF r

\* More closures asked for, more found.
LEMMA WaitsMonotonic ==
  ASSUME NEW s, NEW O, NEW P, O \subseteq P
  PROVE (Waits(s, O) => Waits(s, P)) /\ (Sole(s, P) => Sole(s, O))
  BY DEF Waits, Sole

\* What a closure of the signaling queue leaves in the queues.
LEMMA SigLeaves ==
  ASSUME TypeInv, NEW h, h.net \in Seq(NetItems), NEW rest, NEW op, h.ends = "invoke" => op \in Queries,
         NEW taken, taken = queue \/ (queue["sig"] # <<>> /\ taken = Taken("sig")),
         Finish(h, rest, op, taken)
  PROVE /\ queue'["sig"] = taken["sig"]
        /\ \A O : /\ Waits(queue'["net"], O) <=> \/ Waits(queue["net"], O) \/ Waits(h.net, O)
                                                 \/ h.ends = "invoke" /\ op \in O
                  /\ Sole(queue["net"], O) /\ ~Waits(h.net, O) /\ (h.ends = "invoke" => op \notin O)
                        => Sole(queue'["net"], O)
                  /\ ~Waits(queue["net"], O) /\ ~Waits(h.net, O) => Sole(queue'["net"], O)
        /\ NoClear(queue["wrk"]) /\ NoClear(h.wrk) => NoClear(queue'["wrk"])
        /\ blocked'["sig"] = IF h.ends = "invoke" THEN rest ELSE Idle
        /\ blocked'["app"] = blocked["app"]
        /\ pc' = IF Survives(h) THEN h.pc ELSE pc
        /\ tr' = tr
<1> DEFINE net == queue["net"]
           asked == IF h.ends = "invoke" THEN <<InvokeOf(op, "sig")>> ELSE <<>>
           n == (net \o h.net) \o asked
<1>1. /\ queue["sig"] \in Seq(SigItems) /\ net \in Seq(NetItems) /\ queue = [q \in Queues |-> queue[q]]
      /\ blocked = [t \in Threads |-> blocked[t]]
  BY DEF TypeInv
<1>2. /\ taken = [q \in Queues |-> taken[q]] /\ taken["net"] = net /\ taken["wrk"] = queue["wrk"]
  BY <1>1 DEF Taken, Queues
<1>3. /\ asked \in Seq(NetItems) /\ \A O : /\ Waits(asked, O) <=> h.ends = "invoke" /\ op \in O
                                           /\ Sole(asked, O)
  <2>1. h.ends = "invoke" => InvokeOf(op, "sig") \in NetItems
    BY DEF InvokeOf, NetItems, Queries
  <2>2. InvokeOf(op, "sig").op = op
    BY DEF InvokeOf
  <2>3. \A e \in NetItems : <<e>> \in Seq(NetItems)
    BY OneIn
  <2>4. asked \in Seq(NetItems)
    BY <2>1, <2>3, EmptySeq
  <2> QED
    BY <2>2, <2>4, WaitsOne
<1> HIDE DEF asked
<1>4. net \o h.net \in Seq(NetItems)
  BY <1>1, ConcatProperties
<1>5. \A O : /\ Waits(net \o h.net, O) <=> Waits(net, O) \/ Waits(h.net, O)
             /\ Sole(net, O) /\ ~Waits(h.net, O) => Sole(net \o h.net, O)
  BY <1>1, WaitsConcat
<1>6. \A O : /\ Waits(n, O) <=> Waits(net \o h.net, O) \/ Waits(asked, O)
             /\ Sole(net \o h.net, O) /\ ~Waits(asked, O) => Sole(n, O)
             /\ ~Waits(net \o h.net, O) /\ Sole(asked, O) => Sole(n, O)
  <2> DEFINE m == net \o h.net
  <2>1. m \in Seq(NetItems) /\ asked \in Seq(NetItems)
    BY <1>3, <1>4
  <2> HIDE DEF m
  <2>2. \A O : /\ Waits(m \o asked, O) <=> Waits(m, O) \/ Waits(asked, O)
               /\ Sole(m, O) /\ ~Waits(asked, O) => Sole(m \o asked, O)
               /\ ~Waits(m, O) /\ Sole(asked, O) => Sole(m \o asked, O)
    BY <2>1, WaitsConcat
  <2> QED
    BY <2>2 DEF m
<1>7. queue' = [taken EXCEPT !["net"] = n, !["wrk"] = @ \o h.wrk]
  BY <1>2 DEF Finish, asked
<1> HIDE DEF n
<1>8. queue'["sig"] = taken["sig"] /\ queue'["net"] = n /\ queue'["wrk"] = queue["wrk"] \o h.wrk
  BY <1>2, <1>7 DEF Queues
<1>9. /\ pc' = (IF Survives(h) THEN h.pc ELSE pc) /\ tr' = tr
      /\ blocked' = [blocked EXCEPT !["sig"] = IF h.ends = "invoke" THEN rest ELSE Idle]
  BY DEF Finish
<1>10. /\ blocked'["sig"] = (IF h.ends = "invoke" THEN rest ELSE Idle)
       /\ blocked'["app"] = blocked["app"]
  BY <1>1, <1>9 DEF Threads, Queues
<1>11. NoClear(queue["wrk"]) /\ NoClear(h.wrk) => NoClear(queue'["wrk"])
  BY <1>8, ClearConcat
<1> HIDE DEF net
<1>12. \A O : /\ Waits(queue'["net"], O) <=> \/ Waits(net, O) \/ Waits(h.net, O)
                                             \/ h.ends = "invoke" /\ op \in O
              /\ Sole(net, O) /\ ~Waits(h.net, O) /\ (h.ends = "invoke" => op \notin O)
                    => Sole(queue'["net"], O)
              /\ ~Waits(net, O) /\ ~Waits(h.net, O) => Sole(queue'["net"], O)
  <2> SUFFICES ASSUME NEW O
               PROVE /\ Waits(n, O) <=> \/ Waits(net, O) \/ Waits(h.net, O)
                                        \/ h.ends = "invoke" /\ op \in O
                     /\ Sole(net, O) /\ ~Waits(h.net, O) /\ (h.ends = "invoke" => op \notin O)
                           => Sole(n, O)
                     /\ ~Waits(net, O) /\ ~Waits(h.net, O) => Sole(n, O)
    BY <1>8
  <2>1. (Waits(asked, O) <=> h.ends = "invoke" /\ op \in O) /\ Sole(asked, O)
    BY <1>3
  <2>2. /\ Waits(net \o h.net, O) <=> Waits(net, O) \/ Waits(h.net, O)
        /\ Sole(net, O) /\ ~Waits(h.net, O) => Sole(net \o h.net, O)
    BY <1>5
  <2>3. /\ Waits(n, O) <=> Waits(net \o h.net, O) \/ Waits(asked, O)
        /\ Sole(net \o h.net, O) /\ ~Waits(asked, O) => Sole(n, O)
        /\ ~Waits(net \o h.net, O) /\ Sole(asked, O) => Sole(n, O)
    BY <1>6
  <2> QED
    BY <2>1, <2>2, <2>3
<1> QED
  BY <1>8, <1>9, <1>10, <1>11, <1>12 DEF net

\* The channels are left alone, or all closed.
Kept(p, q) ==
    /\ q.stream_id = p.stream_id
    /\ \/ q.data_channels = p.data_channels /\ q.closed = p.closed
       \/ q.data_channels = {} /\ q.closed = p.closed \cup p.data_channels

\* Then the ids stay as the invariant says.
LEMMA KeptNumbers ==
  ASSUME NEW p, NEW q, Kept(p, q), Numbered(p), NEW r, NEW s, NEW t, Parity(p, r, s),
         Waits(s, {"role"}) <=> Waits(t, {"role"})
  PROVE Numbered(q) /\ Parity(q, r, t)
  BY DEF Kept, Numbered, Parity

\* No question to the network queue, no end of the transports.
Asking == Queries \cup {"closeTransports"}

\* A closure that is not about channels and the role: the one the signaling queue takes, or
\* the one whose question is answered.
LEMMA SigQuiet ==
  ASSUME TypeInv, ChannelInv, NEW h, h.net \in Seq(NetItems), ~Waits(h.net, Asking), NoClear(h.wrk),
         Waits(h.net, {"setRemote"}) => ~Adding(queue["sig"], blocked["sig"]),
         Survives(h) => Kept(pc, h.pc) /\ RemoteKnown(h.pc),
         NEW rest, NEW op, h.ends = "invoke" => op \in Queries /\ rest # Idle /\ rest.op \notin AddParts,
         NEW taken, Finish(h, rest, op, taken),
         \/ /\ queue["sig"] # <<>> /\ blocked["sig"] = Idle /\ taken = Taken("sig")
            /\ First("sig").op \notin {"role", "addChannel"}
            /\ reply'["sig"] = reply["sig"]
            /\ reply'["app"] = reply["app"] \/ First("sig").op \in {"addTrack", "close"}
         \/ /\ taken = queue /\ reply["sig"] # NoReply /\ blocked["sig"].op \notin AddParts
            /\ reply'["sig"] = NoReply /\ reply'["app"] = reply["app"]
  PROVE ChannelInv'
<1> DEFINE sig == queue["sig"]
           net == queue["net"]
           b == blocked["sig"]
<1>1. /\ Numbered(pc) /\ RemoteKnown(pc) /\ Parity(pc, tr.role, sig) /\ RoleTold(tr.role, sig)
      /\ Asked(net, b, reply["sig"], tr.role) /\ AddAlone(pc, sig, net, b)
      /\ OneCall(sig, net, queue["wrk"], b, reply["app"], blocked["app"])
  BY DEF ChannelInv
<1>2. sig \in Seq(SigItems) /\ Idle.op = "idle"
  BY DEF TypeInv, Idle
<1>3. /\ queue'["sig"] = taken["sig"]
      /\ \A O : /\ Waits(queue'["net"], O) <=> \/ Waits(net, O) \/ Waits(h.net, O)
                                               \/ h.ends = "invoke" /\ op \in O
                /\ Sole(net, O) /\ ~Waits(h.net, O) /\ (h.ends = "invoke" => op \notin O)
                      => Sole(queue'["net"], O)
                /\ ~Waits(net, O) /\ ~Waits(h.net, O) => Sole(queue'["net"], O)
      /\ NoClear(queue["wrk"]) => NoClear(queue'["wrk"])
      /\ blocked'["sig"] = IF h.ends = "invoke" THEN rest ELSE Idle
      /\ blocked'["app"] = blocked["app"]
      /\ pc' = IF Survives(h) THEN h.pc ELSE pc
      /\ tr' = tr
  BY SigLeaves, ZenonT(40)
<1>4. blocked'["sig"].op \notin AddParts /\ b.op \notin AddParts
  BY <1>2, <1>3 DEF AddParts
<1>5. /\ \A O : /\ Waits(queue'["sig"], O) => Waits(sig, O)
                /\ Sole(sig, O) => Sole(queue'["sig"], O)
      /\ Waits(sig, {"role"}) <=> Waits(queue'["sig"], {"role"})
      /\ Told(sig, tr.role) => Told(queue'["sig"], tr.role)
      /\ reply'["app"] = reply["app"]
           \/ (Waits(sig, {"close"}))
           \/ (Waits(sig, Adds) /\ (Sole(sig, Adds) => ~Waits(queue'["sig"], Adds)))
  <2>1. CASE taken = queue /\ reply'["app"] = reply["app"]
    BY <1>3, <2>1
  <2>2. CASE /\ sig # <<>> /\ taken = Taken("sig") /\ First("sig").op \notin {"role", "addChannel"}
             /\ reply'["app"] = reply["app"] \/ First("sig").op \in {"addTrack", "close"}
    <3>1. queue'["sig"] = Tail(sig)
      BY <1>3, <2>2, FirstType
    <3>2. /\ \A O : /\ Waits(Tail(sig), O) => Waits(sig, O)
                    /\ Head(sig).op \notin O => (Waits(sig, O) <=> Waits(Tail(sig), O))
                    /\ Head(sig).op \in O => Waits(sig, O)
                    /\ Sole(sig, O) => Sole(Tail(sig), O)
                    /\ Sole(sig, O) /\ Head(sig).op \in O => ~Waits(Tail(sig), O)
          /\ Told(sig, tr.role) => Told(Tail(sig), tr.role)
      BY <1>2, <2>2, WaitsTail
    <3>3. Head(sig).op \notin {"role"} /\ First("sig") = Head(sig)
      BY <2>2 DEF First
    <3> HIDE DEF sig
    <3>4. First("sig").op = "addTrack" => First("sig").op \in Adds
      BY DEF Adds
    <3> QED
      BY <2>2, <3>1, <3>2, <3>3, <3>4
  <2> QED
    BY <2>1, <2>2
<1>6. ~Waits(h.net, Queries) /\ ~Waits(h.net, {"closeTransports"}) /\ "closeTransports" \notin Queries
      /\ "setRemote" \notin Queries
  BY WaitsMonotonic DEF Asking, Queries
<1>7. ~Waits(net, Queries) /\ reply'["sig"] = NoReply
  BY <1>1 DEF Asked
<1> HIDE DEF sig, net, b
<1>8. Numbered(pc') /\ Parity(pc', tr'.role, queue'["sig"]) /\ RemoteKnown(pc')
  <2>1. CASE Survives(h)
    BY <1>1, <1>3, <1>5, <2>1, KeptNumbers
  <2>2. CASE ~Survives(h)
    BY <1>1, <1>3, <1>5, <2>2, KeptNumbers DEF Kept
  <2> QED
    BY <2>1, <2>2
<1>9. RoleTold(tr'.role, queue'["sig"])
  BY <1>1, <1>3, <1>5 DEF RoleTold
<1>10. Asked(queue'["net"], blocked'["sig"], reply'["sig"], tr'.role)
  BY <1>3, <1>4, <1>6, <1>7 DEF Asked, AddParts
<1>11. pc'.stream_id = pc.stream_id
  BY <1>3 DEF Kept
<1>12. AddAlone(pc', queue'["sig"], queue'["net"], blocked'["sig"])
  BY <1>1, <1>3, <1>4, <1>5, <1>6, <1>11 DEF Adding, AddAlone, sig, b, AddParts
<1>13. OneCall(queue["sig"], queue["net"], queue["wrk"], blocked["sig"], reply["app"], blocked["app"])'
  BY <1>1, <1>3, <1>4, <1>5, <1>6 DEF Closing, OneCall, Adding, CallAlone
<1> QED
  BY <1>8, <1>9, <1>10, <1>12, <1>13 DEF ChannelInv

\* No description for the ICE transport either.
Posting == Asking \cup {"setRemote"}

\* What a tame handler means for the invariant.
LEMMA TameKeeps ==
  /\ \A h, O : Tame(h, O) => Kept(pc, h.pc) /\ RemoteKnown(h.pc) /\ h.net \in Seq(NetItems) /\ NoClear(h.wrk)
  /\ \A h : Tame(h, Posting) => ~Waits(h.net, Asking) /\ ~Waits(h.net, {"setRemote"})
  /\ \A h : Tame(h, Asking) => ~Waits(h.net, Asking)
  /\ {"addCandidate", "gather", "newIce", "newDtls", "newSctp"} \cap Posting = {}
  /\ {"addCandidate", "setRemote"} \cap Asking = {}
  BY WaitsMonotonic DEF Tame, Kept, Posting, Asking, Queries

\* The closures of the signaling queue that are not about channels, and those that close them.
LEMMA QuietClosures ==
  ASSUME TypeInv, ChannelInv,
         \/ /\ queue["sig"] # <<>> /\ blocked["sig"] = Idle
            /\ \/ InitIceTransport \/ CreateOffer \/ CreateAnswer \/ SetRemote \/ AddRemoteCandidate
               \/ AddMediaTrack \/ OnIceTransportStateChanged \/ OnGatheringStateChanged
               \/ OnDtlsTransportStateChanged \/ OnSctpTransportStateChanged
               \/ OnDtlsVerify \/ CloseSignaling
         \/ ResumeLocalDescription
  PROVE ChannelInv'
<1> DEFINE O == Posting
<1>1. /\ Tame(Begin, O) /\ Tame(Begin, Asking) /\ Begin.ends = "return"
  BY TameBegin DEF ChannelInv
<1>2. /\ reply = [t \in Threads |-> reply[t]] /\ "sig" \in Threads /\ "app" \in Threads /\ "net" \in Threads
      /\ Begin.pc = pc
  BY BeginHandler DEF TypeInv, Threads, Queues
<1> HIDE DEF Taken, Begin, O
<1>3. ASSUME NEW h, Kept(pc, h.pc) /\ RemoteKnown(h.pc) /\ h.net \in Seq(NetItems) /\ NoClear(h.wrk),
             ~Waits(h.net, Asking), ~Waits(h.net, {"setRemote"}),
             NEW rest, NEW op, h.ends = "invoke" => op \in Queries /\ rest # Idle /\ rest.op \notin AddParts,
             Finish(h, rest, op, Taken("sig")), queue["sig"] # <<>>, blocked["sig"] = Idle,
             First("sig").op \notin {"role", "addChannel"},
             \/ reply' = reply \/ \E y : reply' = [reply EXCEPT !["net"] = y]
             \/ reply' = [reply EXCEPT !["app"] = "yes"] /\ First("sig").op \in {"addTrack", "close"}
      PROVE ChannelInv'
  <2>1. reply'["sig"] = reply["sig"]
        /\ (reply'["app"] = reply["app"] \/ First("sig").op \in {"addTrack", "close"})
    BY <1>2, <1>3
  <2> HIDE DEF Finish
  <2> QED
    BY <1>3, <2>1, SigQuiet
<1>4. ASSUME NEW h, Tame(h, O), h.ends # "invoke",
             Finish(h, Idle, "", Taken("sig")), queue["sig"] # <<>>, blocked["sig"] = Idle,
             First("sig").op \notin {"role", "addChannel"},
             \/ reply' = reply \/ \E y : reply' = [reply EXCEPT !["net"] = y]
             \/ reply' = [reply EXCEPT !["app"] = "yes"] /\ First("sig").op \in {"addTrack", "close"}
      PROVE ChannelInv'
  <2> HIDE DEF Finish
  <2> QED
    BY <1>3, <1>4, TameKeeps DEF O
<1>5. /\ Item("newIce") \in NetItems /\ Item("newDtls") \in NetItems /\ Item("newSctp") \in NetItems
      /\ Item("newIce").op \notin O /\ Item("newDtls").op \notin O /\ Item("newSctp").op \notin O
  BY TameKeeps DEF Item, NetItems, O
<1>6. CASE queue["sig"] # <<>> /\ blocked["sig"] = Idle /\ InitIceTransport
  <2> DEFINE h == IF tr.ice # "none" THEN Begin ELSE PostNet(Begin, Item("newIce"))
  <2>1. Finish(h, Idle, "", Taken("sig")) /\ reply' = reply /\ First("sig").op = "initIce"
    BY <1>6 DEF InitIceTransport, Simple
  <2>2. Tame(h, O) /\ h.ends = "return"
    BY <1>1, <1>5, TamePost
  <2> HIDE DEF h
  <2> QED
    BY <1>4, <1>6, <2>1, <2>2
<1>7. ASSUME queue["sig"] # <<>>, blocked["sig"] = Idle, NEW type,
             NEW h \in {Begin, SetLocalDescription(Begin, type)},
             Finish(h, ItemOf("finishLocal", type), "localDescription", Taken("sig")),
             First("sig").op \in {"createOffer", "createAnswer"}, reply' = reply
      PROVE ChannelInv'
  <2>1. Tame(h, O)
    BY <1>1, <1>7, TameSetLocal
  <2>2. ItemOf("finishLocal", type).op = "finishLocal"
    BY DEF ItemOf
  <2>3. ItemOf("finishLocal", type) # Idle /\ "localDescription" \in Queries
        /\ ItemOf("finishLocal", type).op \notin AddParts
    BY <2>2 DEF Idle, Queries, AddParts
  <2> HIDE DEF Finish
  <2> QED
    BY <1>3, <1>7, <2>1, <2>3, TameKeeps DEF O
<1>8. CASE queue["sig"] # <<>> /\ blocked["sig"] = Idle /\ (CreateOffer \/ CreateAnswer)
  <2> HIDE DEF Finish
  <2>1. CASE CreateOffer
    BY <1>7, <1>8, <2>1 DEF CreateOffer
  <2>2. CASE CreateAnswer
    BY <1>7, <1>8, <2>2 DEF CreateAnswer
  <2> QED
    BY <1>8, <2>1, <2>2
<1>9. CASE queue["sig"] # <<>> /\ blocked["sig"] = Idle /\ SetRemote
  <2> DEFINE d == First("sig").arg
             h == SetRemoteDescription(Begin, d)
  <2>1. /\ Finish(h, Item("finishAuto"), "localDescription", Taken("sig")) /\ reply' = reply
        /\ First("sig").op = "setRemoteDescription"
    BY <1>9 DEF SetRemote
  <2>2. d \in RemoteDescriptions
    BY <1>9, <2>1, FirstType DEF SigItems
  <2>3. Tame(h, Asking)
    BY <1>1, <2>2, TameSetRemote, TameKeeps
  <2>4. ~Adding(queue["sig"], blocked["sig"])
    BY <1>9, <2>1, WaitsTail DEF TypeInv, First, ChannelInv, AddAlone
  <2>5. Item("finishAuto").op = "finishAuto"
    BY DEF Item
  <2>6. Item("finishAuto") # Idle /\ "localDescription" \in Queries /\ Item("finishAuto").op \notin AddParts
    BY <2>5 DEF Idle, Queries, AddParts
  <2> HIDE DEF h, Finish
  <2> QED
    BY <1>9, <2>1, <2>3, <2>4, <2>6, TameKeeps, SigQuiet
<1>10. CASE queue["sig"] # <<>> /\ blocked["sig"] = Idle /\ AddRemoteCandidate
  <2> DEFINE v == Begin.pc.remote_candidates + 1
             a == [Begin EXCEPT !.pc.remote_candidates = v]
             h == IF pc.remote_sdp # None /\ pc.connection # "CONNECTED"
                  THEN ProcessRemoteCandidates(a) ELSE a
  <2>1. Finish(h, Idle, "", Taken("sig")) /\ reply' = reply /\ First("sig").op = "candidate"
    BY <1>10 DEF AddRemoteCandidate, Simple
  <2>2. v \in Nat
    BY <1>1 DEF Tame, IsPc
  <2> HIDE DEF v
  <2>3. Tame(a, O) /\ a.ends = "return"
    BY <1>1, <2>2, TameEdit
  <2> HIDE DEF a
  <2>4. Tame(h, O) /\ h.ends = "return"
    BY <2>3, TameCandidates, TameKeeps DEF O
  <2> HIDE DEF h
  <2> QED
    BY <1>4, <1>10, <2>1, <2>4
<1>11. \A h : Tame(h, O) => \A v :
        /\ Tame([h EXCEPT !.pc.connection = v], O) /\ [h EXCEPT !.pc.connection = v].ends = h.ends
        /\ Tame([h EXCEPT !.pc.gathering = v], O) /\ [h EXCEPT !.pc.gathering = v].ends = h.ends
        /\ Tame([h EXCEPT !.pc.signaling = v], O) /\ [h EXCEPT !.pc.signaling = v].ends = h.ends
        /\ Tame([h EXCEPT !.pc.local_sdp = v], O) /\ [h EXCEPT !.pc.local_sdp = v].ends = h.ends
        /\ Tame([h EXCEPT !.pc.media_tracks = v], O) /\ [h EXCEPT !.pc.media_tracks = v].ends = h.ends
        /\ Tame([h EXCEPT !.pc.opened = v], O) /\ [h EXCEPT !.pc.opened = v].ends = h.ends
        /\ Tame([h EXCEPT !.pc.negotiation_needed = v], O)
        /\ [h EXCEPT !.pc.negotiation_needed = v].ends = h.ends
        /\ Tame([h EXCEPT !.pc.data_channel_needed = v], O)
        /\ [h EXCEPT !.pc.data_channel_needed = v].ends = h.ends
  BY TameFields
<1>12. CASE queue["sig"] # <<>> /\ blocked["sig"] = Idle /\ AddMediaTrack
  <2> DEFINE mid == First("sig").arg
             v == Begin.pc.media_tracks \cup {mid}
             a == [Begin EXCEPT !.pc.media_tracks = v]
             c == [a EXCEPT !.pc.negotiation_needed = TRUE]
             h == IF mid \in pc.media_tracks THEN Begin ELSE c
  <2>1. /\ Finish(h, Idle, "", Taken("sig")) /\ reply' = [reply EXCEPT !["app"] = "yes"]
        /\ First("sig").op = "addTrack"
    BY <1>12 DEF AddMediaTrack, Answer
  <2> HIDE DEF v
  <2>2. Tame(a, O) /\ a.ends = "return"
    BY <1>1, <1>11
  <2> HIDE DEF a
  <2>3. Tame(c, O) /\ c.ends = "return"
    BY <2>2, <1>11
  <2> HIDE DEF c
  <2>4. Tame(h, O) /\ h.ends = "return"
    BY <1>1, <2>3
  <2> HIDE DEF h
  <2> QED
    BY <1>4, <1>12, <2>1, <2>4
<1>13. \A v : LET r == UpdateConnectionState(Begin, v) IN Tame(r, O) /\ r.ends = "return"
  BY <1>1, <1>11 DEF UpdateConnectionState
<1>14. CASE queue["sig"] # <<>> /\ blocked["sig"] = Idle /\ OnIceTransportStateChanged
  <2> DEFINE state == First("sig").arg
             h == IF state = "CONNECTED" THEN InitDtlsTransport(Begin)
                  ELSE UpdateConnectionState(Begin, state)
  <2>1. Finish(h, Idle, "", Taken("sig")) /\ reply' = reply /\ First("sig").op = "iceState"
    BY <1>14 DEF OnIceTransportStateChanged, Simple
  <2>2. Tame(InitDtlsTransport(Begin), O) /\ InitDtlsTransport(Begin).ends # "invoke"
    <3>1. /\ Tame(PostNet(Begin, Item("newDtls")), O) /\ PostNet(Begin, Item("newDtls")).ends = "return"
      BY <1>1, <1>5, TamePost
    <3>2. \A how : Tame(Ends(Begin, how), O) /\ Ends(Begin, how).ends = how
      BY <1>1, TameEnds
    <3> QED
      BY <1>1, <3>1, <3>2 DEF InitDtlsTransport
  <2>3. Tame(h, O) /\ h.ends # "invoke"
    BY <1>13, <2>2
  <2> HIDE DEF h
  <2> QED
    BY <1>4, <1>14, <2>1, <2>3
<1>15. CASE queue["sig"] # <<>> /\ blocked["sig"] = Idle /\ OnGatheringStateChanged
  <2> DEFINE h == [Begin EXCEPT !.pc.gathering = First("sig").arg]
  <2>1. Finish(h, Idle, "", Taken("sig")) /\ reply' = reply /\ First("sig").op = "gathering"
    BY <1>15 DEF OnGatheringStateChanged, Simple
  <2>2. Tame(h, O) /\ h.ends = "return"
    BY <1>1, <1>11
  <2> HIDE DEF h
  <2> QED
    BY <1>4, <1>15, <2>1, <2>2
<1>16. CASE queue["sig"] # <<>> /\ blocked["sig"] = Idle /\ OnDtlsTransportStateChanged
  <2> DEFINE state == First("sig").arg
             up == IF pc.remote_sdp # None /\ pc.remote_sdp.app THEN InitSctpTransport(Begin)
                   ELSE UpdateConnectionState(Begin, "CONNECTED")
             v == up.pc.opened \cup pc.media_tracks
             a == [up EXCEPT !.pc.opened = v]
             down == UpdateConnectionState(Begin, state)
             c == [down EXCEPT !.pc.opened = {}]
             e == [c EXCEPT !.pc.media_tracks = {}]
             h == IF state = "CONNECTED" THEN a ELSE e
  <2>1. Finish(h, Idle, "", Taken("sig")) /\ reply' = reply /\ First("sig").op = "dtlsState"
    BY <1>16 DEF OnDtlsTransportStateChanged, Simple, CloseMediaTracks
  <2>2. Tame(InitSctpTransport(Begin), O) /\ InitSctpTransport(Begin).ends # "invoke"
    BY <1>1, <1>5, TamePost, TameEnds DEF InitSctpTransport
  <2>3. Tame(up, O) /\ up.ends # "invoke" /\ Tame(down, O) /\ down.ends # "invoke"
    BY <1>13, <2>2
  <2> HIDE DEF up, down, v
  <2>4. Tame(a, O) /\ a.ends # "invoke" /\ Tame(c, O) /\ c.ends # "invoke"
    BY <1>11, <2>3
  <2> HIDE DEF a, c
  <2>5. Tame(e, O) /\ e.ends # "invoke"
    BY <1>11, <2>4
  <2> HIDE DEF e
  <2>6. Tame(h, O) /\ h.ends # "invoke"
    BY <2>4, <2>5
  <2> HIDE DEF h
  <2> QED
    BY <1>4, <1>16, <2>1, <2>6
<1>17. ASSUME NEW g, Tame(g, O), g.ends = "return"
       PROVE LET r == CloseDataChannels(g)
             IN  /\ Kept(pc, r.pc) /\ RemoteKnown(r.pc) /\ r.net \in Seq(NetItems) /\ NoClear(r.wrk)
                 /\ ~Waits(r.net, Asking) /\ ~Waits(r.net, {"setRemote"}) /\ r.ends = "return"
  <2> DEFINE u == g.pc.closed \cup g.pc.data_channels
             a == [g EXCEPT !.pc.closed = u]
             r == [a EXCEPT !.pc.data_channels = {}]
  <2>1. CloseDataChannels(g) = r
    BY DEF CloseDataChannels
  <2>2. u = pc.closed \cup pc.data_channels
    BY <1>17 DEF Tame
  <2>3. g = [f \in HandlerFields |-> g[f]] /\ g.pc = [f \in PcFields |-> g.pc[f]] /\ g.pc.stream_id = pc.stream_id
        /\ RemoteKnown(g.pc)
    BY <1>17 DEF Tame, IsPc
  <2> HIDE DEF u
  <2>4. /\ a = [f \in HandlerFields |-> a[f]] /\ a.pc = [f \in PcFields |-> a.pc[f]]
        /\ a.pc.stream_id = pc.stream_id /\ a.pc.closed = u /\ a.pc.remote_sdp = g.pc.remote_sdp
        /\ a.net = g.net /\ a.wrk = g.wrk /\ a.ends = g.ends
    BY <2>3 DEF HandlerFields, PcFields
  <2> HIDE DEF a
  <2>5. /\ r.pc.stream_id = pc.stream_id /\ r.pc.closed = u /\ r.pc.remote_sdp = g.pc.remote_sdp
        /\ r.pc.data_channels = {} /\ r.net = g.net /\ r.wrk = g.wrk /\ r.ends = g.ends
    BY <2>4 DEF HandlerFields, PcFields
  <2> HIDE DEF r
  <2>6. Kept(pc, r.pc) /\ RemoteKnown(r.pc)
    BY <2>2, <2>3, <2>5 DEF Kept, RemoteKnown
  <2>7. /\ g.net \in Seq(NetItems) /\ NoClear(g.wrk) /\ ~Waits(g.net, Asking) /\ ~Waits(g.net, {"setRemote"})
    BY <1>17, TameKeeps DEF O
  <2> QED
    BY <1>17, <2>1, <2>5, <2>6, <2>7
<1>18. CASE queue["sig"] # <<>> /\ blocked["sig"] = Idle /\ OnSctpTransportStateChanged
  <2> DEFINE g == UpdateConnectionState(Begin, First("sig").arg)
             h == IF First("sig").arg = "CONNECTED" THEN g ELSE CloseDataChannels(g)
  <2>1. Finish(h, Idle, "", Taken("sig")) /\ reply' = reply /\ First("sig").op = "sctpState"
    BY <1>18 DEF OnSctpTransportStateChanged, Simple
  <2>2. Tame(g, O) /\ g.ends = "return"
    BY <1>13
  <2> HIDE DEF g
  <2>3. /\ Kept(pc, h.pc) /\ RemoteKnown(h.pc) /\ h.net \in Seq(NetItems) /\ NoClear(h.wrk)
        /\ ~Waits(h.net, Asking) /\ ~Waits(h.net, {"setRemote"}) /\ h.ends = "return"
    BY <1>17, <2>2, TameKeeps DEF O
  <2> HIDE DEF h
  <2> QED
    BY <1>3, <1>18, <2>1, <2>3
<1>19. CASE queue["sig"] # <<>> /\ blocked["sig"] = Idle /\ OnDtlsVerify
  BY <1>1, <1>4, <1>19 DEF OnDtlsVerify
<1>20. CASE queue["sig"] # <<>> /\ blocked["sig"] = Idle /\ CloseSignaling
  <2> DEFINE a == [Begin EXCEPT !.pc.negotiation_needed = FALSE]
             c == [a EXCEPT !.pc.data_channel_needed = FALSE]
             d == [c EXCEPT !.pc.opened = {}]
             e == [d EXCEPT !.pc.media_tracks = {}]
             h == CloseDataChannels(e)
  <2>1. /\ Finish(h, Idle, "", Taken("sig")) /\ reply' = [reply EXCEPT !["app"] = "yes"]
        /\ First("sig").op = "close"
    BY <1>20 DEF CloseSignaling, CloseMediaTracks, Answer
  <2>2. Tame(a, O) /\ a.ends = "return"
    BY <1>1, <1>11
  <2> HIDE DEF a
  <2>3. Tame(c, O) /\ c.ends = "return"
    BY <2>2, <1>11
  <2> HIDE DEF c
  <2>4. Tame(d, O) /\ d.ends = "return"
    BY <2>3, <1>11
  <2> HIDE DEF d
  <2>5. Tame(e, O) /\ e.ends = "return"
    BY <2>4, <1>11
  <2> HIDE DEF e
  <2>6. /\ Kept(pc, h.pc) /\ RemoteKnown(h.pc) /\ h.net \in Seq(NetItems) /\ NoClear(h.wrk)
        /\ ~Waits(h.net, Asking) /\ ~Waits(h.net, {"setRemote"}) /\ h.ends = "return"
    BY <1>17, <2>5
  <2> HIDE DEF h
  <2> QED
    BY <1>3, <1>20, <2>1, <2>6
<1>21. CASE ResumeLocalDescription
  <2> DEFINE auto == blocked["sig"].op = "finishAuto"
             type == IF auto THEN "ANSWER" ELSE blocked["sig"].arg
             g == FinishLocalDescription(Begin, type)
             h == IF auto /\ g.ends = "return" THEN ProcessRemoteCandidates(g) ELSE g
  <2>1. /\ Finish(h, Idle, "", queue) /\ reply' = [reply EXCEPT !["sig"] = NoReply]
        /\ reply["sig"] # NoReply /\ blocked["sig"].op \in {"finishLocal", "finishAuto"}
    BY <1>21 DEF ResumeLocalDescription
  <2> HIDE DEF type
  <2>2. Tame(g, O) /\ g.ends \in Outcomes
    BY <1>1, TameFinishLocal, TameKeeps DEF O
  <2> HIDE DEF g
  <2>3. Tame(h, O) /\ h.ends # "invoke"
    BY <2>2, TameCandidates, TameKeeps DEF O, Outcomes
  <2>4. /\ blocked["sig"].op \notin AddParts /\ reply'["sig"] = NoReply /\ reply'["app"] = reply["app"]
    BY <1>2, <2>1 DEF AddParts
  <2> HIDE DEF h, Finish
  <2> QED
    BY <2>1, <2>3, <2>4, TameKeeps, SigQuiet DEF O
<1> QED
  BY <1>6, <1>8, <1>9, <1>10, <1>12, <1>14, <1>15, <1>16, <1>18, <1>19, <1>20, <1>21

\* AddDataChannel finds an id: of the ids of one parity, fewer are in use than it tries.
LEMMA FreeId ==
  ASSUME Numbered(pc), NEW base \in {0, 1}
  PROVE LET id == FreeStreamId(base)
        IN  /\ id \in Nat /\ (id % 2 = 0 <=> base = 0)
            /\ \A c \in pc.data_channels : pc.stream_id[c] # id
<1> DEFINE ids == {pc.stream_id[c] : c \in pc.data_channels}
           N == 0..MaxChannels
           K == {k \in N : base + 2 * k \notin ids}
           T == 1..Len(pc.stream_id)
           Free(i) == /\ i \in {base + 2 * k : k \in N} /\ i \notin ids
                      /\ \A k \in N : base + 2 * k < i => base + 2 * k \in ids
<1>1. MaxChannels \in Nat /\ Len(pc.stream_id) \in Nat /\ Len(pc.stream_id) <= MaxChannels
      /\ pc.data_channels \subseteq T
  BY ChannelsAssumption, LenProperties DEF Numbered
<1>2. K # {}
  <2> SUFFICES ASSUME K = {} PROVE FALSE
    OBVIOUS
  <2> DEFINE f == [k \in N |-> CHOOSE c \in pc.data_channels : pc.stream_id[c] = base + 2 * k]
  <2>1. ASSUME NEW k \in N PROVE f[k] \in T /\ pc.stream_id[f[k]] = base + 2 * k
    <3>1. \E c \in pc.data_channels : pc.stream_id[c] = base + 2 * k
      OBVIOUS
    <3>2. f[k] \in pc.data_channels /\ pc.stream_id[f[k]] = base + 2 * k
      BY <3>1
    <3> HIDE DEF f
    <3> QED
      BY <1>1, <3>2
  <2>2. f \in [N -> T]
    BY <2>1
  <2>3. IsFiniteSet(N) /\ Cardinality(N) = MaxChannels + 1
    BY <1>1, FS_Interval
  <2>4. IsFiniteSet(T) /\ Cardinality(T) = Len(pc.stream_id)
    <3>1. ASSUME NEW n \in Nat PROVE IsFiniteSet(1..n) /\ Cardinality(1..n) = n
      BY <3>1, FS_Interval
    <3> QED
      BY <1>1, <3>1
  <2> HIDE DEF f, T, N
  <2>5. \E x, y \in N : x # y /\ f[x] = f[y]
    BY <1>1, <2>2, <2>3, <2>4, FS_PigeonHole
  <2>6. PICK x \in N, y \in N : x # y /\ f[x] = f[y]
    BY <2>5
  <2>7. base + 2 * x = base + 2 * y /\ x \in Nat /\ y \in Nat
    BY <1>1, <2>1, <2>6 DEF N
  <2> QED
    BY <2>6, <2>7
<1>3. PICK k \in K : \A j \in K : k <= j
  <2>1. K \in SUBSET Nat
    BY <1>1
  <2> HIDE DEF K
  <2> QED
    BY <1>2, <2>1, LeastOf
<1>4. Free(base + 2 * k)
  <2>1. k \in N /\ k \in Nat /\ base + 2 * k \notin ids
    BY <1>1
  <2>2. ASSUME NEW j \in N, base + 2 * j < base + 2 * k PROVE base + 2 * j \in ids
    <3>1. j \in Nat /\ j < k
      BY <1>1, <2>1, <2>2
    <3>2. j \notin K
      BY <1>3, <2>1, <3>1
    <3> QED
      BY <3>2
  <2> HIDE DEF N, ids
  <2> QED
    BY <2>1, <2>2
<1> DEFINE id == FreeStreamId(base)
<1>5. Free(id)
  <2>1. id = CHOOSE i \in {base + 2 * j : j \in N} :
               i \notin ids /\ \A j \in N : base + 2 * j < i => base + 2 * j \in ids
    BY DEF FreeStreamId
  <2> HIDE DEF id, ids, N
  <2> QED
    BY <1>4, <2>1
<1>6. PICK j \in N : id = base + 2 * j
  BY <1>5
<1>7. id \notin ids
  BY <1>5
<1> HIDE DEF id
<1>8. j \in Nat /\ id \in Nat /\ (id % 2 = 0 <=> base = 0)
  BY <1>1, <1>6
<1>9. \A c \in pc.data_channels : pc.stream_id[c] # id
  BY <1>7
<1> QED
  BY <1>8, <1>9 DEF id

\* AddDataChannel asks for the role.
LEMMA AddAsks ==
  ASSUME TypeInv, ChannelInv, queue["sig"] # <<>>, blocked["sig"] = Idle, AddDataChannel
  PROVE ChannelInv'
<1> DEFINE sig == queue["sig"]
           net == queue["net"]
           h == [Begin EXCEPT !.ends = "invoke"]
<1>1. /\ Numbered(pc) /\ RemoteKnown(pc) /\ Parity(pc, tr.role, sig) /\ RoleTold(tr.role, sig)
      /\ Asked(net, Idle, reply["sig"], tr.role) /\ AddAlone(pc, sig, net, Idle)
      /\ OneCall(sig, net, queue["wrk"], Idle, reply["app"], blocked["app"])
  BY DEF ChannelInv
<1>2. /\ Finish(h, Item("addChannelRole"), "role", Taken("sig")) /\ First("sig").op = "addChannel"
      /\ reply' = reply
  BY DEF AddDataChannel
<1>3. h.net = <<>> /\ h.wrk = <<>> /\ h.ends = "invoke" /\ h.pc = pc
  BY DEF Begin
<1> HIDE DEF h
<1>4. h.net \in Seq(NetItems) /\ \A O : ~Waits(h.net, O)
  BY <1>3, EmptySeq, WaitsOne
<1>5. "role" \in Queries /\ "setRemote" \notin Queries /\ "closeTransports" \notin Queries
  BY DEF Queries
<1>6. /\ queue'["sig"] = Taken("sig")["sig"]
      /\ \A O : /\ Waits(queue'["net"], O) <=> Waits(net, O) \/ "role" \in O
                /\ ~Waits(net, O) => Sole(queue'["net"], O)
      /\ NoClear(queue["wrk"]) => NoClear(queue'["wrk"])
      /\ blocked'["sig"] = Item("addChannelRole") /\ blocked'["app"] = blocked["app"]
      /\ pc' = pc /\ tr' = tr
  <2> HIDE DEF Taken
  <2>1. /\ queue'["sig"] = Taken("sig")["sig"]
        /\ \A O : /\ Waits(queue'["net"], O) <=> \/ Waits(net, O) \/ Waits(h.net, O)
                                                 \/ h.ends = "invoke" /\ "role" \in O
                  /\ ~Waits(net, O) /\ ~Waits(h.net, O) => Sole(queue'["net"], O)
        /\ NoClear(queue["wrk"]) /\ NoClear(h.wrk) => NoClear(queue'["wrk"])
        /\ blocked'["sig"] = IF h.ends = "invoke" THEN Item("addChannelRole") ELSE Idle
        /\ blocked'["app"] = blocked["app"]
        /\ pc' = IF Survives(h) THEN h.pc ELSE pc
        /\ tr' = tr
    BY <1>2, <1>4, <1>5, SigLeaves
  <2> QED
    BY <1>3, <1>4, <2>1, ClearConcat
<1>7. Item("addChannelRole").op = "addChannelRole" /\ Idle.op = "idle"
  BY DEF Item, Idle
<1>8. queue'["sig"] = Tail(sig) /\ sig \in Seq(SigItems) /\ sig # <<>> /\ Head(sig).op = "addChannel"
  BY <1>2, <1>6, FirstType DEF TypeInv, First
<1>9. /\ \A O : /\ Waits(Tail(sig), O) => Waits(sig, O)
                /\ Head(sig).op \notin O => (Waits(sig, O) <=> Waits(Tail(sig), O))
                /\ Head(sig).op \in O => Waits(sig, O)
                /\ Sole(sig, O) => Sole(Tail(sig), O)
                /\ Sole(sig, O) /\ Head(sig).op \in O => ~Waits(Tail(sig), O)
      /\ Told(sig, tr.role) => Told(Tail(sig), tr.role)
  BY <1>8, WaitsTail
<1>10. ~Waits(net, Queries) /\ reply["sig"] = NoReply
  BY <1>1 DEF Asked
<1>11. Waits(sig, {"addChannel"}) /\ Adding(sig, Idle)
  BY <1>8, <1>9 DEF Adding
<1> HIDE DEF sig, net
<1>12. Waits(sig, {"role"}) <=> Waits(queue'["sig"], {"role"})
  BY <1>8, <1>9
<1>13. Parity(pc', tr'.role, queue'["sig"])
  BY <1>1, <1>6, <1>12 DEF Parity
<1>14. RoleTold(tr'.role, queue'["sig"])
  BY <1>1, <1>6, <1>8, <1>9 DEF RoleTold
<1>15. Asked(queue'["net"], blocked'["sig"], reply'["sig"], tr'.role)
  BY <1>2, <1>6, <1>7, <1>10, WaitsMonotonic DEF Asked
<1>16. AddAlone(pc', queue'["sig"], queue'["net"], blocked'["sig"])
  BY <1>1, <1>6, <1>8, <1>9, <1>11 DEF AddAlone
<1>17. OneCall(queue["sig"], queue["net"], queue["wrk"], blocked["sig"], reply["app"], blocked["app"])'
  BY <1>1, <1>2, <1>6, <1>8, <1>9, <1>11 DEF OneCall, Closing, Adds, CallAlone
<1> QED
  BY <1>1, <1>6, <1>13, <1>14, <1>15, <1>16, <1>17 DEF ChannelInv

\* A new channel, with an id that is not in use.
LEMMA NumberAdds ==
  ASSUME NEW p, NEW q, NEW id \in Nat, Numbered(p), Len(p.stream_id) < MaxChannels,
         q.stream_id = Append(p.stream_id, id),
         q.data_channels = p.data_channels \cup {Len(p.stream_id) + 1}, q.closed = p.closed,
         \A c \in p.data_channels : p.stream_id[c] # id,
         NEW r, NEW s, Parity(p, r, s), id % 2 = 0 <=> (r = "ACTIVE" /\ ~Waits(s, {"role"}))
  PROVE Numbered(q) /\ Parity(q, r, s)
<1> DEFINE ids == p.stream_id
           n == Len(ids)
           new == Append(ids, id)
<1>1. /\ ids \in Seq(Nat) /\ n \in Nat /\ DOMAIN ids = 1..n /\ p.data_channels \subseteq 1..n
      /\ 1..n \subseteq p.data_channels \cup p.closed
      /\ \A c, d \in p.data_channels : ids[c] = ids[d] => c = d
  BY LenProperties DEF Numbered
<1>2. /\ new \in Seq(Nat) /\ Len(new) = n + 1 /\ DOMAIN new = 1..(n + 1)
      /\ new[n + 1] = id /\ \A c \in 1..n : new[c] = ids[c]
  BY <1>1, AppendProperties, LenProperties
<1>3. n + 1 \notin 1..n /\ 1..(n + 1) = 1..n \cup {n + 1} /\ n + 1 <= MaxChannels
  BY <1>1, ChannelsAssumption
<1> HIDE DEF ids, n, new
<1>4. q.stream_id = new /\ q.data_channels = p.data_channels \cup {n + 1}
  BY DEF ids, n, new
<1>5. \A c \in p.data_channels : new[c] = ids[c] /\ new[c] # id /\ c # n + 1
  BY <1>1, <1>2, <1>3 DEF ids
<1>6. \A c, d \in q.data_channels : new[c] = new[d] => c = d
  BY <1>1, <1>2, <1>4, <1>5
<1>7. Numbered(q)
  BY <1>1, <1>2, <1>3, <1>4, <1>6 DEF Numbered
<1>8. Parity(q, r, s)
  BY <1>2, <1>4, <1>5 DEF Parity, ids
<1> QED
  BY <1>7, <1>8

\* AddDataChannel numbers the channel when it has been told the role.
LEMMA AddNumbers ==
  ASSUME TypeInv, ChannelInv, ResumeAddDataChannel
  PROVE ChannelInv'
<1> DEFINE sig == queue["sig"]
           net == queue["net"]
           base == IF reply["sig"] = "ACTIVE" THEN 0 ELSE 1
           id == FreeStreamId(base)
           ids == Append(Begin.pc.stream_id, id)
           chs == Begin.pc.data_channels \cup {Len(pc.stream_id) + 1}
           need == Begin.pc.negotiation_needed \/ pc.local_sdp = None \/ ~pc.local_sdp.app
           a == [Begin EXCEPT !.ends = "invoke"]
           b == [a EXCEPT !.pc.stream_id = ids]
           c == [b EXCEPT !.pc.data_channels = chs]
           d == [c EXCEPT !.pc.data_channel_needed = TRUE]
           h == [d EXCEPT !.pc.negotiation_needed = need]
<1>1. /\ Numbered(pc) /\ RemoteKnown(pc) /\ Parity(pc, tr.role, sig) /\ RoleTold(tr.role, sig)
      /\ Asked(net, blocked["sig"], reply["sig"], tr.role) /\ AddAlone(pc, sig, net, blocked["sig"])
      /\ OneCall(sig, net, queue["wrk"], blocked["sig"], reply["app"], blocked["app"])
  BY DEF ChannelInv
<1>2. /\ Finish(h, Item("addChannelOpen"), "sctpConnected", queue)
      /\ reply' = [reply EXCEPT !["sig"] = NoReply]
      /\ reply["sig"] # NoReply /\ blocked["sig"].op = "addChannelRole"
  BY DEF ResumeAddDataChannel
<1>3. reply["sig"] = tr.role /\ ~Waits(net, Queries)
  BY <1>1, <1>2 DEF Asked
<1>4. /\ ~Waits(sig, {"setRemoteDescription", "role"}) /\ ~Waits(net, {"setRemote"})
      /\ Len(pc.stream_id) < MaxChannels /\ Adding(sig, blocked["sig"])
  BY <1>1, <1>2 DEF AddAlone, Adding, AddParts
<1>5. id \in Nat /\ (id % 2 = 0 <=> base = 0) /\ \A x \in pc.data_channels : pc.stream_id[x] # id
  BY <1>1, FreeId
<1>6. /\ Begin = [f \in HandlerFields |-> Begin[f]] /\ IsPc(Begin.pc) /\ Begin.net = <<>> /\ Begin.wrk = <<>>
      /\ Begin.pc = pc
  BY BeginHandler DEF Handler
<1> HIDE DEF id, Begin
<1>7. ids = Append(pc.stream_id, id) /\ chs = pc.data_channels \cup {Len(pc.stream_id) + 1}
  BY <1>6
<1> HIDE DEF ids, chs, need
<1>8. /\ a = [f \in HandlerFields |-> a[f]] /\ IsPc(a.pc) /\ a.net = <<>> /\ a.wrk = <<>> /\ a.ends = "invoke"
      /\ a.pc = pc
  BY <1>6 DEF HandlerFields
<1> HIDE DEF a
<1>9. /\ b = [f \in HandlerFields |-> b[f]] /\ IsPc(b.pc) /\ b.net = <<>> /\ b.wrk = <<>> /\ b.ends = "invoke"
      /\ b.pc.remote_sdp = pc.remote_sdp /\ b.pc.closed = pc.closed /\ b.pc.stream_id = ids
  BY <1>8 DEF HandlerFields, IsPc, PcFields
<1> HIDE DEF b
<1>10. /\ c = [f \in HandlerFields |-> c[f]] /\ IsPc(c.pc) /\ c.net = <<>> /\ c.wrk = <<>> /\ c.ends = "invoke"
       /\ c.pc.remote_sdp = pc.remote_sdp /\ c.pc.closed = pc.closed /\ c.pc.stream_id = ids
       /\ c.pc.data_channels = chs
  BY <1>9 DEF HandlerFields, IsPc, PcFields
<1> HIDE DEF c
<1>11. /\ d = [f \in HandlerFields |-> d[f]] /\ IsPc(d.pc) /\ d.net = <<>> /\ d.wrk = <<>> /\ d.ends = "invoke"
       /\ d.pc.remote_sdp = pc.remote_sdp /\ d.pc.closed = pc.closed /\ d.pc.stream_id = ids
       /\ d.pc.data_channels = chs
  BY <1>10 DEF HandlerFields, IsPc, PcFields
<1> HIDE DEF d
<1>12. /\ h.net = <<>> /\ h.wrk = <<>> /\ h.ends = "invoke"
       /\ h.pc.remote_sdp = pc.remote_sdp /\ h.pc.closed = pc.closed /\ h.pc.stream_id = ids
       /\ h.pc.data_channels = chs
  BY <1>11 DEF HandlerFields, IsPc, PcFields
<1> HIDE DEF h
<1>13. h.net \in Seq(NetItems) /\ \A O : ~Waits(h.net, O)
  BY <1>12, EmptySeq, WaitsOne
<1>14. "sctpConnected" \in Queries /\ "setRemote" \notin Queries /\ "closeTransports" \notin Queries
  BY DEF Queries
<1>15. /\ queue'["sig"] = sig
       /\ \A O : /\ Waits(queue'["net"], O) <=> Waits(net, O) \/ "sctpConnected" \in O
                 /\ ~Waits(net, O) => Sole(queue'["net"], O)
       /\ NoClear(queue["wrk"]) => NoClear(queue'["wrk"])
       /\ blocked'["sig"] = Item("addChannelOpen") /\ blocked'["app"] = blocked["app"]
       /\ pc' = h.pc /\ tr' = tr
  <2>1. /\ queue'["sig"] = sig
        /\ \A O : /\ Waits(queue'["net"], O) <=> \/ Waits(net, O) \/ Waits(h.net, O)
                                                 \/ h.ends = "invoke" /\ "sctpConnected" \in O
                  /\ ~Waits(net, O) /\ ~Waits(h.net, O) => Sole(queue'["net"], O)
        /\ NoClear(queue["wrk"]) /\ NoClear(h.wrk) => NoClear(queue'["wrk"])
        /\ blocked'["sig"] = IF h.ends = "invoke" THEN Item("addChannelOpen") ELSE Idle
        /\ blocked'["app"] = blocked["app"]
        /\ pc' = IF Survives(h) THEN h.pc ELSE pc
        /\ tr' = tr
    <3> HIDE DEF Finish
    <3> QED
      BY <1>2, <1>13, <1>14, SigLeaves
  <2>2. Survives(h)
    BY <1>12 DEF Survives
  <2> QED
    BY <1>12, <1>13, <2>1, <2>2, ClearConcat
<1>16. reply'["sig"] = NoReply /\ reply'["app"] = reply["app"]
  BY <1>2 DEF TypeInv, Threads, Queues
<1>17. Item("addChannelOpen").op = "addChannelOpen" /\ Item("addChannelOpen") # Idle
  BY DEF Item, Idle
<1> HIDE DEF sig, net
<1>18. Numbered(pc') /\ Parity(pc', tr'.role, queue'["sig"])
  <2>1. ~Waits(sig, {"role"})
    BY <1>4, WaitsMonotonic
  <2>2. id % 2 = 0 <=> (tr.role = "ACTIVE" /\ ~Waits(sig, {"role"}))
    BY <1>3, <1>5, <2>1
  <2> DEFINE q == h.pc
             s == sig
             r == tr.role
  <2>3. /\ q.stream_id = Append(pc.stream_id, id) /\ q.closed = pc.closed
        /\ q.data_channels = pc.data_channels \cup {Len(pc.stream_id) + 1}
    BY <1>7, <1>12
  <2>4. /\ Numbered(pc) /\ Parity(pc, r, s) /\ (id % 2 = 0 <=> (r = "ACTIVE" /\ ~Waits(s, {"role"})))
    BY <1>1, <2>2
  <2>5. pc' = q /\ tr'.role = r /\ queue'["sig"] = s
    BY <1>15
  <2> HIDE DEF base, q, s, r
  <2>6. Numbered(q) /\ Parity(q, r, s)
    BY <1>4, <1>5, <2>3, <2>4, NumberAdds
  <2> QED
    BY <2>5, <2>6
<1>19. RemoteKnown(pc')
  BY <1>1, <1>12, <1>15 DEF RemoteKnown
<1>20. Asked(queue'["net"], blocked'["sig"], reply'["sig"], tr'.role)
  BY <1>3, <1>15, <1>16, <1>17 DEF Asked
<1>21. AddAlone(pc', queue'["sig"], queue'["net"], blocked'["sig"])
  BY <1>1, <1>2, <1>4, <1>15, <1>17, WaitsMonotonic DEF OneCall, CallAlone, AddParts, Adds, AddAlone
<1>22. OneCall(queue["sig"], queue["net"], queue["wrk"], blocked["sig"], reply["app"], blocked["app"])'
  BY <1>1, <1>2, <1>4, <1>15, <1>16, <1>17 DEF OneCall, Closing, AddParts, CallAlone
<1>23. RoleTold(tr'.role, queue'["sig"])
  BY <1>1, <1>15
<1> QED
  BY <1>18, <1>19, <1>20, <1>21, <1>22, <1>23 DEF ChannelInv

\* AddDataChannel returns to the application.
LEMMA AddReturns ==
  ASSUME TypeInv, ChannelInv, ResumeAddDataChannelOpen
  PROVE ChannelInv'
<1> DEFINE sig == queue["sig"]
           net == queue["net"]
           h == Begin
<1>1. /\ Numbered(pc) /\ RemoteKnown(pc) /\ Parity(pc, tr.role, sig) /\ RoleTold(tr.role, sig)
      /\ Asked(net, blocked["sig"], reply["sig"], tr.role) /\ AddAlone(pc, sig, net, blocked["sig"])
      /\ OneCall(sig, net, queue["wrk"], blocked["sig"], reply["app"], blocked["app"])
  BY DEF ChannelInv
<1>2. /\ Finish(h, Idle, "", queue)
      /\ reply' = [reply EXCEPT !["sig"] = NoReply, !["app"] = "yes"]
      /\ reply["sig"] # NoReply /\ blocked["sig"].op = "addChannelOpen"
  BY DEF ResumeAddDataChannelOpen
<1>3. h.net = <<>> /\ h.wrk = <<>> /\ h.ends = "return" /\ h.pc = pc
  BY BeginHandler
<1> HIDE DEF h
<1>4. h.net \in Seq(NetItems) /\ \A O : ~Waits(h.net, O)
  BY <1>3, EmptySeq, WaitsOne
<1>5. /\ queue'["sig"] = sig
      /\ \A O : /\ Waits(queue'["net"], O) <=> Waits(net, O)
                /\ Sole(net, O) => Sole(queue'["net"], O)
      /\ NoClear(queue["wrk"]) => NoClear(queue'["wrk"])
      /\ blocked'["sig"] = Idle /\ blocked'["app"] = blocked["app"]
      /\ pc' = pc /\ tr' = tr
  <2>1. /\ queue'["sig"] = sig
        /\ \A O : /\ Waits(queue'["net"], O) <=> \/ Waits(net, O) \/ Waits(h.net, O)
                                                 \/ h.ends = "invoke" /\ "" \in O
                  /\ Sole(net, O) /\ ~Waits(h.net, O) /\ (h.ends = "invoke" => "" \notin O)
                        => Sole(queue'["net"], O)
        /\ NoClear(queue["wrk"]) /\ NoClear(h.wrk) => NoClear(queue'["wrk"])
        /\ blocked'["sig"] = IF h.ends = "invoke" THEN Idle ELSE Idle
        /\ blocked'["app"] = blocked["app"]
        /\ pc' = IF Survives(h) THEN h.pc ELSE pc
        /\ tr' = tr
    <3> HIDE DEF Finish
    <3>1. h.ends # "invoke"
      BY <1>3
    <3> QED
      BY <1>2, <1>4, <3>1, SigLeaves
  <2> QED
    BY <1>3, <1>4, <2>1, ClearConcat
<1>6. reply'["sig"] = NoReply
  BY <1>2 DEF TypeInv, Threads, Queues
<1>7. Idle.op = "idle"
  BY DEF Idle
<1> HIDE DEF sig, net
<1>8. Adding(sig, blocked["sig"]) /\ blocked["sig"].op \in AddParts
  BY <1>2 DEF Adding, AddParts
<1>9. ~Closing /\ (Closing' <=> Closing)
  BY <1>1, <1>5, <1>8 DEF OneCall, Closing
<1>10. CallAlone(sig, net, queue["wrk"], blocked["sig"], reply["app"], blocked["app"])
  BY <1>1, <1>9 DEF OneCall
<1>11. ~Waits(sig, Adds) /\ ~Waits(sig, {"addChannel"})
  BY <1>8, <1>10, WaitsMonotonic DEF Adds, CallAlone
<1>12. Asked(queue'["net"], blocked'["sig"], reply'["sig"], tr'.role)
  BY <1>1, <1>2, <1>5, <1>6, <1>7 DEF Asked
<1>13. AddAlone(pc', queue'["sig"], queue'["net"], blocked'["sig"])
  BY <1>5, <1>7, <1>11 DEF AddAlone, Adding, AddParts
<1>14. CallAlone(queue'["sig"], queue'["net"], queue'["wrk"], blocked'["sig"], reply'["app"], blocked'["app"])
  BY <1>5, <1>7, <1>8, <1>10, <1>11 DEF CallAlone, AddParts
<1>15. OneCall(queue["sig"], queue["net"], queue["wrk"], blocked["sig"], reply["app"], blocked["app"])'
  BY <1>9, <1>14 DEF OneCall
<1>16. Parity(pc', tr'.role, queue'["sig"]) /\ RoleTold(tr'.role, queue'["sig"]) /\ Numbered(pc') /\ RemoteKnown(pc')
  BY <1>1, <1>5
<1> QED
  BY <1>12, <1>13, <1>15, <1>16 DEF ChannelInv

\* Odd ids that all become the even ids below them stay different: the map loses no channel.
LEMMA ShiftNumbers ==
  ASSUME NEW p, Numbered(p), \A c \in p.data_channels : p.stream_id[c] % 2 # 0
  PROVE LET shifted(c) == IF c \in p.data_channels /\ p.stream_id[c] % 2 = 1
                          THEN p.stream_id[c] - 1 ELSE p.stream_id[c]
            ids == [c \in DOMAIN p.stream_id |-> shifted(c)]
            kept == {c \in p.data_channels : \A d \in p.data_channels : ids[d] = ids[c] => c <= d}
        IN  /\ kept = p.data_channels /\ ids \in Seq(Nat) /\ Len(ids) = Len(p.stream_id)
            /\ DOMAIN ids = DOMAIN p.stream_id
            /\ \A c \in p.data_channels : ids[c] % 2 = 0
            /\ \A c, d \in p.data_channels : ids[c] = ids[d] => c = d
<1> DEFINE shifted(c) == IF c \in p.data_channels /\ p.stream_id[c] % 2 = 1
                         THEN p.stream_id[c] - 1 ELSE p.stream_id[c]
           ids == [c \in DOMAIN p.stream_id |-> shifted(c)]
           kept == {c \in p.data_channels : \A d \in p.data_channels : ids[d] = ids[c] => c <= d}
           n == Len(p.stream_id)
<1>1. /\ n \in Nat /\ DOMAIN p.stream_id = 1..n /\ p.data_channels \subseteq 1..n
      /\ \A c \in 1..n : p.stream_id[c] \in Nat
      /\ \A c, d \in p.data_channels : p.stream_id[c] = p.stream_id[d] => c = d
  BY LenProperties, ElementOfSeq DEF Numbered
<1>2. \A m \in Nat : m % 2 # 0 => m % 2 = 1 /\ m - 1 \in Nat /\ (m - 1) % 2 = 0
  OBVIOUS
<1>3. ASSUME NEW c \in p.data_channels
      PROVE /\ ids[c] = p.stream_id[c] - 1 /\ p.stream_id[c] \in Nat /\ ids[c] \in Nat /\ ids[c] % 2 = 0
  BY <1>1, <1>2, <1>3
<1>4. ASSUME NEW c \in 1..n PROVE ids[c] \in Nat
  BY <1>1, <1>3, <1>4
<1>5. ids \in Seq(Nat) /\ Len(ids) = n /\ DOMAIN ids = 1..n
  <2>1. DOMAIN ids = 1..n /\ ids = [c \in 1..n |-> ids[c]]
    BY <1>1
  <2> HIDE DEF ids
  <2>2. ids \in [1..n -> Nat]
    BY <1>4, <2>1
  <2>3. ids \in Seq(Nat)
    BY <1>1, <2>2, SeqDef
  <2>4. Len(ids) = n
    BY <1>1, <2>1, <2>3, LenProperties
  <2> QED
    BY <2>1, <2>3, <2>4
<1> HIDE DEF ids
<1>6. ASSUME NEW c \in p.data_channels, NEW d \in p.data_channels, ids[c] = ids[d] PROVE c = d
  BY <1>1, <1>3, <1>6
<1>7. kept = p.data_channels
  BY <1>1, <1>6
<1>8. \A c \in p.data_channels : ids[c] % 2 = 0
  BY <1>3
<1> QED
  BY <1>1, <1>5, <1>6, <1>7, <1>8 DEF ids

\* OnRoleChanged moves the channels to the ids of the role.
LEMMA ShiftKeeps ==
  ASSUME TypeInv, ChannelInv, queue["sig"] # <<>>, blocked["sig"] = Idle, ShiftDataChannels
  PROVE ChannelInv'
<1> DEFINE sig == queue["sig"]
           net == queue["net"]
           shifted(c) == IF c \in pc.data_channels /\ pc.stream_id[c] % 2 = 1
                         THEN pc.stream_id[c] - 1 ELSE pc.stream_id[c]
           ids == [c \in DOMAIN pc.stream_id |-> shifted(c)]
           kept == {c \in pc.data_channels : \A d \in pc.data_channels : ids[d] = ids[c] => c <= d}
           a == [Begin EXCEPT !.pc.stream_id = ids]
           b == [a EXCEPT !.pc.data_channels = kept]
           h == IF First("sig").arg # "ACTIVE" THEN Begin ELSE b
<1>1. /\ Numbered(pc) /\ RemoteKnown(pc) /\ Parity(pc, tr.role, sig) /\ RoleTold(tr.role, sig)
      /\ Asked(net, Idle, reply["sig"], tr.role) /\ AddAlone(pc, sig, net, Idle)
      /\ OneCall(sig, net, queue["wrk"], Idle, reply["app"], blocked["app"])
  BY DEF ChannelInv
<1>2. First("sig").op = "role" /\ Finish(h, Idle, "", Taken("sig")) /\ reply' = reply
  BY DEF ShiftDataChannels, Simple
<1>3. /\ Begin = [f \in HandlerFields |-> Begin[f]] /\ IsPc(Begin.pc) /\ Begin.net = <<>> /\ Begin.wrk = <<>>
      /\ Begin.pc = pc /\ Begin.ends = "return"
  BY BeginHandler DEF Handler
<1>4. sig \in Seq(SigItems) /\ sig # <<>> /\ Head(sig) = First("sig")
  BY DEF TypeInv, First
<1>5. /\ Waits(sig, {"role"}) /\ First("sig").arg = tr.role /\ ~Waits(Tail(sig), {"role"})
      /\ \A O : /\ Waits(Tail(sig), O) => Waits(sig, O)
                /\ Sole(sig, O) => Sole(Tail(sig), O)
      /\ Told(Tail(sig), tr.role)
  BY <1>1, <1>2, <1>4, WaitsTail DEF RoleTold
<1>6. /\ kept = pc.data_channels /\ ids \in Seq(Nat) /\ Len(ids) = Len(pc.stream_id)
      /\ DOMAIN ids = DOMAIN pc.stream_id
      /\ \A c \in pc.data_channels : ids[c] % 2 = 0
      /\ \A c, d \in pc.data_channels : ids[c] = ids[d] => c = d
  BY <1>1, <1>5, ShiftNumbers DEF Parity
<1> HIDE DEF Begin, ids, kept
<1>7. /\ a = [f \in HandlerFields |-> a[f]] /\ IsPc(a.pc) /\ a.net = <<>> /\ a.wrk = <<>> /\ a.ends = "return"
      /\ a.pc.remote_sdp = pc.remote_sdp /\ a.pc.closed = pc.closed /\ a.pc.stream_id = ids
  BY <1>3 DEF HandlerFields, IsPc, PcFields
<1> HIDE DEF a
<1>8. /\ b.net = <<>> /\ b.wrk = <<>> /\ b.ends = "return"
      /\ b.pc.remote_sdp = pc.remote_sdp /\ b.pc.closed = pc.closed /\ b.pc.stream_id = ids
      /\ b.pc.data_channels = kept
  BY <1>7 DEF HandlerFields, IsPc, PcFields
<1> HIDE DEF b
<1>9. /\ h.net = <<>> /\ h.wrk = <<>> /\ h.ends = "return"
      /\ h.pc.remote_sdp = pc.remote_sdp /\ h.pc.closed = pc.closed
      /\ h.pc.data_channels = pc.data_channels
      /\ h.pc.stream_id = IF tr.role = "ACTIVE" THEN ids ELSE pc.stream_id
  BY <1>3, <1>5, <1>6, <1>8
<1> HIDE DEF h
<1>10. h.net \in Seq(NetItems) /\ \A O : ~Waits(h.net, O)
  BY <1>9, EmptySeq, WaitsOne
<1>11. /\ queue'["sig"] = Tail(sig)
       /\ \A O : /\ Waits(queue'["net"], O) <=> Waits(net, O)
                 /\ Sole(net, O) => Sole(queue'["net"], O)
       /\ NoClear(queue["wrk"]) => NoClear(queue'["wrk"])
       /\ blocked'["sig"] = Idle /\ blocked'["app"] = blocked["app"]
       /\ pc' = h.pc /\ tr' = tr
  <2> HIDE DEF Taken
  <2>1. /\ queue'["sig"] = Taken("sig")["sig"]
        /\ \A O : /\ Waits(queue'["net"], O) <=> \/ Waits(net, O) \/ Waits(h.net, O)
                                                 \/ h.ends = "invoke" /\ "" \in O
                  /\ Sole(net, O) /\ ~Waits(h.net, O) /\ (h.ends = "invoke" => "" \notin O)
                        => Sole(queue'["net"], O)
        /\ NoClear(queue["wrk"]) /\ NoClear(h.wrk) => NoClear(queue'["wrk"])
        /\ blocked'["sig"] = IF h.ends = "invoke" THEN Idle ELSE Idle
        /\ blocked'["app"] = blocked["app"]
        /\ pc' = IF Survives(h) THEN h.pc ELSE pc
        /\ tr' = tr
    <3> HIDE DEF Finish
    <3>1. h.ends # "invoke"
      BY <1>9
    <3> QED
      BY <1>2, <1>10, <3>1, SigLeaves
  <2>2. Survives(h)
    BY <1>9 DEF Survives
  <2> QED
    BY <1>4, <1>9, <1>10, <2>1, <2>2, ClearConcat, FirstType
<1>12. Idle.op = "idle"
  BY DEF Idle
<1> HIDE DEF sig, net
<1>13. ~Adding(sig, Idle)
  BY <1>1, <1>5, WaitsMonotonic DEF AddAlone
<1>14. Numbered(pc')
  <2>1. CASE tr.role = "ACTIVE"
    BY <1>1, <1>6, <1>9, <1>11, <2>1 DEF Numbered
  <2>2. CASE tr.role # "ACTIVE"
    BY <1>1, <1>9, <1>11, <2>2 DEF Numbered
  <2> QED
    BY <2>1, <2>2
<1>15. Parity(pc', tr'.role, queue'["sig"])
  BY <1>1, <1>5, <1>6, <1>9, <1>11 DEF Parity
<1>16. RemoteKnown(pc')
  BY <1>1, <1>9, <1>11 DEF RemoteKnown
<1>17. RoleTold(tr'.role, queue'["sig"])
  BY <1>1, <1>5, <1>11 DEF RoleTold
<1>18. Asked(queue'["net"], blocked'["sig"], reply'["sig"], tr'.role)
  BY <1>1, <1>2, <1>11, <1>12 DEF Asked
<1>19. ~Adding(queue'["sig"], blocked'["sig"])
  BY <1>5, <1>11, <1>12, <1>13 DEF Adding
<1>20. AddAlone(pc', queue'["sig"], queue'["net"], blocked'["sig"])
  BY <1>19 DEF AddAlone, Adding, AddParts
<1>21. OneCall(queue["sig"], queue["net"], queue["wrk"], blocked["sig"], reply["app"], blocked["app"])'
  BY <1>1, <1>2, <1>5, <1>11, <1>19 DEF Closing, OneCall, CallAlone
<1> QED
  BY <1>14, <1>15, <1>16, <1>17, <1>18, <1>20, <1>21 DEF ChannelInv

\* What the invariant says of the closures in a queue stays true.
Unheard(s, t, W) == \A O \in W : (Waits(t, O) => Waits(s, O)) /\ (Sole(s, O) => Sole(t, O))
SigWatched == {{"role"}, {"addChannel"}, {"close"}, Adds, {"setRemoteDescription", "role"}}
NetWatched == {Queries, Queries \ {"role"}, {"setRemote"}, {"closeTransports"}}

\* The closures of the signaling queue that the invariant follows.
Loud == {"role", "addTrack", "addChannel", "close", "setRemoteDescription"}

\* A step of another thread that posts none of them and settles nothing.
LEMMA QuietElsewhere ==
  ASSUME ChannelInv, pc' = pc, tr'.role = tr.role,
         blocked'["sig"] = blocked["sig"], blocked'["app"] = blocked["app"],
         reply'["sig"] = reply["sig"], reply'["app"] = reply["app"] \/ Closing,
         NoClear(queue["wrk"]) => NoClear(queue'["wrk"]),
         Unheard(queue["sig"], queue'["sig"], SigWatched),
         Waits(queue["sig"], {"role"}) => Waits(queue'["sig"], {"role"}),
         Told(queue["sig"], tr.role) => Told(queue'["sig"], tr.role),
         Unheard(queue["net"], queue'["net"], NetWatched)
  PROVE ChannelInv'
<1> DEFINE sig == queue["sig"]
           net == queue["net"]
           b == blocked["sig"]
           sig1 == queue'["sig"]
           net1 == queue'["net"]
<1>1. /\ Numbered(pc) /\ RemoteKnown(pc) /\ Parity(pc, tr.role, sig) /\ RoleTold(tr.role, sig)
      /\ Asked(net, b, reply["sig"], tr.role) /\ AddAlone(pc, sig, net, b)
      /\ OneCall(sig, net, queue["wrk"], b, reply["app"], blocked["app"])
  BY DEF ChannelInv
<1>2. /\ Waits(sig1, {"role"}) <=> Waits(sig, {"role"})
      /\ Waits(sig1, {"addChannel"}) => Waits(sig, {"addChannel"})
      /\ Waits(sig1, {"close"}) => Waits(sig, {"close"})
      /\ Waits(sig1, Adds) => Waits(sig, Adds)
      /\ Waits(sig1, {"setRemoteDescription", "role"}) => Waits(sig, {"setRemoteDescription", "role"})
      /\ Sole(sig, {"role"}) => Sole(sig1, {"role"})
      /\ Sole(sig, Adds) => Sole(sig1, Adds)
  BY DEF Unheard, SigWatched
<1>3. /\ Waits(net1, Queries) => Waits(net, Queries)
      /\ Waits(net1, Queries \ {"role"}) => Waits(net, Queries \ {"role"})
      /\ Waits(net1, {"setRemote"}) => Waits(net, {"setRemote"})
      /\ Waits(net1, {"closeTransports"}) => Waits(net, {"closeTransports"})
      /\ Sole(net, Queries) => Sole(net1, Queries)
  BY DEF Unheard, NetWatched
<1>4. Told(sig, tr.role) => Told(sig1, tr.role)
  OBVIOUS
<1>5. NoClear(queue["wrk"]) => NoClear(queue'["wrk"])
  OBVIOUS
<1> HIDE DEF sig, net, b, sig1, net1
<1>6. Numbered(pc') /\ RemoteKnown(pc')
  BY <1>1
<1>7. Parity(pc', tr'.role, sig1)
  BY <1>1, <1>2 DEF Parity
<1>8. RoleTold(tr'.role, sig1)
  BY <1>1, <1>2, <1>4 DEF RoleTold
<1>9. Asked(net1, b, reply'["sig"], tr'.role)
  BY <1>1, <1>3 DEF Asked
<1>10. AddAlone(pc', sig1, net1, b)
  BY <1>1, <1>2, <1>3 DEF AddAlone, Adding
<1>11. Closing' <=> Closing
  BY DEF Closing
<1>12. CASE Closing
  BY <1>1, <1>2, <1>6, <1>7, <1>8, <1>9, <1>10, <1>11, <1>12 DEF OneCall, Adding, ChannelInv, sig1, net1, b
<1>13. CASE ~Closing
  BY <1>1, <1>2, <1>3, <1>5, <1>6, <1>7, <1>8, <1>9, <1>10, <1>11, <1>13 DEF OneCall, CallAlone, ChannelInv, sig1, net1, b
<1> QED
  BY <1>12, <1>13

\* Closures that are not loud, posted to the signaling queue.
LEMMA QuietPosts ==
  ASSUME NEW s \in Seq(SigItems), NEW t \in Seq(SigItems), ~Waits(t, Loud)
  PROVE /\ Unheard(s, s \o t, SigWatched)
        /\ Waits(s, {"role"}) => Waits(s \o t, {"role"})
        /\ \A r : Told(s, r) => Told(s \o t, r)
<1>1. \A O \in SigWatched : O \subseteq Loud
  BY DEF SigWatched, Loud, Adds
<1>2. \A O \in SigWatched : ~Waits(t, O)
  BY <1>1, WaitsMonotonic
<1>3. /\ \A O : /\ Waits(s \o t, O) <=> Waits(s, O) \/ Waits(t, O)
                /\ Sole(s, O) /\ ~Waits(t, O) => Sole(s \o t, O)
      /\ \A r : Told(s, r) /\ Told(t, r) => Told(s \o t, r)
  BY WaitsConcat
<1>4. {"role"} \in SigWatched
  BY DEF SigWatched
<1>5. \A r : Told(t, r)
  BY <1>2, <1>4 DEF Told, Waits
<1> QED
  BY <1>2, <1>3, <1>5 DEF Unheard

\* What a closure of the network queue takes and posts.
LEMMA NetLeaves ==
  ASSUME TypeInv, queue["net"] # <<>>, NEW t, NEW posts \in Seq(SigItems), NetDone(t, posts)
  PROVE /\ queue'["net"] = Tail(queue["net"]) /\ queue'["sig"] = queue["sig"] \o posts
        /\ queue'["wrk"] = queue["wrk"]
        /\ blocked' = blocked /\ pc' = pc /\ tr' = t
<1>1. /\ queue' = [Taken("net") EXCEPT !["sig"] = @ \o posts]
      /\ blocked' = blocked /\ pc' = pc /\ tr' = t
  BY DEF NetDone
<1>2. Taken("net")["wrk"] = queue["wrk"]
  BY DEF Taken, TypeInv, Queues
<1> HIDE DEF Taken
<1> QED
  BY <1>1, <1>2, FirstType DEF Queues

\* The first closure of the network queue is taken.
LEMMA NetTail ==
  ASSUME TypeInv, queue["net"] # <<>>
  PROVE /\ \A W : Unheard(queue["net"], Tail(queue["net"]), W)
        /\ \A O : /\ First("net").op \in O => Waits(queue["net"], O)
                  /\ First("net").op \in O /\ Sole(queue["net"], O) => ~Waits(Tail(queue["net"]), O)
                  /\ Waits(Tail(queue["net"]), O) => Waits(queue["net"], O)
                  /\ Sole(queue["net"], O) => Sole(Tail(queue["net"]), O)
  BY WaitsTail DEF TypeInv, First, Unheard

\* A closure of the network queue that reports states of the transports.
LEMMA NetQuiet ==
  ASSUME TypeInv, ChannelInv, queue["net"] # <<>>, NEW t, t.role = tr.role,
         NEW posts \in Seq(SigItems), ~Waits(posts, Loud), NetDone(t, posts),
         reply'["sig"] = reply["sig"],
         reply'["app"] = reply["app"] \/ First("net").op = "closeTransports"
  PROVE ChannelInv'
<1>1. /\ queue'["net"] = Tail(queue["net"]) /\ queue'["sig"] = queue["sig"] \o posts
      /\ queue'["wrk"] = queue["wrk"] /\ blocked' = blocked /\ pc' = pc /\ tr' = t
  BY NetLeaves
<1>2. Unheard(queue["net"], queue'["net"], NetWatched)
  BY <1>1, NetTail
<1>3. queue["sig"] \in Seq(SigItems)
  BY DEF TypeInv
<1>4. /\ Unheard(queue["sig"], queue'["sig"], SigWatched)
      /\ Waits(queue["sig"], {"role"}) => Waits(queue'["sig"], {"role"})
      /\ Told(queue["sig"], tr.role) => Told(queue'["sig"], tr.role)
  BY <1>1, <1>3, QuietPosts
<1>5. First("net").op = "closeTransports" => Closing
  BY NetTail DEF ChannelInv, OneCall, CallAlone
<1> QED
  BY <1>1, <1>2, <1>4, <1>5, QuietElsewhere

\* The network queue answers the signaling queue.
LEMMA QueryTells ==
  ASSUME TypeInv, ChannelInv, queue["net"] # <<>>, Query
  PROVE ChannelInv'
<1> DEFINE sig == queue["sig"]
           net == queue["net"]
           b == blocked["sig"]
<1>1. /\ Numbered(pc) /\ RemoteKnown(pc) /\ Parity(pc, tr.role, sig) /\ RoleTold(tr.role, sig)
      /\ Asked(net, b, reply["sig"], tr.role) /\ AddAlone(pc, sig, net, b)
      /\ OneCall(sig, net, queue["wrk"], b, reply["app"], blocked["app"])
  BY DEF ChannelInv
<1>2. /\ NetDone(tr, <<>>) /\ First("net").op \in Queries
      /\ First("net").op = "role" => reply' = [reply EXCEPT !["sig"] = tr.role]
      /\ \E y : reply' = [reply EXCEPT !["sig"] = y]
  BY DEF Query, WithIce, NetFails, Queries
<1>3. /\ queue'["net"] = Tail(net) /\ queue'["sig"] = sig /\ queue'["wrk"] = queue["wrk"]
      /\ blocked' = blocked /\ pc' = pc /\ tr' = tr
  BY <1>2, NetLeaves, PostsType, ConcatEmptySeq DEF TypeInv
<1>4. /\ \A O : /\ First("net").op \in O => Waits(net, O)
                /\ First("net").op \in O /\ Sole(net, O) => ~Waits(Tail(net), O)
                /\ Waits(Tail(net), O) => Waits(net, O)
                /\ Sole(net, O) => Sole(Tail(net), O)
  BY NetTail
<1>5. /\ reply'["app"] = reply["app"]
      /\ First("net").op = "role" => reply'["sig"] = tr.role
  BY <1>2 DEF TypeInv, Threads, Queues
<1> HIDE DEF sig, net, b
<1>6. /\ ~Waits(Tail(net), Queries) /\ Sole(Tail(net), Queries) /\ b # Idle
      /\ b.op = "addChannelRole" => First("net").op = "role"
  BY <1>1, <1>2, <1>4 DEF Asked
<1>7. ~Waits(Tail(net), Queries \ {"role"})
  BY <1>6, WaitsMonotonic
<1>8. Asked(queue'["net"], b, reply'["sig"], tr'.role)
  BY <1>3, <1>5, <1>6, <1>7 DEF Asked
<1>9. AddAlone(pc', sig, queue'["net"], b)
  BY <1>1, <1>3, <1>4 DEF AddAlone
<1>10. OneCall(queue["sig"], queue["net"], queue["wrk"], blocked["sig"], reply["app"], blocked["app"])'
  BY <1>1, <1>3, <1>4, <1>5 DEF Closing, OneCall, b, CallAlone
<1> QED
  BY <1>1, <1>3, <1>8, <1>9, <1>10 DEF ChannelInv, b

\* NegotiateRole settles the role once, and reports it.
LEMMA RoleSettled ==
  ASSUME TypeInv, ChannelInv, queue["net"] # <<>>, SetRemoteIce
  PROVE ChannelInv'
<1> DEFINE sig == queue["sig"]
           net == queue["net"]
           b == blocked["sig"]
           theirs == First("net").arg
           changes == tr.role = "ACT_PASS"
           role == IF ~changes THEN tr.role
                   ELSE IF theirs = "ACTIVE" THEN "PASSIVE" ELSE "ACTIVE"
           t == [tr EXCEPT !.role = role, !.trickle = @ \/ role # theirs]
           posts == IF changes THEN <<ItemOf("role", role)>> ELSE <<>>
<1>1. /\ Numbered(pc) /\ RemoteKnown(pc) /\ Parity(pc, tr.role, sig) /\ RoleTold(tr.role, sig)
      /\ Asked(net, b, reply["sig"], tr.role) /\ AddAlone(pc, sig, net, b)
      /\ OneCall(sig, net, queue["wrk"], b, reply["app"], blocked["app"])
  BY DEF ChannelInv
<1>2. (NetDone(tr, <<>>) \/ NetDone(t, posts)) /\ reply' = reply /\ First("net").op = "setRemote"
  BY DEF SetRemoteIce, WithIce, NetFails
<1>3. t.role = role
  BY DEF TypeInv, TrFields
<1>4. posts \in Seq(SigItems)
  BY PostsType DEF Roles
<1>5. <<>> \in Seq(SigItems) /\ ~Waits(<<>>, Loud)
  BY PostsType, WaitsOne
<1>6. CASE NetDone(tr, <<>>)
  BY <1>2, <1>5, <1>6, NetQuiet
<1>7. CASE NetDone(t, posts) /\ ~changes
  <2>1. posts = <<>> /\ t.role = tr.role
    BY <1>3, <1>7
  <2> HIDE DEF t, posts
  <2> QED
    BY <1>2, <1>5, <1>7, <2>1, NetQuiet
<1>8. CASE NetDone(t, posts) /\ changes
  <2>1. posts = <<ItemOf("role", role)>> /\ role \in {"PASSIVE", "ACTIVE"} /\ tr.role = "ACT_PASS"
    BY <1>8
  <2> HIDE DEF t, posts, role
  <2>2. /\ queue'["net"] = Tail(net) /\ queue'["sig"] = sig \o posts /\ queue'["wrk"] = queue["wrk"]
        /\ blocked' = blocked /\ pc' = pc /\ tr' = t
    BY <1>4, <1>8, NetLeaves
  <2>3. /\ Waits(net, {"setRemote"})
        /\ \A O : /\ Waits(Tail(net), O) => Waits(net, O)
                  /\ Sole(net, O) => Sole(Tail(net), O)
    BY <1>2, NetTail
  <2>4. ItemOf("role", role).op = "role" /\ ItemOf("role", role).arg = role
    BY DEF ItemOf
  <2>5. /\ \A O : /\ Waits(posts, O) <=> "role" \in O
                  /\ Sole(posts, O)
        /\ Told(posts, role)
    BY <2>1, <2>4, WaitsOne
  <2>6. /\ \A O : /\ Waits(sig \o posts, O) <=> Waits(sig, O) \/ Waits(posts, O)
                  /\ Sole(sig, O) /\ ~Waits(posts, O) => Sole(sig \o posts, O)
                  /\ ~Waits(sig, O) /\ Sole(posts, O) => Sole(sig \o posts, O)
        /\ \A r : Told(sig, r) /\ Told(posts, r) => Told(sig \o posts, r)
    BY <1>4, WaitsConcat DEF TypeInv
  <2>7. ~Waits(sig, {"role"})
    BY <1>1, <2>1 DEF RoleTold
  <2>8. Told(sig, role)
    BY <2>7 DEF Told, Waits
  <2>9. ~Adding(sig, b)
    BY <1>1, <2>3 DEF AddAlone
  <2> HIDE DEF sig, net, b
  <2>10. RoleTold(tr'.role, queue'["sig"])
    BY <1>3, <2>1, <2>2, <2>5, <2>6, <2>7, <2>8 DEF RoleTold, Roles
  <2>11. Parity(pc', tr'.role, queue'["sig"])
    BY <1>1, <2>1, <2>2, <2>5, <2>6 DEF Parity
  <2>12. ~Adding(queue'["sig"], b)
    BY <2>2, <2>5, <2>6, <2>9 DEF Adding
  <2>13. AddAlone(pc', queue'["sig"], queue'["net"], b)
    BY <2>12 DEF AddAlone, Adding, AddParts
  <2>14. Asked(queue'["net"], b, reply'["sig"], tr'.role)
    BY <1>1, <1>2, <2>2, <2>3, <2>9 DEF Adding, AddParts, Asked
  <2>15. OneCall(queue["sig"], queue["net"], queue["wrk"], blocked["sig"], reply["app"], blocked["app"])'
    BY <1>1, <1>2, <2>2, <2>3, <2>5, <2>6, <2>12 DEF Closing, OneCall, b, Adds, CallAlone
  <2> QED
    BY <1>1, <2>2, <2>10, <2>11, <2>13, <2>14, <2>15 DEF ChannelInv, b
<1> QED
  BY <1>2, <1>6, <1>7, <1>8

\* The reports of the network queue are not loud.
LEMMA ReportsQuiet ==
  /\ ~Waits(<<>>, Loud)
  /\ \A op \in {"iceState", "dtlsState", "sctpState", "gathering"} : \A s :
        ~Waits(<<ItemOf(op, s)>>, Loud) /\ \A old : ~Waits(Reported(old, s, op), Loud)
<1>1. ~Waits(<<>>, Loud)
  BY WaitsOne
<1>2. ASSUME NEW op \in {"iceState", "dtlsState", "sctpState", "gathering"}, NEW s
      PROVE ~Waits(<<ItemOf(op, s)>>, Loud) /\ \A old : ~Waits(Reported(old, s, op), Loud)
  BY <1>1, <1>2, WaitsOne DEF ItemOf, Loud, Reported
<1> QED
  BY <1>1, <1>2

\* The other closures of the network queue.
LEMMA NetworkChannels ==
  ASSUME TypeInv, ChannelInv, Network
  PROVE ChannelInv'
<1>1. tr = [f \in TrFields |-> tr[f]] /\ reply = [t \in Threads |-> reply[t]]
      /\ blocked = [t \in Threads |-> blocked[t]] /\ queue["sig"] \in Seq(SigItems)
      /\ queue = [q \in Queues |-> queue[q]]
  BY DEF TypeInv
<1>2. CASE ResumeHandshake
  <2>1. /\ pc' = pc /\ blocked' = [blocked EXCEPT !["net"] = Idle]
        /\ reply' = [reply EXCEPT !["net"] = NoReply]
    BY <1>2 DEF ResumeHandshake
  <2>2. /\ blocked'["sig"] = blocked["sig"] /\ blocked'["app"] = blocked["app"]
        /\ reply'["sig"] = reply["sig"] /\ reply'["app"] = reply["app"]
    BY <1>1, <2>1 DEF Threads, Queues
  <2>3. tr'.role = tr.role
    BY <1>1, <1>2 DEF ResumeHandshake, TrFields
  <2>4. PICK posts \in {<<>>, <<ItemOf("dtlsState", "CONNECTED")>>} :
          /\ queue'["sig"] = queue["sig"] \o posts
          /\ queue'["net"] = queue["net"] /\ queue'["wrk"] = queue["wrk"]
    <3>1. ItemOf("dtlsState", "CONNECTED") \in SigItems
      BY DEF ItemOf, SigItems, States
    <3>2. /\ queue["sig"] = queue["sig"] \o <<>>
          /\ Append(queue["sig"], ItemOf("dtlsState", "CONNECTED"))
               = queue["sig"] \o <<ItemOf("dtlsState", "CONNECTED")>>
      BY <1>1, <3>1, ConcatEmptySeq, AppendIsConcat
    <3>3. \/ queue' = queue
          \/ queue' = [queue EXCEPT !["sig"] = Append(@, ItemOf("dtlsState", "CONNECTED"))]
      BY <1>2 DEF ResumeHandshake
    <3> HIDE DEF ItemOf
    <3> QED
      BY <1>1, <3>2, <3>3 DEF Queues
  <2>5. posts \in Seq(SigItems) /\ ~Waits(posts, Loud)
    BY PostsType, ReportsQuiet DEF States
  <2>6. /\ Unheard(queue["sig"], queue'["sig"], SigWatched)
        /\ Waits(queue["sig"], {"role"}) => Waits(queue'["sig"], {"role"})
        /\ Told(queue["sig"], tr.role) => Told(queue'["sig"], tr.role)
    BY <1>1, <2>4, <2>5, QuietPosts
  <2>7. Unheard(queue["net"], queue'["net"], NetWatched)
    BY <2>4 DEF Unheard
  <2> QED
    BY <2>1, <2>2, <2>3, <2>4, <2>6, <2>7, QuietElsewhere
<1>3. ASSUME queue["net"] # <<>>,
             reply'["sig"] = reply["sig"],
             reply'["app"] = reply["app"] \/ First("net").op = "closeTransports",
             \E t, posts : /\ NetDone(t, posts) /\ t.role = tr.role
                           /\ posts \in Seq(SigItems) /\ ~Waits(posts, Loud)
      PROVE ChannelInv'
  BY <1>3, NetQuiet
<1>4. CASE Ready("net") /\ ~ResumeHandshake
  <2>1. queue["net"] # <<>> /\ First("net") \in NetItems
    BY <1>4, FirstType DEF Ready
  <2>2. reply' = reply => reply'["sig"] = reply["sig"] /\ reply'["app"] = reply["app"]
    OBVIOUS
  <2>3. <<>> \in Seq(SigItems) /\ ~Waits(<<>>, Loud)
    BY PostsType, ReportsQuiet
  <2>4. /\ \A v : [tr EXCEPT !.ice = v].role = tr.role /\ [tr EXCEPT !.gathering = v].role = tr.role
                  /\ [tr EXCEPT !.dtls = v].role = tr.role /\ [tr EXCEPT !.sctp = v].role = tr.role
                  /\ [tr EXCEPT !.timer = v].role = tr.role
        /\ \A v, w : [tr EXCEPT !.timer = v, !.ice = w].role = tr.role
                     /\ [tr EXCEPT !.sctp = v, !.sctp_made = w].role = tr.role
        /\ [tr EXCEPT !.dtls = "CONNECTING", !.dtls_made = @ + 1, !.verified = FALSE].role = tr.role
        /\ [tr EXCEPT !.ice = "none", !.dtls = "none", !.sctp = "none", !.timer = "off"].role = tr.role
    BY <1>1 DEF TrFields
  <2>5. CASE NewIceTransport \/ NewSctpTransport
    BY <1>3, <2>1, <2>2, <2>3, <2>4, <2>5 DEF NewIceTransport, NewSctpTransport
  <2>6. CASE Query
    BY <2>1, <2>6, QueryTells
  <2>7. CASE SetRemoteIce
    BY <2>1, <2>7, RoleSettled
  <2>8. CASE Gather
    <3> DEFINE posts == IF tr.gathering = "GATHERING" THEN <<>> ELSE <<ItemOf("gathering", "GATHERING")>>
    <3>1. /\ reply' = reply
          /\ NetDone(tr, <<>>) \/ NetDone([tr EXCEPT !.gathering = "GATHERING"], posts)
      BY <2>8 DEF Gather, WithIce, NetFails
    <3>2. posts \in Seq(SigItems) /\ ~Waits(posts, Loud)
      BY PostsType, ReportsQuiet
    <3> HIDE DEF posts
    <3> QED
      BY <1>3, <2>1, <2>2, <2>3, <2>4, <3>1, <3>2
  <2>9. CASE AddIceCandidate
    BY <1>3, <2>1, <2>2, <2>3, <2>9 DEF AddIceCandidate, WithIce, NetFails
  <2>10. CASE OnIceEvent
    <3> DEFINE state == First("net").arg
               timer == IF state \in {"CONNECTED", "timeout"} THEN "off" ELSE tr.timer
               to == IF state = "timeout" THEN "FAILED" ELSE state
               posts == IF to = "COMPLETED" THEN <<>> ELSE Reported(tr.ice, to, "iceState")
    <3>1. \/ NetDone(tr, <<>>)
          \/ NetDone([tr EXCEPT !.timer = "armed"], <<>>)
          \/ NetDone([tr EXCEPT !.timer = timer, !.ice = to], posts)
      BY <2>10 DEF OnIceEvent, OfIce, NetFails
    <3>2. to \in States
      BY <2>1, <2>10 DEF OnIceEvent, NetItems, PlainNet, States
    <3>3. reply' = reply
      BY <2>10 DEF OnIceEvent
    <3> HIDE DEF timer, to
    <3>4. posts \in Seq(SigItems) /\ ~Waits(posts, Loud)
      BY <3>2, PostsType, ReportsQuiet
    <3> HIDE DEF posts
    <3> QED
      BY <1>3, <2>1, <2>2, <2>3, <2>4, <3>1, <3>3, <3>4
  <2>11. CASE OnGatheringDone
    <3> DEFINE posts == Reported(tr.gathering, "COMPLETED", "gathering")
    <3>1. /\ reply' = reply
          /\ NetDone(tr, <<>>) \/ NetDone([tr EXCEPT !.gathering = "COMPLETED"], posts)
      BY <2>11 DEF OnGatheringDone, OfIce, NetFails
    <3>2. posts \in Seq(SigItems) /\ ~Waits(posts, Loud)
      BY PostsType, ReportsQuiet
    <3> HIDE DEF posts
    <3> QED
      BY <1>3, <2>1, <2>2, <2>3, <2>4, <3>1, <3>2
  <2>12. CASE NewDtlsTransport
    <3> DEFINE t == [tr EXCEPT !.dtls = "CONNECTING", !.dtls_made = @ + 1, !.verified = FALSE]
    <3>1. (NetDone(tr, <<>>) \/ NetDone(t, <<>>)) /\ reply' = reply
      BY <2>12 DEF NewDtlsTransport, WithIce, NetFails
    <3>2. t.role = tr.role
      BY <2>4
    <3> HIDE DEF t
    <3> QED
      BY <1>3, <2>1, <2>2, <2>3, <3>1, <3>2
  <2>13. CASE OnHandshakePacket
    <3> DEFINE up == <<ItemOf("dtlsState", "CONNECTED")>>
               down == <<ItemOf("dtlsState", "FAILED")>>
               verify == InvokeOf("verify", "net")
    <3>1. reply' = reply
      BY <2>13 DEF OnHandshakePacket
    <3>2. \/ NetDone(tr, <<>>)
          \/ NetDone([tr EXCEPT !.dtls = "CONNECTED"], up)
          \/ NetDone([tr EXCEPT !.dtls = "FAILED"], down)
          \/ /\ blocked' = [blocked EXCEPT !["net"] = Item("handshake")]
             /\ queue' = [Taken("net") EXCEPT !["sig"] = Append(@, verify)]
             /\ UNCHANGED <<pc, tr>>
      BY <2>13 DEF OnHandshakePacket, OfIce, NetFails
    <3>3. up \in Seq(SigItems) /\ ~Waits(up, Loud) /\ down \in Seq(SigItems) /\ ~Waits(down, Loud)
      BY PostsType, ReportsQuiet DEF States
    <3>4. verify \in SigItems /\ verify.op \notin Loud
      BY DEF InvokeOf, SigItems, Loud
    <3> HIDE DEF up, down, verify
    <3>5. CASE \/ NetDone(tr, <<>>)
               \/ NetDone([tr EXCEPT !.dtls = "CONNECTED"], up)
               \/ NetDone([tr EXCEPT !.dtls = "FAILED"], down)
      BY <1>3, <2>1, <2>2, <2>3, <2>4, <3>1, <3>3, <3>5
    <3>6. CASE /\ blocked' = [blocked EXCEPT !["net"] = Item("handshake")]
               /\ queue' = [Taken("net") EXCEPT !["sig"] = Append(@, verify)]
               /\ UNCHANGED <<pc, tr>>
      <4>1. /\ queue'["net"] = Tail(queue["net"]) /\ queue'["sig"] = Append(queue["sig"], verify)
            /\ queue'["wrk"] = queue["wrk"]
        <5>1. Taken("net")["wrk"] = queue["wrk"]
          BY <1>1 DEF Taken, Queues
        <5> HIDE DEF Taken
        <5> QED
          BY <2>1, <3>6, <5>1, FirstType DEF Queues
      <4>2. queue'["sig"] = queue["sig"] \o <<verify>> /\ <<verify>> \in Seq(SigItems)
        BY <1>1, <3>4, <4>1, AppendIsConcat
      <4>3. ~Waits(<<verify>>, Loud)
        BY <3>4, WaitsOne
      <4>4. /\ Unheard(queue["sig"], queue'["sig"], SigWatched)
            /\ Waits(queue["sig"], {"role"}) => Waits(queue'["sig"], {"role"})
            /\ Told(queue["sig"], tr.role) => Told(queue'["sig"], tr.role)
        BY <1>1, <4>2, <4>3, QuietPosts
      <4>5. Unheard(queue["net"], queue'["net"], NetWatched)
        BY <2>1, <4>1, NetTail
      <4>6. blocked'["sig"] = blocked["sig"] /\ blocked'["app"] = blocked["app"]
        BY <1>1, <3>6 DEF Threads, Queues
      <4> QED
        BY <3>1, <3>6, <4>1, <4>4, <4>5, <4>6, QuietElsewhere
    <3> QED
      BY <3>2, <3>5, <3>6
  <2>14. CASE OnSctpEvent
    <3> DEFINE state == First("net").arg
               posts == Reported(tr.sctp, state, "sctpState")
    <3>1. state \in States
      BY <2>1, <2>14 DEF OnSctpEvent, NetItems, PlainNet, States
    <3>2. NetDone(tr, <<>>) \/ NetDone([tr EXCEPT !.sctp = state], posts)
      BY <2>14 DEF OnSctpEvent
    <3>3. reply' = reply
      BY <2>14 DEF OnSctpEvent
    <3> HIDE DEF state
    <3>4. posts \in Seq(SigItems) /\ ~Waits(posts, Loud)
      BY <3>1, PostsType, ReportsQuiet
    <3> HIDE DEF posts
    <3> QED
      BY <1>3, <2>1, <2>2, <2>3, <2>4, <3>2, <3>3, <3>4
  <2>15. CASE CloseTransports
    <3> DEFINE a == IF tr.sctp \in {"none", "DISCONNECTED"} THEN <<>>
                    ELSE <<ItemOf("sctpState", "DISCONNECTED")>>
               b == IF tr.dtls = "none" THEN <<>> ELSE <<ItemOf("dtlsState", "DISCONNECTED")>>
               t == [tr EXCEPT !.ice = "none", !.dtls = "none", !.sctp = "none", !.timer = "off"]
    <3>1. /\ NetDone(t, a \o b) /\ reply' = [reply EXCEPT !["app"] = "yes"]
          /\ First("net").op = "closeTransports"
      BY <2>15 DEF CloseTransports, Answer
    <3>2. a \in Seq(SigItems) /\ b \in Seq(SigItems) /\ ~Waits(a, Loud) /\ ~Waits(b, Loud)
      BY PostsType, ReportsQuiet DEF States
    <3>3. t.role = tr.role
      BY <2>4
    <3> HIDE DEF a, b, t
    <3>4. a \o b \in Seq(SigItems) /\ ~Waits(a \o b, Loud)
      BY <3>2, ConcatProperties, WaitsConcat
    <3>5. reply'["sig"] = reply["sig"]
      BY <1>1, <3>1 DEF Threads, Queues
    <3> QED
      BY <1>3, <2>1, <3>1, <3>3, <3>4, <3>5
  <2> QED
    BY <1>4, <2>5, <2>6, <2>7, <2>8, <2>9, <2>10, <2>11, <2>12, <2>13, <2>14, <2>15 DEF Network
<1> QED
  BY <1>2, <1>4 DEF Network

\* The worker queue, and the events from outside.
LEMMA OutsideChannels ==
  ASSUME TypeInv, ChannelInv, Worker \/ World
  PROVE ChannelInv'
<1>1. /\ tr = [f \in TrFields |-> tr[f]] /\ reply = [t \in Threads |-> reply[t]]
      /\ queue = [q \in Queues |-> queue[q]] /\ queue["net"] \in Seq(NetItems)
  BY DEF TypeInv
<1>2. \A s, W : Unheard(s, s, W)
  BY DEF Unheard
<1>3. CASE Worker
  BY <1>1, <1>2, <1>3, ClearConcat, QuietElsewhere
     DEF Worker, Ready, OnNegotiated, ClearCall, Answer, Taken, Queues, First, Threads, ChannelInv, OneCall, CallAlone
<1>4. CASE World
  <2> DEFINE E == {"iceEvent", "gatheringDone", "packet", "sctpEvent"}
  <2>1. PICK item \in NetItems : Event(item) /\ item.op \in E
    <3>1. /\ \A s \in AgentSteps : ItemOf("iceEvent", s[2]) \in NetItems
          /\ ItemOf("iceEvent", "timeout") \in NetItems
      BY DEF AgentSteps, ItemOf, NetItems, States
    <3>2. /\ Item("gatheringDone") \in NetItems /\ Item("packet") \in NetItems
          /\ ItemOf("sctpEvent", "CONNECTED") \in NetItems
          /\ ItemOf("sctpEvent", "DISCONNECTED") \in NetItems
      BY DEF Item, ItemOf, NetItems
    <3>3. /\ \A s : ItemOf("iceEvent", s).op = "iceEvent" /\ ItemOf("sctpEvent", s).op = "sctpEvent"
          /\ Item("gatheringDone").op = "gatheringDone" /\ Item("packet").op = "packet"
      BY DEF Item, ItemOf
    <3> HIDE DEF NetItems
    <3> QED
      BY <1>4, <3>1, <3>2, <3>3 DEF World
  <2>2. tr' = tr \/ tr' = [tr EXCEPT !.timer = "fired"]
    BY <1>4 DEF World
  <2>3. tr'.role = tr.role
    BY <1>1, <2>2 DEF TrFields
  <2>4. queue' = [queue EXCEPT !["net"] = Append(@, item)] /\ UNCHANGED <<blocked, reply, pc>>
    BY <2>1 DEF Event
  <2>5. /\ queue'["sig"] = queue["sig"] /\ queue'["wrk"] = queue["wrk"]
        /\ queue'["net"] = Append(queue["net"], item)
    BY <1>1, <2>4 DEF Queues
  <2>6. queue'["net"] = queue["net"] \o <<item>> /\ <<item>> \in Seq(NetItems)
    BY <1>1, <2>5, AppendIsConcat
  <2>7. \A O \in NetWatched : ~Waits(<<item>>, O)
    BY <2>1, WaitsOne DEF NetWatched, Queries
  <2>8. Unheard(queue["net"], queue'["net"], NetWatched)
    <3>1. \A O : /\ Waits(queue["net"] \o <<item>>, O) <=> Waits(queue["net"], O) \/ Waits(<<item>>, O)
                 /\ Sole(queue["net"], O) /\ ~Waits(<<item>>, O) => Sole(queue["net"] \o <<item>>, O)
      BY <1>1, <2>6, WaitsConcat
    <3> QED
      BY <2>6, <2>7, <3>1 DEF Unheard
  <2> QED
    BY <1>2, <2>3, <2>4, <2>5, <2>8, QuietElsewhere
<1> QED
  BY <1>3, <1>4

\* The application's thread posts closures that settle no role.
LEMMA AppPosts ==
  ASSUME TypeInv, ChannelInv, pc' = pc, tr' = tr, reply'["sig"] = reply["sig"],
         blocked'["sig"] = blocked["sig"],
         NEW posts \in Seq(SigItems), queue'["sig"] = queue["sig"] \o posts, ~Waits(posts, {"role"}),
         NEW asks \in Seq(NetItems), queue'["net"] = queue["net"] \o asks,
         ~Waits(asks, Queries), ~Waits(asks, {"setRemote"}),
         AddAlone(pc, queue'["sig"], queue["net"], blocked["sig"]),
         OneCall(queue["sig"], queue["net"], queue["wrk"], blocked["sig"], reply["app"], blocked["app"])'
  PROVE ChannelInv'
<1> DEFINE sig == queue["sig"]
           net == queue["net"]
           b == blocked["sig"]
<1>1. /\ Numbered(pc) /\ RemoteKnown(pc) /\ Parity(pc, tr.role, sig) /\ RoleTold(tr.role, sig)
      /\ Asked(net, b, reply["sig"], tr.role)
  BY DEF ChannelInv
<1>2. /\ \A O : /\ Waits(sig \o posts, O) <=> Waits(sig, O) \/ Waits(posts, O)
                /\ Sole(sig, O) /\ ~Waits(posts, O) => Sole(sig \o posts, O)
      /\ \A r : Told(sig, r) /\ Told(posts, r) => Told(sig \o posts, r)
  BY WaitsConcat DEF TypeInv
<1>3. \A O : /\ Waits(net \o asks, O) <=> Waits(net, O) \/ Waits(asks, O)
             /\ Sole(net, O) /\ ~Waits(asks, O) => Sole(net \o asks, O)
  BY WaitsConcat DEF TypeInv
<1>4. Told(posts, tr.role)
  BY DEF Told, Waits
<1>5. ~Waits(asks, Queries \ {"role"})
  BY WaitsMonotonic
<1> HIDE DEF sig, net, b
<1>6. RoleTold(tr'.role, queue'["sig"]) /\ Parity(pc', tr'.role, queue'["sig"])
  BY <1>1, <1>2, <1>4 DEF RoleTold, Parity, sig
<1>7. Asked(queue'["net"], b, reply'["sig"], tr'.role)
  BY <1>1, <1>3, <1>5 DEF Asked, net
<1>8. AddAlone(pc', queue'["sig"], queue'["net"], b)
  BY <1>3 DEF AddAlone, net, b
<1> QED
  BY <1>1, <1>6, <1>7, <1>8 DEF ChannelInv, b

\* The calls of the application: it waits in none, and adds no channel while a description
\* is on its way.
LEMMA ApplicationChannels ==
  ASSUME ~RacingAdd, TypeInv, ChannelInv, Application
  PROVE ChannelInv'
<1> DEFINE sig == queue["sig"]
           net == queue["net"]
           b == blocked["sig"]
<1>1. /\ blocked = [t \in Threads |-> blocked[t]] /\ queue = [q \in Queues |-> queue[q]]
      /\ sig \in Seq(SigItems) /\ net \in Seq(NetItems)
  BY DEF TypeInv
<1>2. blocked["app"] = Idle /\ Idle.op = "idle" /\ ~Closing
  BY DEF Application, Call, MayCall, Closing, Idle
<1>3. /\ AddAlone(pc, sig, net, b)
      /\ CallAlone(sig, net, queue["wrk"], b, reply["app"], Idle)
  BY <1>2 DEF ChannelInv, OneCall
<1>4. /\ ~Waits(sig, Adds) /\ b.op \notin AddParts /\ reply["app"] = NoReply
      /\ ~Waits(sig, {"addChannel"}) /\ ~Adding(sig, b)
  BY <1>3, WaitsMonotonic DEF CallAlone, Adds, Adding
<1>5. <<>> \in Seq(NetItems) /\ (\A O : ~Waits(<<>>, O)) /\ net = net \o <<>> /\ sig = sig \o <<>>
      /\ <<>> \in Seq(SigItems)
  BY <1>1, EmptySeq, WaitsOne, ConcatEmptySeq
<1>6. ASSUME NEW item \in SigItems, NEW wait, Call("sig", item, wait),
             item.op \notin {"role", "close"}, wait.op \in {"idle", "call"},
             item.op \in Adds => wait # Idle,
             item.op = "addChannel" => /\ ~Waits(sig, {"setRemoteDescription", "role"})
                                       /\ ~Waits(net, {"setRemote"}) /\ Len(pc.stream_id) < MaxChannels
      PROVE ChannelInv'
  <2>1. /\ queue' = [queue EXCEPT !["sig"] = Append(@, item)]
        /\ blocked' = [blocked EXCEPT !["app"] = wait] /\ UNCHANGED <<reply, pc, tr>>
    BY <1>6 DEF Call
  <2>2. /\ queue'["sig"] = Append(sig, item) /\ queue'["net"] = net /\ queue'["wrk"] = queue["wrk"]
        /\ blocked'["app"] = wait /\ blocked'["sig"] = b
    BY <1>1, <2>1 DEF Queues, Threads
  <2>3. queue'["sig"] = sig \o <<item>> /\ <<item>> \in Seq(SigItems)
    BY <1>1, <2>2, AppendIsConcat
  <2>4. \A O : /\ Waits(<<item>>, O) <=> item.op \in O
               /\ Sole(<<item>>, O)
    BY WaitsOne
  <2>5. \A O : /\ Waits(queue'["sig"], O) <=> Waits(sig, O) \/ item.op \in O
               /\ ~Waits(sig, O) => Sole(queue'["sig"], O)
    <3>1. \A O : /\ Waits(sig \o <<item>>, O) <=> Waits(sig, O) \/ Waits(<<item>>, O)
                 /\ ~Waits(sig, O) /\ Sole(<<item>>, O) => Sole(sig \o <<item>>, O)
      BY <1>1, <2>3, WaitsConcat
    <3> QED
      BY <2>3, <2>4, <3>1
  <2>6. ~Waits(<<item>>, {"role"})
    BY <1>6, <2>4
  <2> HIDE DEF sig, net, b
  <2>7. AddAlone(pc, queue'["sig"], net, b)
    BY <1>4, <1>6, <2>5 DEF AddAlone, Adding, AddParts
  <2>8. ~Closing'
    BY <1>6, <2>2 DEF Closing
  <2>9. CallAlone(queue'["sig"], queue'["net"], queue'["wrk"], blocked'["sig"], reply'["app"], blocked'["app"])
    BY <1>3, <1>4, <1>6, <2>1, <2>2, <2>5 DEF CallAlone
  <2>10. OneCall(queue["sig"], queue["net"], queue["wrk"], blocked["sig"], reply["app"], blocked["app"])'
    BY <2>8, <2>9 DEF OneCall
  <2>11. queue'["net"] = queue["net"] \o <<>>
    BY <1>5, <2>2 DEF net
  <2> QED
    BY <1>5, <2>1, <2>2, <2>3, <2>6, <2>7, <2>10, <2>11, AppPosts DEF sig, net, b
<1>7. CASE Call("wrk", Item("clear"), Item("close1"))
  BY <1>1, <1>3, <1>4, <1>5, <1>7, AppPosts DEF Call, Queues, Threads, Closing, Item, OneCall
<1>8. /\ \A op \in {"createOffer", "createAnswer", "candidate", "addChannel"} :
           Item(op) \in SigItems /\ Item(op).op = op
      /\ \A d \in RemoteDescriptions : /\ ItemOf("setRemoteDescription", d) \in SigItems
                                       /\ ItemOf("setRemoteDescription", d).op = "setRemoteDescription"
      /\ \A mid \in Mids : ItemOf("addTrack", mid) \in SigItems /\ ItemOf("addTrack", mid).op = "addTrack"
      /\ Item("call").op = "call" /\ Item("call") # Idle
      /\ Adds = {"addTrack", "addChannel"}
  BY <1>2 DEF Item, ItemOf, SigItems, Adds
<1>9. ASSUME NEW op \in {"createOffer", "createAnswer", "candidate"}, Call("sig", Item(op), Idle)
      PROVE ChannelInv'
  <2> HIDE DEF Call
  <2> QED
    BY <1>2, <1>6, <1>8, <1>9
<1>10. ASSUME NEW d \in RemoteDescriptions, Call("sig", ItemOf("setRemoteDescription", d), Idle)
       PROVE ChannelInv'
  <2> HIDE DEF Call
  <2> QED
    BY <1>2, <1>6, <1>8, <1>10
<1>11. ASSUME NEW mid \in Mids, Call("sig", ItemOf("addTrack", mid), Item("call"))
       PROVE ChannelInv'
  <2> HIDE DEF Call
  <2> QED
    BY <1>2, <1>6, <1>8, <1>11
<1>12. ASSUME Len(pc.stream_id) < MaxChannels, ~DescriptionUnderWay,
              Call("sig", Item("addChannel"), Item("call"))
       PROVE ChannelInv'
  <2>1. ~Waits(sig, {"setRemoteDescription", "role"}) /\ ~Waits(net, {"setRemote"})
    BY <1>1, <1>12, LenProperties DEF DescriptionUnderWay, Waits
  <2> HIDE DEF Call
  <2> QED
    BY <1>2, <1>6, <1>8, <1>12, <2>1
<1> QED
  BY <1>7, <1>9, <1>10, <1>11, <1>12 DEF Application

\* An Invoke of the application returns.
LEMMA ReturnsChannels ==
  ASSUME TypeInv, ChannelInv, Returns
  PROVE ChannelInv'
<1> DEFINE sig == queue["sig"]
           net == queue["net"]
           b == blocked["sig"]
<1>1. /\ blocked = [t \in Threads |-> blocked[t]] /\ queue = [q \in Queues |-> queue[q]]
      /\ reply = [t \in Threads |-> reply[t]] /\ sig \in Seq(SigItems) /\ net \in Seq(NetItems)
  BY DEF TypeInv
<1>2. /\ UNCHANGED <<pc, tr>> /\ reply' = [reply EXCEPT !["app"] = NoReply] /\ reply["app"] # NoReply
  BY DEF Returns
<1>3. reply'["app"] = NoReply /\ reply'["sig"] = reply["sig"]
  BY <1>1, <1>2 DEF Threads, Queues
<1>4. /\ <<>> \in Seq(NetItems) /\ <<>> \in Seq(SigItems) /\ net = net \o <<>> /\ sig = sig \o <<>>
      /\ \A O : ~Waits(<<>>, O)
  BY <1>1, EmptySeq, WaitsOne, ConcatEmptySeq
<1>5. AddAlone(pc, sig, net, b) /\ OneCall(sig, net, queue["wrk"], b, reply["app"], blocked["app"])
  BY DEF ChannelInv
<1>6. CASE /\ blocked["app"].op = "call"
           /\ blocked' = [blocked EXCEPT !["app"] = Idle] /\ UNCHANGED queue
  BY <1>1, <1>2, <1>3, <1>4, <1>5, <1>6, AppPosts DEF Threads, Queues, Closing, Idle, OneCall, CallAlone
<1>7. ASSUME NEW op \in {"close2", "close3", "closed"}, blocked["app"].op \in {"close1", "close2", "close3"},
             blocked' = [blocked EXCEPT !["app"] = Item(op)],
             \/ queue' = queue
             \/ queue' = [queue EXCEPT !["net"] = Append(@, Item("closeTransports"))]
             \/ queue' = [queue EXCEPT !["sig"] = Append(@, Item("close"))]
      PROVE ChannelInv'
  <2>1. blocked'["app"] = Item(op) /\ blocked'["sig"] = b /\ Closing /\ Closing'
    BY <1>1, <1>7 DEF Threads, Queues, Closing, Item
  <2>2. ~Adding(sig, b)
    BY <1>5, <2>1 DEF OneCall
  <2>3. PICK posts \in {<<>>, <<Item("close")>>}, asks \in {<<>>, <<Item("closeTransports")>>} :
          queue'["sig"] = sig \o posts /\ queue'["net"] = net \o asks
    <3>1. Item("close") \in SigItems /\ Item("closeTransports") \in NetItems
      BY DEF Item, SigItems, NetItems
    <3>2. /\ Append(sig, Item("close")) = sig \o <<Item("close")>>
          /\ Append(net, Item("closeTransports")) = net \o <<Item("closeTransports")>>
      BY <1>1, <3>1, AppendIsConcat
    <3>3. \/ queue'["sig"] = sig /\ queue'["net"] = net
          \/ queue'["sig"] = sig /\ queue'["net"] = Append(net, Item("closeTransports"))
          \/ queue'["sig"] = Append(sig, Item("close")) /\ queue'["net"] = net
      BY <1>1, <1>7 DEF Queues
    <3> HIDE DEF sig, net, Item
    <3> QED
      BY <1>4, <3>2, <3>3
  <2>4. /\ posts \in Seq(SigItems) /\ \A O : Waits(posts, O) => "close" \in O
    <3> DEFINE e == Item("close")
    <3>1. e \in SigItems /\ e.op = "close"
      BY DEF Item, SigItems
    <3>2. posts \in {<<>>, <<e>>}
      OBVIOUS
    <3> HIDE DEF e
    <3>3. <<e>> \in Seq(SigItems) /\ \A O : Waits(<<e>>, O) <=> "close" \in O
      BY <3>1, WaitsOne
    <3> QED
      BY <1>4, <3>2, <3>3
  <2>5. /\ asks \in Seq(NetItems) /\ \A O : Waits(asks, O) => "closeTransports" \in O
    <3> DEFINE e == Item("closeTransports")
    <3>1. e \in NetItems /\ e.op = "closeTransports"
      BY DEF Item, NetItems
    <3>2. asks \in {<<>>, <<e>>}
      OBVIOUS
    <3> HIDE DEF e
    <3>3. <<e>> \in Seq(NetItems) /\ \A O : Waits(<<e>>, O) <=> "closeTransports" \in O
      BY <3>1, WaitsOne
    <3> QED
      BY <1>4, <3>2, <3>3
  <2>6. ~Waits(posts, {"role"}) /\ ~Waits(posts, {"addChannel"}) /\ ~Waits(asks, Queries)
        /\ ~Waits(asks, {"setRemote"})
    BY <2>4, <2>5 DEF Queries
  <2>7. Waits(queue'["sig"], {"addChannel"}) => Waits(sig, {"addChannel"})
    BY <1>1, <2>3, <2>4, <2>6, WaitsConcat
  <2>8. ~Adding(queue'["sig"], b)
    BY <2>2, <2>7 DEF Adding
  <2>9. AddAlone(pc, queue'["sig"], net, b)
    BY <2>8 DEF AddAlone, Adding, AddParts
  <2>10. OneCall(queue["sig"], queue["net"], queue["wrk"], blocked["sig"], reply["app"], blocked["app"])'
    BY <2>1, <2>8 DEF OneCall
  <2> QED
    BY <1>2, <1>3, <2>1, <2>3, <2>4, <2>5, <2>6, <2>9, <2>10, AppPosts
<1> QED
  BY <1>6, <1>7 DEF Returns

\* Every closure of the signaling queue.
LEMMA SignalingChannels ==
  ASSUME TypeInv, ChannelInv, Signaling
  PROVE ChannelInv'
  BY QuietClosures, AddAsks, AddNumbers, AddReturns, ShiftKeeps DEF Ready, Signaling

\* Every step keeps the ids apart.
LEMMA ChannelStep ==
  ASSUME ~RacingAdd, TypeInv, ChannelInv, [Next]_vars
  PROVE ChannelInv'
  BY SignalingChannels, NetworkChannels, OutsideChannels, ApplicationChannels, ReturnsChannels
     DEF vars, ChannelInv, OneCall, Closing, Next

\* There are no channels, and the constructor's closure is the only one.
LEMMA ChannelInit == Init => ChannelInv
<1> SUFFICES ASSUME Init PROVE ChannelInv
  OBVIOUS
<1>1. /\ queue["sig"] = <<Item("initIce")>> /\ queue["net"] = <<>> /\ queue["wrk"] = <<>>
      /\ blocked["sig"] = Idle /\ blocked["app"] = Idle /\ reply["sig"] = NoReply /\ reply["app"] = NoReply
      /\ tr.role = "ACT_PASS" /\ pc.stream_id = <<>> /\ pc.data_channels = {} /\ pc.closed = {}
      /\ pc.remote_sdp = None
  BY DEF Init, Queues, Threads
<1>2. Item("initIce").op = "initIce" /\ Idle.op = "idle"
  BY DEF Item, Idle
<1>3. /\ \A O : Waits(queue["sig"], O) <=> "initIce" \in O
      /\ \A O : Sole(queue["sig"], O) /\ ~Waits(queue["net"], O) /\ Sole(queue["net"], O)
      /\ Told(queue["sig"], tr.role)
  BY <1>1, <1>2, WaitsOne
<1>4. Numbered(pc) /\ RemoteKnown(pc) /\ Parity(pc, tr.role, queue["sig"])
  BY <1>1, EmptySeq, ChannelsAssumption DEF Numbered, RemoteKnown, Parity
<1>5. RoleTold(tr.role, queue["sig"])
  BY <1>1, <1>3 DEF RoleTold, Roles
<1>6. Asked(queue["net"], blocked["sig"], reply["sig"], tr.role)
  BY <1>1, <1>2, <1>3 DEF Asked
<1>7. ~Adding(queue["sig"], blocked["sig"]) /\ ~Waits(queue["sig"], {"addChannel"})
  BY <1>1, <1>2, <1>3 DEF Adding, AddParts
<1>8. AddAlone(pc, queue["sig"], queue["net"], blocked["sig"])
  BY <1>1, <1>2, <1>7 DEF AddAlone
<1>9. NoClear(queue["wrk"])
  BY <1>1, ClearConcat
<1>10. OneCall(queue["sig"], queue["net"], queue["wrk"], blocked["sig"], reply["app"], blocked["app"])
  BY <1>1, <1>2, <1>3, <1>9 DEF Closing, Adds, AddParts, OneCall, CallAlone
<1> QED
  BY <1>4, <1>5, <1>6, <1>8, <1>10 DEF ChannelInv

\* Data channels that were not told to close have distinct stream ids: AddDataChannel finds a
\* free id, OnRoleChanged moves the ids once, all of them, and no channel is given an id of
\* the other parity in between.  The application must not add channels while a description is
\* on its way: one numbered for the new role before the ids are shifted may share its id.
THEOREM ChannelsApart == ~RacingAdd => (Spec => []StreamIdsDistinct)
<1> SUFFICES ASSUME ~RacingAdd PROVE Spec => []StreamIdsDistinct
  OBVIOUS
<1>1. NegotiationInv /\ [Next]_vars => NegotiationInv'
  BY NegotiationStep
<1>2. NegotiationInv /\ ChannelInv /\ [Next]_vars => ChannelInv'
  BY ChannelStep DEF NegotiationInv
<1>3. ChannelInv => StreamIdsDistinct
  <2> SUFFICES ASSUME ChannelInv PROVE StreamIdsDistinct
    OBVIOUS
  <2>1. Numbered(pc)
    BY DEF ChannelInv
  <2> QED
    BY <2>1 DEF Numbered, StreamIdsDistinct
<1> QED
  BY <1>1, <1>2, <1>3, NegotiationInit, ChannelInit, PTL DEF Spec

-----------------------------------------------------------------------------
(* The first connection is reported.  It goes from queue to queue: the agent *)
(* reports to the network queue, which tells the signaling queue, which has  *)
(* the network queue make the DTLS transport, and so on to SCTP.  Each leg   *)
(* has its closure, and the invariant says where the connection is, what can *)
(* still arrive before it, and that the last report is a good one.           *)

\* The closures the invariant is about.
SigWatch == {"initIce", "iceState", "dtlsState", "sctpState"}
NetWatch == {"newIce", "iceEvent", "newDtls", "newSctp"}
AgentDone == ItemOf("iceEvent", "COMPLETED")
Timeout == ItemOf("iceEvent", "timeout")
Watched == {NewIce, AgentUp, AgentDone, Timeout, NewDtls, NewSctp}
AgentDown == {ItemOf("iceEvent", s) : s \in {"CONNECTING", "FAILED", "DISCONNECTED"}}
BadReports == {ItemOf(op, s) : op \in {"iceState", "dtlsState", "sctpState"}, s \in States \ {"CONNECTED"}}

\* The states of an agent that is connected.
Connections == {"CONNECTED", "COMPLETED"}

\* Behind the closure at place i waits x.
HasAfter(s, i, x) == \E j \in 1..Len(s) : i < j /\ s[j] = x

\* Every x has y behind it, or none has.
Follows(s, x, y) == \A i \in 1..Len(s) : s[i] = x => HasAfter(s, i, y)
Never(s, x, y) == \A i \in 1..Len(s) : s[i] = x => ~HasAfter(s, i, y)

\* Behind what says that the agent is not connected comes its connection, or it is not connected now.
DownBefore(s, a) ==
    \A i \in 1..Len(s) : s[i] \in AgentDown =>
       HasAfter(s, i, AgentUp) \/ (a \notin Connections /\ ~HasAfter(s, i, AgentDone))

\* Report x waits with no bad one behind it; no bad one waits.
LastSaid(s, x) == \E i \in 1..Len(s) : s[i] = x /\ \A j \in 1..Len(s) : i < j => s[j] \notin BadReports
Clean(s) == \A j \in 1..Len(s) : s[j] \notin BadReports

\* The watched closures and their operations.
LEMMA WatchedOps ==
  /\ \A x \in SigTokens \cup BadReports : x.op \in SigWatch
  /\ \A x \in Watched \cup AgentDown : x.op \in NetWatch
  /\ AgentDone \notin AgentDown /\ AgentUp \notin AgentDown /\ Timeout \notin AgentDown
  /\ NewIce \notin AgentDown /\ NewDtls \notin AgentDown /\ NewSctp \notin AgentDown
  /\ SigTokens \cap BadReports = {}
  /\ AgentUp # AgentDone /\ AgentUp # Timeout /\ AgentDone # Timeout
  /\ Timeout # NewDtls /\ Timeout # NewIce /\ Timeout # NewSctp
  /\ AgentDone # NewDtls /\ AgentDone # NewIce /\ AgentDone # NewSctp
  BY DEF AgentDone, Timeout, AgentUp, NewIce, NewDtls, NewSctp, Item, ItemOf, AgentDown, BadReports, InitIce, IceUp, DtlsUp,
     SctpUp, SigTokens, SigWatch, Watched, NetWatch

\* The places of a queue that lost its first closure.
LEMMA TailAt ==
  ASSUME NEW S, NEW s \in Seq(S), s # <<>>
  PROVE /\ Len(s) \in Nat /\ Len(Tail(s)) = Len(s) - 1 /\ 1 \in 1..Len(s) /\ s[1] = Head(s)
        /\ \A i \in 1..Len(Tail(s)) : i + 1 \in 1..Len(s) /\ Tail(s)[i] = s[i + 1]
        /\ \A i \in 1..Len(s) : i # 1 => i - 1 \in 1..Len(Tail(s)) /\ Tail(s)[i - 1] = s[i]
  BY HeadTailProperties, LenProperties, EmptySeq

\* The places of a queue that got more closures.
LEMMA ConcatAt ==
  ASSUME NEW S, NEW s \in Seq(S), NEW p \in Seq(S)
  PROVE /\ Len(s) \in Nat /\ Len(p) \in Nat /\ Len(s \o p) = Len(s) + Len(p)
        /\ \A i \in 1..Len(s) : i \in 1..Len(s \o p) /\ (s \o p)[i] = s[i]
        /\ \A i \in 1..Len(p) : Len(s) + i \in 1..Len(s \o p) /\ (s \o p)[Len(s) + i] = p[i]
        /\ \A i \in 1..Len(s \o p) : i \in 1..Len(s) \/ i - Len(s) \in 1..Len(p)
  BY ConcatProperties, LenProperties

\* What waits behind a place when the first closure was taken.
LEMMA AfterTail ==
  ASSUME NEW S, NEW s \in Seq(S), s # <<>>, NEW i \in 1..Len(Tail(s)), NEW x
  PROVE HasAfter(Tail(s), i, x) <=> HasAfter(s, i + 1, x)
<1>1. /\ Len(s) \in Nat /\ Len(Tail(s)) = Len(s) - 1
      /\ \A k \in 1..Len(Tail(s)) : k + 1 \in 1..Len(s) /\ Tail(s)[k] = s[k + 1]
      /\ \A k \in 1..Len(s) : k # 1 => k - 1 \in 1..Len(Tail(s)) /\ Tail(s)[k - 1] = s[k]
  BY TailAt
<1>2. HasAfter(Tail(s), i, x) => HasAfter(s, i + 1, x)
  <2> SUFFICES ASSUME NEW j \in 1..Len(Tail(s)), i < j, Tail(s)[j] = x PROVE HasAfter(s, i + 1, x)
    BY DEF HasAfter
  <2>1. j + 1 \in 1..Len(s) /\ i + 1 < j + 1 /\ s[j + 1] = x
    BY <1>1
  <2> QED
    BY <2>1 DEF HasAfter
<1>3. HasAfter(s, i + 1, x) => HasAfter(Tail(s), i, x)
  <2> SUFFICES ASSUME NEW j \in 1..Len(s), i + 1 < j, s[j] = x PROVE HasAfter(Tail(s), i, x)
    BY DEF HasAfter
  <2>1. j - 1 \in 1..Len(Tail(s)) /\ i < j - 1 /\ Tail(s)[j - 1] = x
    BY <1>1
  <2> QED
    BY <2>1 DEF HasAfter
<1> QED
  BY <1>2, <1>3

\* What waits behind a place of a queue that got more closures.
LEMMA AfterConcat ==
  ASSUME NEW S, NEW s \in Seq(S), NEW p \in Seq(S), NEW i \in 1..Len(s), NEW x
  PROVE HasAfter(s \o p, i, x) <=> HasAfter(s, i, x) \/ In(p, x)
<1>1. /\ Len(s) \in Nat /\ Len(p) \in Nat /\ Len(s \o p) = Len(s) + Len(p)
      /\ \A k \in 1..Len(s) : k \in 1..Len(s \o p) /\ (s \o p)[k] = s[k]
      /\ \A k \in 1..Len(p) : Len(s) + k \in 1..Len(s \o p) /\ (s \o p)[Len(s) + k] = p[k]
      /\ \A k \in 1..Len(s \o p) : k \in 1..Len(s) \/ k - Len(s) \in 1..Len(p)
  BY ConcatAt
<1>2. HasAfter(s, i, x) => HasAfter(s \o p, i, x)
  BY <1>1 DEF HasAfter
<1>3. In(p, x) => HasAfter(s \o p, i, x)
  <2> SUFFICES ASSUME NEW j \in 1..Len(p), p[j] = x PROVE HasAfter(s \o p, i, x)
    BY DEF In
  <2>1. Len(s) + j \in 1..Len(s \o p) /\ i < Len(s) + j /\ (s \o p)[Len(s) + j] = x
    BY <1>1
  <2> QED
    BY <2>1 DEF HasAfter
<1>4. HasAfter(s \o p, i, x) => HasAfter(s, i, x) \/ In(p, x)
  <2> SUFFICES ASSUME NEW j \in 1..Len(s \o p), i < j, (s \o p)[j] = x PROVE HasAfter(s, i, x) \/ In(p, x)
    BY DEF HasAfter
  <2>1. CASE j \in 1..Len(s)
    BY <1>1, <2>1 DEF HasAfter
  <2>2. CASE j - Len(s) \in 1..Len(p)
    BY <1>1, <2>2 DEF In
  <2> QED
    BY <1>1, <2>1, <2>2
<1> QED
  BY <1>2, <1>3, <1>4

\* The last report, when the first closure was taken.
LEMMA LastTail ==
  ASSUME NEW S, NEW s \in Seq(S), s # <<>>
  PROVE /\ Clean(s) => Clean(Tail(s)) /\ Head(s) \notin BadReports
        /\ \A x : LastSaid(s, x) => LastSaid(Tail(s), x) \/ (Head(s) = x /\ Clean(Tail(s)))
<1>1. /\ Len(s) \in Nat /\ Len(Tail(s)) = Len(s) - 1 /\ 1 \in 1..Len(s) /\ s[1] = Head(s)
      /\ \A k \in 1..Len(Tail(s)) : k + 1 \in 1..Len(s) /\ Tail(s)[k] = s[k + 1]
      /\ \A k \in 1..Len(s) : k # 1 => k - 1 \in 1..Len(Tail(s)) /\ Tail(s)[k - 1] = s[k]
  BY TailAt
<1>2. Clean(s) => Clean(Tail(s)) /\ Head(s) \notin BadReports
  BY <1>1 DEF Clean
<1>3. ASSUME NEW x, NEW i \in 1..Len(s), s[i] = x, \A j \in 1..Len(s) : i < j => s[j] \notin BadReports
      PROVE LastSaid(Tail(s), x) \/ (Head(s) = x /\ Clean(Tail(s)))
  <2>1. CASE i = 1
    BY <1>1, <1>3, <2>1 DEF Clean
  <2>2. CASE i # 1
    <3>1. i - 1 \in 1..Len(Tail(s)) /\ Tail(s)[i - 1] = x
      BY <1>1, <1>3, <2>2
    <3>2. \A k \in 1..Len(Tail(s)) : i - 1 < k => k + 1 \in 1..Len(s) /\ i < k + 1
      BY <1>1
    <3>3. \A k \in 1..Len(Tail(s)) : i - 1 < k => Tail(s)[k] \notin BadReports
      BY <1>1, <1>3, <3>2
    <3> QED
      BY <3>1, <3>3 DEF LastSaid
  <2> QED
    BY <2>1, <2>2
<1> QED
  BY <1>2, <1>3 DEF LastSaid

\* The last report, when good ones are posted.
LEMMA LastConcat ==
  ASSUME NEW S, NEW s \in Seq(S), NEW p \in Seq(S), Clean(p)
  PROVE /\ Clean(s) => Clean(s \o p)
        /\ \A x : LastSaid(s, x) => LastSaid(s \o p, x)
        /\ \A x : LastSaid(p, x) => LastSaid(s \o p, x)
<1>1. /\ Len(s) \in Nat /\ Len(p) \in Nat /\ Len(s \o p) = Len(s) + Len(p)
      /\ \A k \in 1..Len(s) : k \in 1..Len(s \o p) /\ (s \o p)[k] = s[k]
      /\ \A k \in 1..Len(p) : Len(s) + k \in 1..Len(s \o p) /\ (s \o p)[Len(s) + k] = p[k]
      /\ \A k \in 1..Len(s \o p) : k \in 1..Len(s) \/ k - Len(s) \in 1..Len(p)
  BY ConcatAt
<1>2. \A k \in 1..Len(s \o p) : \/ k \in 1..Len(s) /\ (s \o p)[k] = s[k]
                                \/ k - Len(s) \in 1..Len(p) /\ (s \o p)[k] = p[k - Len(s)]
  <2> SUFFICES ASSUME NEW k \in 1..Len(s \o p), k \notin 1..Len(s)
               PROVE k - Len(s) \in 1..Len(p) /\ (s \o p)[k] = p[k - Len(s)]
    BY <1>1
  <2>1. k - Len(s) \in 1..Len(p) /\ Len(s) + (k - Len(s)) = k
    BY <1>1
  <2> QED
    BY <1>1, <2>1
<1>3. Clean(s) => Clean(s \o p)
  BY <1>2 DEF Clean
<1>4. ASSUME NEW x, LastSaid(s, x) PROVE LastSaid(s \o p, x)
  <2>1. PICK i \in 1..Len(s) : s[i] = x /\ \A j \in 1..Len(s) : i < j => s[j] \notin BadReports
    BY <1>4 DEF LastSaid
  <2>2. \A k \in 1..Len(s \o p) : i < k => (s \o p)[k] \notin BadReports
    BY <1>2, <2>1 DEF Clean
  <2> QED
    BY <1>1, <2>1, <2>2 DEF LastSaid
<1>5. ASSUME NEW x, LastSaid(p, x) PROVE LastSaid(s \o p, x)
  <2>1. PICK i \in 1..Len(p) : p[i] = x
    BY <1>5 DEF LastSaid
  <2>2. Len(s) + i \in 1..Len(s \o p) /\ (s \o p)[Len(s) + i] = x
    BY <1>1, <2>1
  <2>3. \A k \in 1..Len(s \o p) : Len(s) + i < k => (s \o p)[k] \notin BadReports
    <3> SUFFICES ASSUME NEW k \in 1..Len(s \o p), Len(s) + i < k PROVE (s \o p)[k] \notin BadReports
      OBVIOUS
    <3>1. k \notin 1..Len(s)
      BY <1>1
    <3> QED
      BY <1>2, <3>1 DEF Clean
  <2> QED
    BY <2>2, <2>3 DEF LastSaid
<1> QED
  BY <1>3, <1>4, <1>5

\* The orders of the network queue, when the first closure was taken.
LEMMA OrdersTail ==
  ASSUME NEW S, NEW s \in Seq(S), s # <<>>
  PROVE /\ \A x, y : Follows(s, x, y) => Follows(Tail(s), x, y)
        /\ \A x, y : Never(s, x, y) => Never(Tail(s), x, y)
        /\ \A a : DownBefore(s, a) => DownBefore(Tail(s), a)
        /\ \A a : DownBefore(s, a) /\ Head(s) \in AgentDown =>
              In(Tail(s), AgentUp) \/ (a \notin Connections /\ ~In(Tail(s), AgentDone))
        /\ \A x, y : Never(s, x, y) /\ Head(s) = x => ~In(Tail(s), y)
        /\ \A x, y : Follows(s, x, y) /\ Head(s) = x => In(Tail(s), y)
<1>1. /\ Len(s) \in Nat /\ Len(Tail(s)) = Len(s) - 1 /\ 1 \in 1..Len(s) /\ s[1] = Head(s)
      /\ \A k \in 1..Len(Tail(s)) : k + 1 \in 1..Len(s) /\ Tail(s)[k] = s[k + 1]
      /\ \A k \in 1..Len(s) : k # 1 => k - 1 \in 1..Len(Tail(s)) /\ Tail(s)[k - 1] = s[k]
  BY TailAt
<1>2. \A i \in 1..Len(Tail(s)) : \A x : HasAfter(Tail(s), i, x) <=> HasAfter(s, i + 1, x)
  BY AfterTail
<1>3. \A x : HasAfter(s, 1, x) <=> In(Tail(s), x)
  <2>1. ASSUME NEW x, HasAfter(s, 1, x) PROVE In(Tail(s), x)
    <3>1. PICK j \in 1..Len(s) : 1 < j /\ s[j] = x
      BY <2>1 DEF HasAfter
    <3> QED
      BY <1>1, <3>1 DEF In
  <2>2. ASSUME NEW x, In(Tail(s), x) PROVE HasAfter(s, 1, x)
    <3>1. PICK k \in 1..Len(Tail(s)) : Tail(s)[k] = x
      BY <2>2 DEF In
    <3>2. k + 1 \in 1..Len(s) /\ 1 < k + 1 /\ s[k + 1] = x
      BY <1>1, <3>1
    <3> QED
      BY <3>2 DEF HasAfter
  <2> QED
    BY <2>1, <2>2
<1>4. \A x, y : Follows(s, x, y) => Follows(Tail(s), x, y)
  BY <1>1, <1>2 DEF Follows
<1>5. \A x, y : Never(s, x, y) => Never(Tail(s), x, y)
  BY <1>1, <1>2 DEF Never
<1>6. \A a : DownBefore(s, a) => DownBefore(Tail(s), a)
  BY <1>1, <1>2 DEF DownBefore
<1>7. \A a : DownBefore(s, a) /\ Head(s) \in AgentDown =>
              In(Tail(s), AgentUp) \/ (a \notin Connections /\ ~In(Tail(s), AgentDone))
  BY <1>1, <1>3 DEF DownBefore
<1>8. /\ \A x, y : Never(s, x, y) /\ Head(s) = x => ~In(Tail(s), y)
      /\ \A x, y : Follows(s, x, y) /\ Head(s) = x => In(Tail(s), y)
  BY <1>1, <1>3 DEF Never, Follows
<1> QED
  BY <1>4, <1>5, <1>6, <1>7, <1>8

\* The orders of the network queue, when closures are posted.
LEMMA OrdersConcat ==
  ASSUME NEW S, NEW s \in Seq(S), NEW p \in Seq(S)
  PROVE /\ \A x, y : Follows(s, x, y) /\ ~In(p, x) => Follows(s \o p, x, y)
        /\ \A x, y : In(p, y) /\ ~In(p, x) => Follows(s \o p, x, y)
        /\ \A x, y : Never(s, x, y) /\ Never(p, x, y) /\ ~In(p, y) => Never(s \o p, x, y)
        /\ \A x, y : ~In(s, x) /\ ~In(p, x) => Never(s \o p, x, y)
        /\ \A a, b : /\ DownBefore(s, a) /\ DownBefore(p, b)
                     /\ a \notin Connections => In(p, AgentUp) \/ (b \notin Connections /\ ~In(p, AgentDone))
                     => DownBefore(s \o p, b)
<1>1. /\ Len(s) \in Nat /\ Len(p) \in Nat /\ Len(s \o p) = Len(s) + Len(p)
      /\ \A k \in 1..Len(s) : k \in 1..Len(s \o p) /\ (s \o p)[k] = s[k]
      /\ \A k \in 1..Len(p) : Len(s) + k \in 1..Len(s \o p) /\ (s \o p)[Len(s) + k] = p[k]
      /\ \A k \in 1..Len(s \o p) : k \in 1..Len(s) \/ k - Len(s) \in 1..Len(p)
  BY ConcatAt
<1>2. \A k \in 1..Len(s \o p) : \/ k \in 1..Len(s) /\ (s \o p)[k] = s[k]
                                \/ k - Len(s) \in 1..Len(p) /\ (s \o p)[k] = p[k - Len(s)] /\ Len(s) + (k - Len(s)) = k
  <2> SUFFICES ASSUME NEW k \in 1..Len(s \o p), k \notin 1..Len(s)
               PROVE k - Len(s) \in 1..Len(p) /\ (s \o p)[k] = p[k - Len(s)] /\ Len(s) + (k - Len(s)) = k
    BY <1>1
  <2>1. k - Len(s) \in 1..Len(p) /\ Len(s) + (k - Len(s)) = k
    BY <1>1
  <2> QED
    BY <1>1, <2>1
<1>3. \A i \in 1..Len(s) : \A x : HasAfter(s \o p, i, x) <=> HasAfter(s, i, x) \/ In(p, x)
  BY AfterConcat
<1>4. \A i \in 1..Len(p) : \A x : HasAfter(s \o p, Len(s) + i, x) <=> HasAfter(p, i, x)
  <2>1. ASSUME NEW i \in 1..Len(p), NEW x, HasAfter(p, i, x) PROVE HasAfter(s \o p, Len(s) + i, x)
    <3>1. PICK j \in 1..Len(p) : i < j /\ p[j] = x
      BY <2>1 DEF HasAfter
    <3>2. Len(s) + j \in 1..Len(s \o p) /\ Len(s) + i < Len(s) + j /\ (s \o p)[Len(s) + j] = x
      BY <1>1, <3>1
    <3> QED
      BY <3>2 DEF HasAfter
  <2>2. ASSUME NEW i \in 1..Len(p), NEW x, HasAfter(s \o p, Len(s) + i, x) PROVE HasAfter(p, i, x)
    <3>1. PICK j \in 1..Len(s \o p) : Len(s) + i < j /\ (s \o p)[j] = x
      BY <2>2 DEF HasAfter
    <3>2. j \notin 1..Len(s) /\ i < j - Len(s)
      BY <1>1, <3>1
    <3>3. j - Len(s) \in 1..Len(p) /\ p[j - Len(s)] = x
      BY <1>2, <3>1, <3>2
    <3> QED
      BY <3>2, <3>3 DEF HasAfter
  <2> QED
    BY <2>1, <2>2
<1>5. \A i \in 1..Len(p) : In(p, p[i])
  BY DEF In
<1>6. \A x, y : Follows(s, x, y) /\ ~In(p, x) => Follows(s \o p, x, y)
  BY <1>2, <1>3, <1>5 DEF Follows
<1>7. \A x, y : In(p, y) /\ ~In(p, x) => Follows(s \o p, x, y)
  BY <1>2, <1>3, <1>5 DEF Follows
<1>8. ASSUME NEW x, NEW y, Never(s, x, y), Never(p, x, y), ~In(p, y) PROVE Never(s \o p, x, y)
  <2> SUFFICES ASSUME NEW k \in 1..Len(s \o p), (s \o p)[k] = x PROVE ~HasAfter(s \o p, k, y)
    BY DEF Never
  <2>1. CASE k \in 1..Len(s) /\ (s \o p)[k] = s[k]
    BY <1>3, <1>8, <2>1 DEF Never
  <2>2. CASE k - Len(s) \in 1..Len(p) /\ (s \o p)[k] = p[k - Len(s)] /\ Len(s) + (k - Len(s)) = k
    BY <1>4, <1>8, <2>2 DEF Never
  <2> QED
    BY <1>2, <2>1, <2>2
<1>9. \A x, y : ~In(s, x) /\ ~In(p, x) => Never(s \o p, x, y)
  BY <1>2, <1>5 DEF In, Never
<1>10. ASSUME NEW a, NEW b, DownBefore(s, a), DownBefore(p, b),
              a \notin Connections => In(p, AgentUp) \/ (b \notin Connections /\ ~In(p, AgentDone))
       PROVE DownBefore(s \o p, b)
  <2> SUFFICES ASSUME NEW k \in 1..Len(s \o p), (s \o p)[k] \in AgentDown
               PROVE HasAfter(s \o p, k, AgentUp) \/ (b \notin Connections /\ ~HasAfter(s \o p, k, AgentDone))
    BY DEF DownBefore
  <2>1. CASE k \in 1..Len(s) /\ (s \o p)[k] = s[k]
    BY <1>3, <1>10, <2>1 DEF DownBefore
  <2>2. CASE k - Len(s) \in 1..Len(p) /\ (s \o p)[k] = p[k - Len(s)] /\ Len(s) + (k - Len(s)) = k
    BY <1>4, <1>10, <2>2 DEF DownBefore
  <2> QED
    BY <1>2, <2>1, <2>2
<1> QED
  BY <1>6, <1>7, <1>8, <1>9, <1>10

\* The first closure of the signaling queue, or of the network queue, was taken.
SigDrops(s, t, e) ==
    /\ \A x : /\ In(t, x) => In(s, x)
              /\ In(s, x) => In(t, x) \/ e = x
              /\ Uniq(s, x) => Uniq(t, x)
              /\ e = x => In(s, x)
              /\ e = x /\ Uniq(s, x) => ~In(t, x)
    /\ Clean(s) => Clean(t) /\ e \notin BadReports
    /\ \A x : LastSaid(s, x) => LastSaid(t, x) \/ (e = x /\ Clean(t))
NetDrops(s, t, e) ==
    /\ \A x : /\ In(t, x) => In(s, x)
              /\ In(s, x) => In(t, x) \/ e = x
              /\ Uniq(s, x) => Uniq(t, x)
              /\ e = x => In(s, x)
              /\ e = x /\ Uniq(s, x) => ~In(t, x)
    /\ Never(s, AgentDone, AgentUp) => Never(t, AgentDone, AgentUp) /\ (e = AgentDone => ~In(t, AgentUp))
    /\ Follows(s, Timeout, NewDtls) => Follows(t, Timeout, NewDtls) /\ (e = Timeout => In(t, NewDtls))
    /\ \A a : DownBefore(s, a) => /\ DownBefore(t, a)
                                  /\ e \in AgentDown => In(t, AgentUp) \/ (a \notin Connections /\ ~In(t, AgentDone))

\* Closures p were posted to the signaling queue; closure e was posted to the network queue.
SigGains(s, t, p) ==
    /\ \A x : /\ In(t, x) <=> In(s, x) \/ In(p, x)
              /\ Uniq(s, x) /\ ~In(p, x) => Uniq(t, x)
              /\ ~In(s, x) /\ Uniq(p, x) => Uniq(t, x)
    /\ Clean(p) => /\ Clean(s) => Clean(t)
                   /\ \A x : LastSaid(s, x) \/ LastSaid(p, x) => LastSaid(t, x)
NetGains(s, t, e) ==
    /\ \A x : /\ In(t, x) <=> In(s, x) \/ e = x
              /\ Uniq(s, x) /\ e # x => Uniq(t, x)
              /\ ~In(s, x) => Uniq(t, x)
    /\ \/ Never(s, AgentDone, AgentUp) /\ e # AgentUp
       \/ ~In(s, AgentDone) /\ e # AgentDone
       => Never(t, AgentDone, AgentUp)
    /\ e # Timeout /\ (Follows(s, Timeout, NewDtls) \/ e = NewDtls) => Follows(t, Timeout, NewDtls)
    /\ \A a, b : /\ DownBefore(s, a)
                 /\ e \in AgentDown => b \notin Connections
                 /\ a \notin Connections => e = AgentUp \/ (b \notin Connections /\ e # AgentDone)
                 => DownBefore(t, b)

\* Nothing the invariant is about was taken or posted.
KeepsSig(s, t) ==
    /\ \A x \in SigTokens : (In(t, x) <=> In(s, x)) /\ (Uniq(s, x) => Uniq(t, x)) /\ (LastSaid(s, x) => LastSaid(t, x))
    /\ Clean(s) => Clean(t)
KeepsNet(s, t) ==
    /\ \A x \in Watched : (In(t, x) <=> In(s, x)) /\ (Uniq(s, x) => Uniq(t, x))
    /\ Never(s, AgentDone, AgentUp) => Never(t, AgentDone, AgentUp)
    /\ Follows(s, Timeout, NewDtls) => Follows(t, Timeout, NewDtls)
    /\ \A a : DownBefore(s, a) => DownBefore(t, a)

\* Taking the first closure.
LEMMA Drops ==
  ASSUME NEW S, NEW s \in Seq(S), s # <<>>
  PROVE SigDrops(s, Tail(s), Head(s)) /\ NetDrops(s, Tail(s), Head(s))
<1>1. \A x : /\ In(Tail(s), x) => In(s, x)
             /\ Uniq(s, x) => Uniq(Tail(s), x)
             /\ Head(s) = x => In(s, x)
             /\ Head(s) = x /\ Uniq(s, x) => ~In(Tail(s), x)
  BY TailIn
<1>2. \A x : In(s, x) => In(Tail(s), x) \/ Head(s) = x
  <2> SUFFICES ASSUME NEW x, NEW i \in 1..Len(s), s[i] = x PROVE In(Tail(s), x) \/ Head(s) = x
    BY DEF In
  <2>1. /\ s[1] = Head(s)
        /\ i # 1 => i - 1 \in 1..Len(Tail(s)) /\ Tail(s)[i - 1] = s[i]
    BY TailAt
  <2> QED
    BY <2>1 DEF In
<1>3. /\ Clean(s) => Clean(Tail(s)) /\ Head(s) \notin BadReports
      /\ \A x : LastSaid(s, x) => LastSaid(Tail(s), x) \/ (Head(s) = x /\ Clean(Tail(s)))
  BY LastTail
<1>4. /\ \A x, y : Follows(s, x, y) => Follows(Tail(s), x, y)
      /\ \A x, y : Never(s, x, y) => Never(Tail(s), x, y)
      /\ \A a : DownBefore(s, a) => DownBefore(Tail(s), a)
      /\ \A a : DownBefore(s, a) /\ Head(s) \in AgentDown =>
            In(Tail(s), AgentUp) \/ (a \notin Connections /\ ~In(Tail(s), AgentDone))
      /\ \A x, y : Never(s, x, y) /\ Head(s) = x => ~In(Tail(s), y)
      /\ \A x, y : Follows(s, x, y) /\ Head(s) = x => In(Tail(s), y)
  BY OrdersTail
<1>5. SigDrops(s, Tail(s), Head(s))
  BY <1>1, <1>2, <1>3 DEF SigDrops
<1>6. NetDrops(s, Tail(s), Head(s))
  BY <1>1, <1>2, <1>4 DEF NetDrops
<1> QED
  BY <1>5, <1>6

\* Posting.
LEMMA Gains ==
  ASSUME NEW S, NEW s \in Seq(S)
  PROVE /\ \A p \in Seq(S) : SigGains(s, s \o p, p)
        /\ \A e \in S : NetGains(s, s \o <<e>>, e)
<1>1. ASSUME NEW p \in Seq(S)
      PROVE \A x : /\ In(s \o p, x) <=> In(s, x) \/ In(p, x)
                   /\ Uniq(s, x) /\ ~In(p, x) => Uniq(s \o p, x)
                   /\ ~In(s, x) /\ Uniq(p, x) => Uniq(s \o p, x)
  BY ConcatIn
<1>2. ASSUME NEW p \in Seq(S) PROVE SigGains(s, s \o p, p)
  BY <1>1, <1>2, LastConcat DEF SigGains
<1>3. ASSUME NEW e \in S PROVE NetGains(s, s \o <<e>>, e)
  <2> DEFINE p == <<e>>
  <2>1. p \in Seq(S)
    OBVIOUS
  <2>2. \A x : (In(p, x) <=> e = x) /\ Uniq(p, x)
    BY OneIn
  <2>3. \A x, y : Never(p, x, y)
    BY DEF Never, HasAfter
  <2>4. \A b : (e \in AgentDown => b \notin Connections) => DownBefore(p, b)
    BY DEF DownBefore, HasAfter
  <2> HIDE DEF p
  <2>5. /\ \A x, y : Follows(s, x, y) /\ ~In(p, x) => Follows(s \o p, x, y)
        /\ \A x, y : In(p, y) /\ ~In(p, x) => Follows(s \o p, x, y)
        /\ \A x, y : Never(s, x, y) /\ Never(p, x, y) /\ ~In(p, y) => Never(s \o p, x, y)
        /\ \A x, y : ~In(s, x) /\ ~In(p, x) => Never(s \o p, x, y)
        /\ \A a, b : /\ DownBefore(s, a) /\ DownBefore(p, b)
                     /\ a \notin Connections => In(p, AgentUp) \/ (b \notin Connections /\ ~In(p, AgentDone))
                     => DownBefore(s \o p, b)
    BY <2>1, OrdersConcat
  <2>6. NetGains(s, s \o p, e)
    BY <1>1, <2>1, <2>2, <2>3, <2>4, <2>5 DEF NetGains
  <2> QED
    BY <2>6 DEF p
<1> QED
  BY <1>2, <1>3

\* Taking and posting closures the invariant is not about.
LEMMA KeepsBoth ==
  ASSUME NEW S, NEW s \in Seq(S)
  PROVE /\ KeepsSig(s, s) /\ KeepsNet(s, s)
        /\ s # <<>> /\ Head(s).op \notin SigWatch => KeepsSig(s, Tail(s))
        /\ s # <<>> /\ Head(s).op \notin NetWatch => KeepsNet(s, Tail(s))
        /\ \A p \in Seq(S) : (\A i \in 1..Len(p) : p[i].op \notin SigWatch) => KeepsSig(s, s \o p)
        /\ \A p \in Seq(S) : (\A i \in 1..Len(p) : p[i].op \notin NetWatch) => KeepsNet(s, s \o p)
<1>1. KeepsSig(s, s) /\ KeepsNet(s, s)
  BY DEF KeepsSig, KeepsNet
<1>2. ASSUME s # <<>> PROVE SigDrops(s, Tail(s), Head(s)) /\ NetDrops(s, Tail(s), Head(s))
  BY <1>2, Drops
<1>3. s # <<>> /\ Head(s).op \notin SigWatch => KeepsSig(s, Tail(s))
  BY <1>2, WatchedOps DEF KeepsSig, SigDrops
<1>4. s # <<>> /\ Head(s).op \notin NetWatch => KeepsNet(s, Tail(s))
  BY <1>2, WatchedOps DEF KeepsNet, NetDrops
<1>5. ASSUME NEW p \in Seq(S), \A i \in 1..Len(p) : p[i].op \notin SigWatch PROVE KeepsSig(s, s \o p)
  <2>1. Clean(p) /\ \A x \in SigTokens : ~In(p, x)
    BY <1>5, WatchedOps DEF Clean, In
  <2>2. SigGains(s, s \o p, p)
    BY Gains
  <2> QED
    BY <2>1, <2>2 DEF KeepsSig, SigGains
<1>6. ASSUME NEW p \in Seq(S), \A i \in 1..Len(p) : p[i].op \notin NetWatch PROVE KeepsNet(s, s \o p)
  <2>1. \A x \in Watched \cup AgentDown : ~In(p, x)
    BY <1>6, WatchedOps DEF In
  <2>2. AgentDone \in Watched /\ AgentUp \in Watched /\ Timeout \in Watched
    BY DEF Watched
  <2>3. \A x \in Watched : /\ In(s \o p, x) <=> In(s, x) \/ In(p, x)
                           /\ Uniq(s, x) /\ ~In(p, x) => Uniq(s \o p, x)
    BY ConcatIn
  <2>4. Never(p, AgentDone, AgentUp) /\ \A a : DownBefore(p, a)
    BY <1>6, <2>1, <2>2 DEF Never, DownBefore, In
  <2>5. /\ \A x, y : Follows(s, x, y) /\ ~In(p, x) => Follows(s \o p, x, y)
        /\ \A x, y : Never(s, x, y) /\ Never(p, x, y) /\ ~In(p, y) => Never(s \o p, x, y)
        /\ \A a, b : /\ DownBefore(s, a) /\ DownBefore(p, b)
                     /\ a \notin Connections => In(p, AgentUp) \/ (b \notin Connections /\ ~In(p, AgentDone))
                     => DownBefore(s \o p, b)
    BY OrdersConcat
  <2>6. \A a : DownBefore(s, a) => DownBefore(s \o p, a)
    BY <2>1, <2>2, <2>4, <2>5
  <2> QED
    BY <2>1, <2>2, <2>3, <2>4, <2>5, <2>6 DEF KeepsNet
<1> QED
  BY <1>1, <1>3, <1>4, <1>5, <1>6

\* Such moves follow one another.
LEMMA KeepsTransitive ==
  ASSUME NEW s, NEW t, NEW u
  PROVE /\ KeepsSig(s, t) /\ KeepsSig(t, u) => KeepsSig(s, u)
        /\ KeepsNet(s, t) /\ KeepsNet(t, u) => KeepsNet(s, u)
  BY DEF KeepsSig, KeepsNet

\* The agent has lost the connection, and nothing on its way says otherwise.
Lost(net) == agent.state \notin Connections /\ ~In(net, AgentUp) /\ ~In(net, AgentDone)

\* Only the constructor makes the ICE transport, and the agent starts after it.
IceFirst(sig, net) ==
    /\ Uniq(sig, InitIce) /\ Uniq(net, NewIce) /\ ~(In(sig, InitIce) /\ In(net, NewIce))
    /\ tr.ice # "none" \/ agent.connects # 0 => ~In(sig, InitIce) /\ ~In(net, NewIce)

\* Before the agent connects nothing else is there.
NothingYet(sig, net) ==
    agent.connects = 0 =>
       /\ Lost(net) /\ tr.ice \notin Connections /\ tr.dtls = "none" /\ tr.sctp = "none"
       /\ ~In(sig, IceUp) /\ ~In(net, NewDtls) /\ ~In(sig, DtlsUp) /\ ~In(net, NewSctp)

\* The first connection is in one place on its way to the DTLS transport.
OneWay(sig, net) ==
    /\ Uniq(net, AgentUp) /\ Uniq(sig, IceUp) /\ Uniq(net, NewDtls)
    /\ In(net, AgentUp) => ~In(sig, IceUp) /\ ~In(net, NewDtls) /\ tr.dtls = "none" /\ tr.ice \notin Connections
    /\ In(sig, IceUp) => ~In(net, NewDtls) /\ tr.dtls = "none"
    /\ In(net, NewDtls) => tr.dtls = "none"
    /\ Never(net, AgentDone, AgentUp)

\* A timer that was set before the connection runs out before there is a DTLS transport.
TimersBefore(sig, net) ==
    failed = "no" =>
       /\ tr.timer = "armed" => In(net, AgentUp) \/ Lost(net)
       /\ In(net, AgentUp) \/ Lost(net) \/ In(sig, IceUp) \/ Follows(net, Timeout, NewDtls)

\* SCTP comes after DTLS.
SctpAfter(sig, net) ==
    In(sig, DtlsUp) \/ In(net, NewSctp) \/ tr.sctp # "none" => tr.dtls = "CONNECTED" \/ tr.ice = "none"

\* Report x is the last that counts: it waits with no bad one behind it, or it has been
\* taken and no bad one waits.
Says(sig, x) == LastSaid(sig, x) \/ (pc.connection = "CONNECTED" /\ Clean(sig))

\* Once the handshake is over the application knows, or will.
UpIsSaid(sig, net) ==
    tr.dtls = "CONNECTED" /\ tr.ice # "none" /\ (tr.ice \in Connections \/ ~Lost(net)) =>
       /\ tr.sctp = "none" => Says(sig, DtlsUp) \/ In(net, NewSctp)
       /\ tr.sctp = "CONNECTED" => Says(sig, SctpUp)

FirstConnection(sig, net) ==
    /\ OneWay(sig, net) /\ DownBefore(net, agent.state) /\ TimersBefore(sig, net)
    /\ SctpAfter(sig, net) /\ UpIsSaid(sig, net)

ReportInv ==
    /\ agent.connects \in Nat
    /\ IceFirst(queue["sig"], queue["net"]) /\ NothingYet(queue["sig"], queue["net"])
    /\ blocked["net"].op = "handshake" => tr.dtls # "none"
    /\ agent.connects <= 1 => FirstConnection(queue["sig"], queue["net"])

\* A step that takes and posts nothing the invariant is about, and changes nothing else of it.
LEMMA ReportKept ==
  ASSUME ReportInv, failed = "no", agent' = agent, pc'.connection = pc.connection,
         KeepsSig(queue["sig"], queue'["sig"]), KeepsNet(queue["net"], queue'["net"]),
         tr'.ice = tr.ice, tr'.timer = tr.timer, tr'.dtls = tr.dtls, tr'.sctp = tr.sctp,
         blocked'["net"].op = "handshake" => blocked["net"].op = "handshake" \/ tr.dtls # "none"
  PROVE ReportInv'
<1>1. /\ InitIce \in SigTokens /\ IceUp \in SigTokens /\ DtlsUp \in SigTokens /\ SctpUp \in SigTokens
      /\ NewIce \in Watched /\ AgentUp \in Watched /\ AgentDone \in Watched
      /\ NewDtls \in Watched /\ NewSctp \in Watched
  BY DEF SigTokens, Watched
<1>2. Lost(queue["net"])' <=> Lost(queue["net"])
  BY <1>1 DEF Lost, KeepsNet
<1>3. IceFirst(queue["sig"], queue["net"])' /\ NothingYet(queue["sig"], queue["net"])'
  BY <1>1, <1>2 DEF ReportInv, IceFirst, NothingYet, KeepsSig, KeepsNet
<1>4. ASSUME agent.connects <= 1 PROVE FirstConnection(queue["sig"], queue["net"])'
  BY <1>1, <1>2, <1>4 DEF ReportInv, FirstConnection, OneWay, KeepsSig, KeepsNet, SctpAfter, TimersBefore, Says, UpIsSaid
<1> QED
  BY <1>3, <1>4 DEF ReportInv

\* A plain closure of the signaling queue.
LEMMA PlainKept ==
  ASSUME TypeInv, ReportInv, failed = "no", PlainStep,
         queue'["sig"] = queue["sig"] \/ (queue["sig"] # <<>> /\ First("sig").op \notin SigWatch)
  PROVE ReportInv'
<1>1. PICK h, rest, op, taken :
        /\ h.net \in Seq(PlainNet) /\ (Survives(h) => h.pc.connection = pc.connection)
        /\ h.ends = "invoke" => op \in Queries
        /\ taken = queue \/ (queue["sig"] # <<>> /\ taken = Taken("sig"))
        /\ Finish(h, rest, op, taken)
  BY DEF PlainStep
<1>2. queue["sig"] \in Seq(SigItems) /\ queue["net"] \in Seq(NetItems) /\ queue = [q \in Queues |-> queue[q]]
  BY DEF TypeInv
<1>3. /\ taken = [q \in Queues |-> taken[q]] /\ taken["net"] = queue["net"]
      /\ taken["sig"] = queue["sig"] \/ (queue["sig"] # <<>> /\ taken["sig"] = Tail(queue["sig"]))
  <2> HIDE DEF Taken
  <2> QED
    BY <1>1, <1>2, FirstType
<1> DEFINE asked == IF h.ends = "invoke" THEN <<InvokeOf(op, "sig")>> ELSE <<>>
           net == queue["net"] \o h.net
<1>4. asked \in Seq(NetItems) /\ \A i \in 1..Len(asked) : asked[i].op \notin NetWatch
  <2>1. h.ends = "invoke" => InvokeOf(op, "sig") \in NetItems /\ InvokeOf(op, "sig").op \notin NetWatch
    BY <1>1 DEF InvokeOf, NetItems, Queries, NetWatch
  <2> QED
    BY <2>1, EmptySeq
<1>5. h.net \in Seq(NetItems) /\ \A i \in 1..Len(h.net) : h.net[i].op \notin NetWatch
  BY <1>1, ElementOfSeq, SeqMonotonic DEF NetItems, PlainNet, NetWatch
<1>6. net \in Seq(NetItems) /\ KeepsNet(queue["net"], net)
  BY <1>2, <1>5, ConcatProperties, KeepsBoth
<1>7. queue' = [taken EXCEPT !["net"] = @ \o h.net \o asked, !["wrk"] = @ \o h.wrk]
  BY <1>1 DEF Finish
<1>8. queue'["sig"] = taken["sig"] /\ queue'["net"] = net \o asked
  <2> HIDE DEF asked
  <2> QED
    BY <1>3, <1>7 DEF Queues
<1> HIDE DEF asked, net
<1>9. KeepsNet(queue["net"], queue'["net"])
  BY <1>4, <1>6, <1>8, KeepsBoth, KeepsTransitive
<1>10. KeepsSig(queue["sig"], queue'["sig"])
  BY <1>2, <1>3, <1>8, KeepsBoth DEF First
<1>11. /\ tr' = tr /\ agent' = agent /\ pc'.connection = pc.connection
       /\ blocked' = [blocked EXCEPT !["sig"] = IF h.ends = "invoke" THEN rest ELSE Idle]
  BY <1>1 DEF Finish
<1>12. blocked'["net"] = blocked["net"]
  BY <1>11 DEF TypeInv, Threads, Queues
<1> QED
  BY <1>9, <1>10, <1>11, <1>12, ReportKept

\* A closure of the signaling queue that posts at most one closure.
LEMMA SigMoves ==
  ASSUME TypeInv, queue["sig"] # <<>>, NEW h, h.ends # "invoke",
         h.net = <<>> \/ \E e \in NetItems : h.net = <<e>>,
         Finish(h, Idle, "", Taken("sig"))
  PROVE /\ SigDrops(queue["sig"], queue'["sig"], First("sig"))
        /\ h.net = <<>> => queue'["net"] = queue["net"]
        /\ \A e : h.net = <<e>> => NetGains(queue["net"], queue'["net"], e)
        /\ blocked'["net"] = blocked["net"] /\ tr' = tr /\ agent' = agent
        /\ pc' = IF Survives(h) THEN h.pc ELSE pc
        /\ failed' = IF Survives(h) THEN failed ELSE h.ends
<1>1. queue["sig"] \in Seq(SigItems) /\ queue["net"] \in Seq(NetItems)
  BY DEF TypeInv
<1>2. h.net \in Seq(NetItems)
  <2>1. \A e \in NetItems : <<e>> \in Seq(NetItems)
    BY OneIn
  <2> QED
    BY <2>1, EmptySeq
<1>3. queue' = [Taken("sig") EXCEPT !["net"] = @ \o h.net \o <<>>, !["wrk"] = @ \o h.wrk]
  BY DEF Finish
<1>4. queue'["sig"] = Tail(queue["sig"]) /\ queue'["net"] = (queue["net"] \o h.net) \o <<>>
  <2> HIDE DEF Taken
  <2> QED
    BY <1>3, FirstType DEF Queues
<1>5. queue["net"] \o h.net \in Seq(NetItems)
  BY <1>1, <1>2, ConcatProperties
<1>6. queue'["net"] = queue["net"] \o h.net
  BY <1>4, <1>5, ConcatEmptySeq
<1>7. SigDrops(queue["sig"], queue'["sig"], First("sig"))
  BY <1>1, <1>4, Drops DEF First
<1>8. h.net = <<>> => queue'["net"] = queue["net"]
  BY <1>1, <1>6, ConcatEmptySeq
<1>9. ASSUME NEW e, h.net = <<e>> PROVE NetGains(queue["net"], queue'["net"], e)
  <2>1. e \in NetItems
    <3>1. h.net # <<>>
      BY <1>9, OneIn
    <3>2. PICK d \in NetItems : h.net = <<d>>
      BY <3>1
    <3>3. <<d>> = <<e>> <=> d = e
      BY OneIn
    <3> QED
      BY <1>9, <3>2, <3>3
  <2> QED
    BY <1>1, <1>6, <1>9, <2>1, Gains
<1>10. /\ pc' = (IF Survives(h) THEN h.pc ELSE pc) /\ tr' = tr /\ agent' = agent
       /\ failed' = (IF Survives(h) THEN failed ELSE h.ends)
       /\ blocked' = [blocked EXCEPT !["sig"] = Idle]
  BY DEF Finish
<1>11. blocked'["net"] = blocked["net"]
  BY <1>10 DEF TypeInv, Threads, Queues
<1> QED
  BY <1>7, <1>8, <1>9, <1>10, <1>11

\* A report that the connection is not up: the invariant has none behind a good one that counts.
LEMMA BadReported ==
  ASSUME TypeInv, ReportInv, failed = "no", queue["sig"] # <<>>, First("sig") \in BadReports,
         NEW h, h.ends = "return", h.net = <<>>, Finish(h, Idle, "", Taken("sig"))
  PROVE ReportInv'
<1>1. /\ SigDrops(queue["sig"], queue'["sig"], First("sig"))
      /\ queue'["net"] = queue["net"] /\ failed' = failed
      /\ blocked'["net"] = blocked["net"] /\ tr' = tr /\ agent' = agent
  BY SigMoves DEF Survives
<1>2. /\ InitIce \in SigTokens /\ IceUp \in SigTokens /\ DtlsUp \in SigTokens /\ SctpUp \in SigTokens
      /\ \A x \in SigTokens : First("sig") # x
  BY WatchedOps DEF SigTokens
<1>3. \A x \in SigTokens : /\ In(queue'["sig"], x) <=> In(queue["sig"], x)
                           /\ Uniq(queue["sig"], x) => Uniq(queue'["sig"], x)
                           /\ Says(queue["sig"], x) => Says(queue["sig"], x)'
  BY <1>1, <1>2 DEF SigDrops, Says
<1>4. Lost(queue["net"])' <=> Lost(queue["net"])
  BY <1>1 DEF Lost
<1>5. IceFirst(queue["sig"], queue["net"])' /\ NothingYet(queue["sig"], queue["net"])'
  BY <1>1, <1>2, <1>3, <1>4 DEF ReportInv, IceFirst, NothingYet
<1>6. ASSUME agent.connects <= 1 PROVE FirstConnection(queue["sig"], queue["net"])'
  BY <1>1, <1>2, <1>3, <1>4, <1>6 DEF ReportInv, FirstConnection, OneWay, TimersBefore, SctpAfter, UpIsSaid
<1> QED
  BY <1>1, <1>5, <1>6 DEF ReportInv

\* The constructor's closure asks for the ICE transport, when there is nothing yet.
LEMMA InitIceReported ==
  ASSUME TypeInv, ReportInv, failed = "no", queue["sig"] # <<>>, InitIceTransport
  PROVE ReportInv'
<1> DEFINE sig == queue["sig"]
           net == queue["net"]
           h == PostNet(Begin, Item("newIce"))
<1>1. First("sig") = InitIce
  BY FirstType DEF InitIceTransport, SigItems, InitIce, Item
<1>2. In(sig, InitIce)
  BY <1>1, TailIn DEF First, TypeInv
<1>3. IceFirst(sig, net) /\ NothingYet(sig, net) /\ agent.connects \in Nat
  BY DEF ReportInv
<1>4. tr.ice = "none" /\ agent.connects = 0 /\ ~In(net, NewIce)
  BY <1>2, <1>3 DEF IceFirst
<1>5. Finish(h, Idle, "", Taken("sig"))
  BY <1>4 DEF InitIceTransport, Simple
<1>6. h.ends = "return" /\ h.pc = pc /\ h.net = <<NewIce>> /\ NewIce \in NetItems
  BY DEF Begin, PostNet, NewIce, Item, NetItems
<1> HIDE DEF h
<1>7. /\ SigDrops(queue["sig"], queue'["sig"], First("sig"))
      /\ NetGains(queue["net"], queue'["net"], NewIce)
      /\ blocked'["net"] = blocked["net"] /\ tr' = tr /\ agent' = agent /\ pc' = pc
  BY <1>5, <1>6, SigMoves DEF Survives
<1>8. FirstConnection(queue["sig"], queue["net"])
  BY <1>4 DEF ReportInv
<1>9. Lost(queue["net"])' /\ Lost(queue["net"])
  BY <1>3, <1>4, <1>7, TokensDiffer, WatchedOps DEF NothingYet, Lost, NetGains
<1>10. IceFirst(queue["sig"], queue["net"])'
  BY <1>1, <1>3, <1>4, <1>7, TokensDiffer DEF IceFirst, SigDrops, NetGains
<1>11. NothingYet(queue["sig"], queue["net"])'
  BY <1>3, <1>4, <1>7, <1>9, TokensDiffer DEF NothingYet, SigDrops, NetGains
<1>12. OneWay(queue["sig"], queue["net"])'
  BY <1>3, <1>4, <1>7, <1>8, TokensDiffer, WatchedOps DEF FirstConnection, NothingYet, OneWay, SigDrops, NetGains
<1>13. DownBefore(queue["net"], agent.state)'
  BY <1>7, <1>8, TokensDiffer, WatchedOps DEF FirstConnection, NetGains
<1>14. TimersBefore(queue["sig"], queue["net"])' /\ SctpAfter(queue["sig"], queue["net"])' /\ UpIsSaid(queue["sig"], queue["net"])'
  BY <1>3, <1>4, <1>7, <1>9, <1>11 DEF TimersBefore, SctpAfter, UpIsSaid, NothingYet
<1> QED
  BY <1>3, <1>7, <1>10, <1>11, <1>12, <1>13, <1>14 DEF ReportInv, FirstConnection

\* The report of the ICE connection asks for the DTLS transport, or the process dies.
LEMMA IceUpReported ==
  ASSUME TypeInv, ReportInv, failed = "no", queue["sig"] # <<>>, OnIceTransportStateChanged,
         First("sig").arg = "CONNECTED"
  PROVE ReportInv'
<1> DEFINE h == InitDtlsTransport(Begin)
<1>1. Finish(h, Idle, "", Taken("sig"))
  BY DEF OnIceTransportStateChanged, Simple
<1>2. First("sig") = IceUp
  BY FirstType DEF OnIceTransportStateChanged, SigItems, IceUp, ItemOf
<1>3. /\ h.ends # "invoke" /\ h.pc = pc /\ NewDtls \in NetItems
      /\ \/ h.net = <<>> /\ (tr.dtls # "none" \/ (~Survives(h) /\ h.ends # "no"))
         \/ h.net = <<NewDtls>> /\ tr.dtls = "none"
  BY DEF InitDtlsTransport, Begin, PostNet, Ends, NewDtls, Item, NetItems, Survives
<1> HIDE DEF h
<1>4. /\ SigDrops(queue["sig"], queue'["sig"], IceUp)
      /\ \/ queue'["net"] = queue["net"] /\ (tr.dtls # "none" \/ failed' # "no")
         \/ NetGains(queue["net"], queue'["net"], NewDtls) /\ tr.dtls = "none"
      /\ blocked'["net"] = blocked["net"] /\ tr' = tr /\ agent' = agent /\ pc' = pc
  BY <1>1, <1>2, <1>3, SigMoves
<1>5. IceFirst(queue["sig"], queue["net"]) /\ NothingYet(queue["sig"], queue["net"]) /\ agent.connects \in Nat
  BY DEF ReportInv
<1>6. agent.connects # 0
  BY <1>4, <1>5 DEF NothingYet, SigDrops
<1>7. \A x : x # NewDtls => (In(queue'["net"], x) <=> In(queue["net"], x)) /\ (Uniq(queue["net"], x) => Uniq(queue'["net"], x))
  BY <1>4 DEF NetGains
<1>8. IceFirst(queue["sig"], queue["net"])'
  BY <1>4, <1>5, <1>7, TokensDiffer DEF IceFirst, SigDrops
<1>9. NothingYet(queue["sig"], queue["net"])'
  BY <1>4, <1>6 DEF NothingYet
<1>10. ASSUME agent.connects <= 1 PROVE FirstConnection(queue["sig"], queue["net"])'
  BY <1>4, <1>7, <1>10, TokensDiffer, WatchedOps
     DEF ReportInv, FirstConnection, OneWay, SigDrops, NetGains, Lost, TimersBefore, SctpAfter, UpIsSaid
<1> QED
  BY <1>4, <1>5, <1>8, <1>9, <1>10 DEF ReportInv

\* The end of the handshake makes the SCTP transport or reports the connection.
LEMMA DtlsUpReported ==
  ASSUME TypeInv, ReportInv, failed = "no", queue["sig"] # <<>>, OnDtlsTransportStateChanged,
         First("sig").arg = "CONNECTED"
  PROVE ReportInv'
<1> DEFINE up == IF pc.remote_sdp # None /\ pc.remote_sdp.app THEN InitSctpTransport(Begin)
                 ELSE UpdateConnectionState(Begin, "CONNECTED")
           h == [up EXCEPT !.pc.opened = @ \cup pc.media_tracks]
<1>1. Finish(h, Idle, "", Taken("sig"))
  BY DEF OnDtlsTransportStateChanged, Simple
<1>2. First("sig") = DtlsUp
  BY FirstType DEF OnDtlsTransportStateChanged, SigItems, DtlsUp, ItemOf
<1>3. /\ up = [f \in HandlerFields |-> up[f]] /\ up.pc = [f \in PcFields |-> up.pc[f]]
      /\ \/ /\ up.net = <<>> /\ up.pc.connection = pc.connection
            /\ \/ up.ends = "return" /\ tr.sctp # "none"
               \/ up.ends = "assert(dtls_transport_)" /\ tr.dtls = "none"
         \/ up.net = <<NewSctp>> /\ up.pc.connection = pc.connection /\ up.ends = "return"
         \/ up.net = <<>> /\ up.pc.connection = "CONNECTED" /\ up.ends = "return"
  <2>1. Silent(Begin, pc.connection) /\ Begin.ends = "return"
    BY SilentBegin
  <2>2. Silent(UpdateConnectionState(Begin, "CONNECTED"), "CONNECTED") /\ UpdateConnectionState(Begin, "CONNECTED").ends = "return"
    BY SilentBegin
  <2> HIDE DEF Begin, UpdateConnectionState
  <2>3. CASE pc.remote_sdp # None /\ pc.remote_sdp.app
    <3>1. up = IF tr.sctp # "none" THEN Begin
               ELSE IF tr.dtls = "none" THEN [Begin EXCEPT !.ends = "assert(dtls_transport_)"]
               ELSE [Begin EXCEPT !.net = Append(@, NewSctp)]
      BY <2>3 DEF InitSctpTransport, PostNet, Ends, NewSctp
    <3>2. CASE tr.sctp # "none"
      BY <2>1, <3>1, <3>2 DEF Silent
    <3>3. CASE tr.sctp = "none" /\ tr.dtls = "none"
      BY <2>1, <3>1, <3>3 DEF Silent, HandlerFields
    <3>4. CASE tr.sctp = "none" /\ tr.dtls # "none"
      BY <2>1, <3>1, <3>4 DEF Silent, HandlerFields
    <3> QED
      BY <3>2, <3>3, <3>4
  <2>4. CASE ~(pc.remote_sdp # None /\ pc.remote_sdp.app)
    BY <2>2, <2>4 DEF Silent
  <2> QED
    BY <2>3, <2>4
<1> HIDE DEF up
<1>4. h.net = up.net /\ h.ends = up.ends /\ h.pc.connection = up.pc.connection
  BY <1>3 DEF HandlerFields, PcFields
<1> HIDE DEF h
<1>5. NewSctp \in NetItems
  BY DEF NewSctp, Item, NetItems
<1>6. /\ SigDrops(queue["sig"], queue'["sig"], DtlsUp)
      /\ h.net = <<>> => queue'["net"] = queue["net"]
      /\ h.net = <<NewSctp>> => NetGains(queue["net"], queue'["net"], NewSctp)
      /\ blocked'["net"] = blocked["net"] /\ tr' = tr /\ agent' = agent
      /\ pc' = IF Survives(h) THEN h.pc ELSE pc
  BY <1>1, <1>2, <1>3, <1>4, <1>5, SigMoves
<1>7. \/ /\ queue'["net"] = queue["net"] /\ pc'.connection = pc.connection /\ (tr.sctp # "none" \/ tr.dtls = "none")
      \/ /\ NetGains(queue["net"], queue'["net"], NewSctp) /\ pc'.connection = pc.connection
      \/ /\ queue'["net"] = queue["net"] /\ pc'.connection = "CONNECTED"
  BY <1>3, <1>4, <1>6 DEF Survives
<1>8. IceFirst(queue["sig"], queue["net"]) /\ NothingYet(queue["sig"], queue["net"]) /\ agent.connects \in Nat
  BY DEF ReportInv
<1>9. agent.connects # 0
  BY <1>6, <1>8 DEF NothingYet, SigDrops
<1>10. \A x : x # NewSctp => (In(queue'["net"], x) <=> In(queue["net"], x)) /\ (Uniq(queue["net"], x) => Uniq(queue'["net"], x))
  BY <1>7 DEF NetGains
<1>11. IceFirst(queue["sig"], queue["net"])' /\ NothingYet(queue["sig"], queue["net"])'
  BY <1>6, <1>8, <1>9, <1>10, TokensDiffer DEF IceFirst, NothingYet, SigDrops
<1>12. ASSUME agent.connects <= 1 PROVE FirstConnection(queue["sig"], queue["net"])'
  <2>1. FirstConnection(queue["sig"], queue["net"])
    BY <1>12 DEF ReportInv
  <2>2. /\ Never(queue["net"], AgentDone, AgentUp) => Never(queue'["net"], AgentDone, AgentUp)
        /\ Follows(queue["net"], Timeout, NewDtls) => Follows(queue'["net"], Timeout, NewDtls)
        /\ DownBefore(queue["net"], agent.state) => DownBefore(queue'["net"], agent.state)
    BY <1>7, TokensDiffer, WatchedOps DEF NetGains
  <2>3. \A x \in {IceUp, SctpUp} : In(queue'["sig"], x) <=> In(queue["sig"], x)
    BY <1>6, TokensDiffer DEF SigDrops
  <2>4. OneWay(queue["sig"], queue["net"])' /\ DownBefore(queue["net"], agent.state)'
    BY <1>6, <1>10, <2>1, <2>2, <2>3, TokensDiffer DEF FirstConnection, OneWay, SigDrops
  <2>5. Lost(queue["net"])' <=> Lost(queue["net"])
    BY <1>6, <1>10, TokensDiffer, WatchedOps DEF Lost
  <2>6. TimersBefore(queue["sig"], queue["net"])'
    BY <1>6, <1>10, <2>1, <2>2, <2>3, <2>5, TokensDiffer DEF FirstConnection, TimersBefore
  <2>7. SctpAfter(queue["sig"], queue["net"])'
    BY <1>6, <2>1 DEF FirstConnection, SctpAfter, SigDrops
  <2>8. In(queue["net"], NewSctp) => In(queue'["net"], NewSctp)
    BY <1>7 DEF NetGains
  <2>9. Says(queue["sig"], SctpUp) => Says(queue["sig"], SctpUp)'
    BY <1>6, <1>7, TokensDiffer DEF Says, SigDrops
  <2>10. Says(queue["sig"], DtlsUp) /\ tr.sctp = "none" /\ tr.dtls # "none" => Says(queue["sig"], DtlsUp)' \/ In(queue'["net"], NewSctp)
    BY <1>6, <1>7 DEF Says, SigDrops, NetGains
  <2>11. UpIsSaid(queue["sig"], queue["net"])'
    BY <1>6, <2>1, <2>5, <2>8, <2>9, <2>10 DEF FirstConnection, UpIsSaid
  <2> QED
    BY <2>4, <2>6, <2>7, <2>11 DEF FirstConnection
<1> QED
  BY <1>6, <1>8, <1>11, <1>12 DEF ReportInv

\* The SCTP transport reports the connection.
LEMMA SctpUpReported ==
  ASSUME TypeInv, ReportInv, failed = "no", queue["sig"] # <<>>, OnSctpTransportStateChanged,
         First("sig").arg = "CONNECTED"
  PROVE ReportInv'
<1> DEFINE h == UpdateConnectionState(Begin, "CONNECTED")
<1>1. Finish(h, Idle, "", Taken("sig"))
  BY DEF OnSctpTransportStateChanged, Simple
<1>2. First("sig") = SctpUp
  BY FirstType DEF OnSctpTransportStateChanged, SigItems, SctpUp, ItemOf
<1>3. h.net = <<>> /\ h.pc.connection = "CONNECTED" /\ h.ends = "return"
  BY SilentBegin DEF Silent
<1> HIDE DEF h
<1>4. /\ SigDrops(queue["sig"], queue'["sig"], SctpUp)
      /\ queue'["net"] = queue["net"] /\ pc'.connection = "CONNECTED" /\ failed' = failed
      /\ blocked'["net"] = blocked["net"] /\ tr' = tr /\ agent' = agent
  BY <1>1, <1>2, <1>3, SigMoves DEF Survives
<1>5. \A x \in {InitIce, IceUp, DtlsUp} : In(queue'["sig"], x) <=> In(queue["sig"], x)
  BY <1>4, TokensDiffer DEF SigDrops
<1>6. \A x : Says(queue["sig"], x) => Says(queue["sig"], x)'
  BY <1>4 DEF SigDrops, Says
<1>7. Lost(queue["net"])' <=> Lost(queue["net"])
  BY <1>4 DEF Lost
<1>8. IceFirst(queue["sig"], queue["net"])' /\ NothingYet(queue["sig"], queue["net"])'
  BY <1>4, <1>5, <1>7 DEF ReportInv, IceFirst, NothingYet, SigDrops
<1>9. ASSUME agent.connects <= 1 PROVE FirstConnection(queue["sig"], queue["net"])'
  BY <1>4, <1>5, <1>6, <1>7, <1>9 DEF ReportInv, FirstConnection, OneWay, SigDrops, TimersBefore, SctpAfter, UpIsSaid
<1> QED
  BY <1>4, <1>8, <1>9 DEF ReportInv

\* The reports of the transports.
LEMMA ReportsTaken ==
  ASSUME TypeInv, ReportInv, failed = "no", queue["sig"] # <<>>,
         OnIceTransportStateChanged \/ OnDtlsTransportStateChanged \/ OnSctpTransportStateChanged
  PROVE ReportInv'
<1> DEFINE state == First("sig").arg
           g == UpdateConnectionState(Begin, state)
<1>1. CASE state = "CONNECTED"
  BY <1>1, IceUpReported, DtlsUpReported, SctpUpReported
<1>2. CASE state # "CONNECTED"
  <2>1. First("sig") \in BadReports
    BY <1>2, FirstType
       DEF OnIceTransportStateChanged, OnDtlsTransportStateChanged, OnSctpTransportStateChanged, SigItems, BadReports, ItemOf
  <2>2. Silent(g, state) /\ g.ends = "return"
    BY SilentBegin
  <2>3. \A h, d : Silent(h, d) => \A v :
          /\ Silent([h EXCEPT !.pc.media_tracks = v], d) /\ [h EXCEPT !.pc.media_tracks = v].ends = h.ends
          /\ Silent([h EXCEPT !.pc.opened = v], d) /\ [h EXCEPT !.pc.opened = v].ends = h.ends
          /\ Silent([h EXCEPT !.pc.closed = v], d) /\ [h EXCEPT !.pc.closed = v].ends = h.ends
          /\ Silent([h EXCEPT !.pc.data_channels = v], d) /\ [h EXCEPT !.pc.data_channels = v].ends = h.ends
    BY SilentEdit DEF PcFields
  <2>4. ASSUME NEW h, Silent(h, state), h.ends = "return", Finish(h, Idle, "", Taken("sig")) PROVE ReportInv'
    BY <2>1, <2>4, BadReported DEF Silent
  <2>5. CASE OnIceTransportStateChanged
    <3>1. Finish(g, Idle, "", Taken("sig"))
      BY <1>2, <2>5 DEF OnIceTransportStateChanged, Simple
    <3> HIDE DEF g, state
    <3> QED
      BY <2>2, <2>4, <3>1
  <2>6. CASE OnDtlsTransportStateChanged
    <3> DEFINE b == [g EXCEPT !.pc.opened = {}]
               h == [b EXCEPT !.pc.media_tracks = {}]
    <3>1. Finish(h, Idle, "", Taken("sig"))
      BY <1>2, <2>6 DEF OnDtlsTransportStateChanged, Simple, CloseMediaTracks
    <3> HIDE DEF g, state
    <3>2. Silent(b, state) /\ b.ends = "return"
      BY <2>2, <2>3
    <3> HIDE DEF b
    <3>3. Silent(h, state) /\ h.ends = "return"
      BY <2>3, <3>2
    <3> HIDE DEF h
    <3> QED
      BY <2>4, <3>1, <3>3
  <2>7. CASE OnSctpTransportStateChanged
    <3> DEFINE u == g.pc.closed \cup g.pc.data_channels
               a == [g EXCEPT !.pc.closed = u]
               h == [a EXCEPT !.pc.data_channels = {}]
    <3>1. Finish(h, Idle, "", Taken("sig"))
      BY <1>2, <2>7 DEF OnSctpTransportStateChanged, Simple, CloseDataChannels
    <3> HIDE DEF g, state, u
    <3>2. Silent(a, state) /\ a.ends = "return"
      BY <2>2, <2>3
    <3> HIDE DEF a
    <3>3. Silent(h, state) /\ h.ends = "return"
      BY <2>3, <3>2
    <3> HIDE DEF h
    <3> QED
      BY <2>4, <3>1, <3>3
  <2> QED
    BY <2>5, <2>6, <2>7
<1> QED
  BY <1>1, <1>2

\* The signaling queue.
LEMMA SignalingReported ==
  ASSUME NegotiationInv, ReportInv, Signaling
  PROVE ReportInv'
<1>1. TypeInv
  BY DEF NegotiationInv
<1>2. CASE Ready("sig") /\ (InitIceTransport \/ OnIceTransportStateChanged \/ OnDtlsTransportStateChanged
                            \/ OnSctpTransportStateChanged)
  BY <1>1, <1>2, InitIceReported, ReportsTaken DEF Ready
<1>3. CASE Ready("sig") /\ (CreateOffer \/ CreateAnswer \/ SetRemote \/ AddRemoteCandidate)
  BY <1>1, <1>3, NegotiationPlain, PlainKept DEF CreateOffer, CreateAnswer, SetRemote, AddRemoteCandidate, SigWatch, Ready
<1>4. CASE Ready("sig") /\ (AddMediaTrack \/ AddDataChannel \/ ShiftDataChannels \/ OnGatheringStateChanged
                            \/ OnDtlsVerify \/ CloseSignaling)
  BY <1>1, <1>4, OtherPlain, PlainKept DEF AddMediaTrack, AddDataChannel, ShiftDataChannels, OnGatheringStateChanged,
     OnDtlsVerify, CloseSignaling, SigWatch, Ready
<1>5. CASE ResumeLocalDescription \/ ResumeAddDataChannel \/ ResumeAddDataChannelOpen
  BY <1>1, <1>5, NegotiationPlain, OtherPlain, PlainKept
     DEF ResumeLocalDescription, ResumeAddDataChannel, ResumeAddDataChannelOpen, Finish, TypeInv, Queues
<1> QED
  BY <1>2, <1>3, <1>4, <1>5 DEF Signaling

\* A closure of the network queue takes itself and posts reports.
LEMMA NetMoves ==
  ASSUME TypeInv, queue["net"] # <<>>, NEW t, NEW posts \in Seq(SigItems), NetDone(t, posts)
  PROVE /\ NetDrops(queue["net"], queue'["net"], First("net"))
        /\ SigGains(queue["sig"], queue'["sig"], posts)
        /\ queue'["net"] = Tail(queue["net"]) /\ queue'["sig"] = queue["sig"] \o posts
        /\ posts = <<>> => queue'["sig"] = queue["sig"]
        /\ blocked' = blocked /\ pc' = pc /\ tr' = t /\ agent' = agent
<1>1. queue["sig"] \in Seq(SigItems) /\ queue["net"] \in Seq(NetItems)
  BY DEF TypeInv
<1>2. /\ queue' = [Taken("net") EXCEPT !["sig"] = @ \o posts]
      /\ blocked' = blocked /\ pc' = pc /\ tr' = t /\ agent' = agent
  BY DEF NetDone
<1>3. queue'["net"] = Tail(queue["net"]) /\ queue'["sig"] = queue["sig"] \o posts
  <2> HIDE DEF Taken
  <2> QED
    BY <1>2, FirstType DEF Queues
<1>4. NetDrops(queue["net"], Tail(queue["net"]), Head(queue["net"]))
  BY <1>1, Drops
<1>5. SigGains(queue["sig"], queue["sig"] \o posts, posts)
  BY <1>1, Gains
<1>6. posts = <<>> => queue["sig"] \o posts = queue["sig"]
  BY <1>1, ConcatEmptySeq
<1> QED
  BY <1>2, <1>3, <1>4, <1>5, <1>6 DEF First

\* A closure of the network queue that the invariant is not about.
LEMMA NetPlain ==
  ASSUME TypeInv, ReportInv, failed = "no", queue["net"] # <<>>, First("net").op \notin NetWatch,
         NEW t, t.ice = tr.ice, t.timer = tr.timer, t.dtls = tr.dtls, t.sctp = tr.sctp,
         NEW posts \in Seq(SigItems), \A i \in 1..Len(posts) : posts[i].op \notin SigWatch, NetDone(t, posts)
  PROVE ReportInv'
<1>1. /\ queue'["net"] = Tail(queue["net"]) /\ queue'["sig"] = queue["sig"] \o posts
      /\ blocked' = blocked /\ pc' = pc /\ tr' = t /\ agent' = agent
  BY NetMoves
<1>2. queue["sig"] \in Seq(SigItems) /\ queue["net"] \in Seq(NetItems)
  BY DEF TypeInv
<1>3. KeepsNet(queue["net"], queue'["net"]) /\ KeepsSig(queue["sig"], queue'["sig"])
  BY <1>1, <1>2, KeepsBoth DEF First
<1> QED
  BY <1>1, <1>3, ReportKept

\* The closures that leave the transports as they are.
LEMMA QueriesKept ==
  ASSUME TypeInv, ReportInv, failed = "no", queue["net"] # <<>>,
         Query \/ Gather \/ SetRemoteIce \/ AddIceCandidate \/ OnGatheringDone
  PROVE ReportInv'
<1>1. tr = [f \in TrFields |-> tr[f]]
  BY DEF TypeInv
<1>2. First("net").op \notin NetWatch
  BY DEF Query, Gather, SetRemoteIce, AddIceCandidate, OnGatheringDone, NetWatch
<1>3. <<>> \in Seq(SigItems) /\ \A i \in 1..Len(<<>>) : <<>>[i].op \notin SigWatch
  BY PostsType
<1>4. NetDone(tr, <<>>) => ReportInv'
  BY <1>2, <1>3, NetPlain
<1>5. \A e : e.op \notin SigWatch => \A i \in 1..Len(<<e>>) : <<e>>[i].op \notin SigWatch
  OBVIOUS
<1>6. CASE Query
  BY <1>4, <1>6 DEF Query, WithIce, NetFails
<1>7. CASE AddIceCandidate
  BY <1>4, <1>7 DEF AddIceCandidate, WithIce, NetFails
<1>8. CASE Gather
  <2> DEFINE t == [tr EXCEPT !.gathering = "GATHERING"]
             e == ItemOf("gathering", "GATHERING")
             posts == IF tr.gathering = "GATHERING" THEN <<>> ELSE <<e>>
  <2>1. NetDone(tr, <<>>) \/ NetDone(t, posts)
    BY <1>8 DEF Gather, WithIce, NetFails
  <2>2. t.ice = tr.ice /\ t.timer = tr.timer /\ t.dtls = tr.dtls /\ t.sctp = tr.sctp
    BY <1>1 DEF TrFields
  <2>3. e.op \notin SigWatch
    BY DEF ItemOf, SigWatch
  <2>4. posts \in Seq(SigItems)
    BY PostsType
  <2> HIDE DEF e
  <2>5. \A i \in 1..Len(posts) : posts[i].op \notin SigWatch
    BY <1>3, <1>5, <2>3
  <2> HIDE DEF t, posts
  <2> QED
    BY <1>2, <1>4, <2>1, <2>2, <2>4, <2>5, NetPlain
<1>9. CASE OnGatheringDone
  <2> DEFINE t == [tr EXCEPT !.gathering = "COMPLETED"]
             e == ItemOf("gathering", "COMPLETED")
             posts == Reported(tr.gathering, "COMPLETED", "gathering")
  <2>1. NetDone(tr, <<>>) \/ NetDone(t, posts)
    BY <1>9 DEF OnGatheringDone, OfIce, NetFails
  <2>2. t.ice = tr.ice /\ t.timer = tr.timer /\ t.dtls = tr.dtls /\ t.sctp = tr.sctp
    BY <1>1 DEF TrFields
  <2>3. e.op \notin SigWatch
    BY DEF ItemOf, SigWatch
  <2>4. posts \in Seq(SigItems) /\ posts \in {<<>>, <<e>>}
    BY PostsType DEF Reported
  <2> HIDE DEF e, posts
  <2>5. \A i \in 1..Len(posts) : posts[i].op \notin SigWatch
    BY <1>3, <1>5, <2>3, <2>4
  <2> HIDE DEF t
  <2> QED
    BY <1>2, <1>4, <2>1, <2>2, <2>4, <2>5, NetPlain
<1>10. CASE SetRemoteIce
  <2> DEFINE theirs == First("net").arg
             changes == tr.role = "ACT_PASS"
             role == IF ~changes THEN tr.role
                     ELSE IF theirs = "ACTIVE" THEN "PASSIVE" ELSE "ACTIVE"
             t == [tr EXCEPT !.role = role, !.trickle = @ \/ role # theirs]
             e == ItemOf("role", role)
             posts == IF changes THEN <<e>> ELSE <<>>
  <2>1. NetDone(tr, <<>>) \/ NetDone(t, posts)
    BY <1>10 DEF SetRemoteIce, WithIce, NetFails
  <2>2. posts \in Seq(SigItems)
    BY PostsType DEF Roles
  <2>3. e.op \notin SigWatch
    BY DEF ItemOf, SigWatch
  <2> HIDE DEF e
  <2>4. \A i \in 1..Len(posts) : posts[i].op \notin SigWatch
    BY <1>3, <1>5, <2>3
  <2> HIDE DEF role, posts
  <2>5. t.ice = tr.ice /\ t.timer = tr.timer /\ t.dtls = tr.dtls /\ t.sctp = tr.sctp
    BY <1>1 DEF TrFields
  <2> HIDE DEF t
  <2> QED
    BY <1>2, <1>4, <2>1, <2>2, <2>4, <2>5, NetPlain
<1> QED
  BY <1>6, <1>7, <1>8, <1>9, <1>10

\* A closure that finds no ICE transport dies.
LEMMA NetDies ==
  ASSUME TypeInv, ReportInv, queue["net"] # <<>>, tr.ice = "none", NetDone(tr, <<>>), failed' # "no"
  PROVE ReportInv'
<1>1. /\ NetDrops(queue["net"], queue'["net"], First("net"))
      /\ queue'["sig"] = queue["sig"] /\ blocked' = blocked /\ pc' = pc /\ tr' = tr /\ agent' = agent
  BY NetMoves, PostsType
<1>2. Lost(queue["net"]) => Lost(queue["net"])'
  BY <1>1 DEF Lost, NetDrops
<1>3. IceFirst(queue["sig"], queue["net"])' /\ NothingYet(queue["sig"], queue["net"])'
  BY <1>1, <1>2 DEF ReportInv, IceFirst, NothingYet, NetDrops
<1>4. ASSUME agent.connects <= 1 PROVE FirstConnection(queue["sig"], queue["net"])'
  BY <1>1, <1>4 DEF ReportInv, FirstConnection, OneWay, NetDrops, TimersBefore, SctpAfter, UpIsSaid
<1> QED
  BY <1>1, <1>3, <1>4 DEF ReportInv

\* What the agent says of a connection that is not there: the ICE transport loses it, or
\* holds the failure back until a timer runs out.
LEMMA DownTaken ==
  ASSUME TypeInv, ReportInv, failed = "no", queue["net"] # <<>>, tr.ice # "none",
         First("net") \in AgentDown \cup {Timeout}, NEW t, NEW posts \in Seq(SigItems),
         \A x \in SigTokens : ~In(posts, x), NetDone(t, posts),
         t.dtls = tr.dtls, t.sctp = tr.sctp, t.ice # "none",
         \/ t.ice = tr.ice /\ posts = <<>> /\ t.timer = "armed" /\ First("net") # Timeout
         \/ t.ice \notin Connections /\ (t.timer = tr.timer \/ t.timer = "off")
  PROVE ReportInv'
<1>1. /\ NetDrops(queue["net"], queue'["net"], First("net"))
      /\ SigGains(queue["sig"], queue'["sig"], posts)
      /\ posts = <<>> => queue'["sig"] = queue["sig"]
      /\ blocked' = blocked /\ pc' = pc /\ tr' = t /\ agent' = agent
  BY NetMoves
<1>2. /\ InitIce \in SigTokens /\ IceUp \in SigTokens /\ DtlsUp \in SigTokens
      /\ \A x \in SigTokens : (In(queue'["sig"], x) <=> In(queue["sig"], x)) /\ (Uniq(queue["sig"], x) => Uniq(queue'["sig"], x))
  BY <1>1 DEF SigGains, SigTokens
<1>3. \A x \in {NewIce, AgentUp, AgentDone, NewDtls, NewSctp} :
         First("net") # x /\ (In(queue'["net"], x) <=> In(queue["net"], x)) /\ (Uniq(queue["net"], x) => Uniq(queue'["net"], x))
  BY <1>1, WatchedOps DEF NetDrops
<1>4. Lost(queue["net"])' <=> Lost(queue["net"])
  BY <1>1, <1>3 DEF Lost
<1>5. IceFirst(queue["sig"], queue["net"])' /\ NothingYet(queue["sig"], queue["net"])'
  BY <1>1, <1>2, <1>3, <1>4 DEF ReportInv, IceFirst, NothingYet
<1>6. ASSUME agent.connects <= 1 PROVE FirstConnection(queue["sig"], queue["net"])'
  <2>1. FirstConnection(queue["sig"], queue["net"])
    BY <1>6 DEF ReportInv
  <2>2. /\ First("net") \in AgentDown => In(queue["net"], AgentUp) \/ Lost(queue["net"])
        /\ First("net") = Timeout => \/ In(queue["net"], AgentUp) \/ Lost(queue["net"])
                                     \/ In(queue["sig"], IceUp) \/ In(queue["net"], NewDtls)
    BY <1>1, <1>3, <2>1 DEF FirstConnection, NetDrops, Lost, TimersBefore
  <2>3. OneWay(queue["sig"], queue["net"])' /\ DownBefore(queue["net"], agent.state)'
    BY <1>1, <1>2, <1>3, <2>1 DEF FirstConnection, OneWay, NetDrops
  <2>4. TimersBefore(queue["sig"], queue["net"])'
    BY <1>1, <1>2, <1>3, <1>4, <2>1, <2>2 DEF FirstConnection, TimersBefore, NetDrops
  <2>5. SctpAfter(queue["sig"], queue["net"])'
    BY <1>1, <1>2, <1>3, <2>1 DEF FirstConnection, SctpAfter
  <2>6. UpIsSaid(queue["sig"], queue["net"])'
    BY <1>1, <1>3, <1>4, <2>1, <2>2 DEF FirstConnection, UpIsSaid, Says, OneWay
  <2> QED
    BY <2>3, <2>4, <2>5, <2>6 DEF FirstConnection
<1> QED
  BY <1>1, <1>5, <1>6 DEF ReportInv

\* The agent's connection reaches the ICE transport, which reports it.
LEMMA UpTaken ==
  ASSUME TypeInv, ReportInv, failed = "no", queue["net"] # <<>>, tr.ice # "none", First("net") = AgentUp,
         NEW t, NetDone(t, Reported(tr.ice, "CONNECTED", "iceState")),
         t.dtls = tr.dtls, t.sctp = tr.sctp, t.ice = "CONNECTED", t.timer = "off"
  PROVE ReportInv'
<1> DEFINE posts == Reported(tr.ice, "CONNECTED", "iceState")
<1>1. /\ NetDrops(queue["net"], queue'["net"], AgentUp)
      /\ SigGains(queue["sig"], queue'["sig"], posts)
      /\ blocked' = blocked /\ pc' = pc /\ tr' = t /\ agent' = agent
  BY NetMoves, PostsType DEF States
<1>2. /\ \A x : x # IceUp => ~In(posts, x)
      /\ tr.ice # "CONNECTED" => In(posts, IceUp) /\ Uniq(posts, IceUp)
  BY OneIn DEF Reported, IceUp
<1> HIDE DEF posts
<1>3. /\ \A x : x # IceUp => (In(queue'["sig"], x) <=> In(queue["sig"], x)) /\ (Uniq(queue["sig"], x) => Uniq(queue'["sig"], x))
      /\ \A x : x # AgentUp => In(queue'["net"], x) <=> In(queue["net"], x)
      /\ \A x : Uniq(queue["net"], x) => Uniq(queue'["net"], x)
  BY <1>1, <1>2 DEF SigGains, NetDrops
<1>4. IceFirst(queue["sig"], queue["net"]) /\ NothingYet(queue["sig"], queue["net"]) /\ agent.connects \in Nat
  BY DEF ReportInv
<1>5. agent.connects # 0 /\ In(queue["net"], AgentUp)
  BY <1>1, <1>4 DEF NothingYet, Lost, NetDrops
<1>6. IceFirst(queue["sig"], queue["net"])' /\ NothingYet(queue["sig"], queue["net"])'
  BY <1>1, <1>3, <1>4, <1>5, TokensDiffer DEF IceFirst, NothingYet
<1>7. ASSUME agent.connects <= 1 PROVE FirstConnection(queue["sig"], queue["net"])'
  BY <1>1, <1>2, <1>3, <1>5, <1>7, TokensDiffer
     DEF ReportInv, FirstConnection, OneWay, NetDrops, Connections, SigGains, TimersBefore, UpIsSaid, SctpAfter
<1> QED
  BY <1>1, <1>4, <1>6, <1>7 DEF ReportInv

\* The agent is done with its checks.
LEMMA DoneTaken ==
  ASSUME TypeInv, ReportInv, failed = "no", queue["net"] # <<>>, tr.ice # "none", First("net") = AgentDone,
         NEW t, NetDone(t, <<>>),
         t.dtls = tr.dtls, t.sctp = tr.sctp, t.ice = "COMPLETED", t.timer = tr.timer
  PROVE ReportInv'
<1>1. /\ NetDrops(queue["net"], queue'["net"], AgentDone)
      /\ queue'["sig"] = queue["sig"] /\ blocked' = blocked /\ pc' = pc /\ tr' = t /\ agent' = agent
  BY NetMoves, PostsType
<1>2. \A x : /\ x # AgentDone => (In(queue'["net"], x) <=> In(queue["net"], x))
             /\ Uniq(queue["net"], x) => Uniq(queue'["net"], x)
  BY <1>1 DEF NetDrops
<1>3. In(queue["net"], AgentDone) /\ ~Lost(queue["net"])
  BY <1>1 DEF NetDrops, Lost
<1>4. IceFirst(queue["sig"], queue["net"]) /\ NothingYet(queue["sig"], queue["net"]) /\ agent.connects \in Nat
  BY DEF ReportInv
<1>5. agent.connects # 0
  BY <1>3, <1>4 DEF NothingYet
<1>6. IceFirst(queue["sig"], queue["net"])' /\ NothingYet(queue["sig"], queue["net"])'
  BY <1>1, <1>2, <1>4, <1>5, WatchedOps DEF IceFirst, NothingYet
<1>7. ASSUME agent.connects <= 1 PROVE FirstConnection(queue["sig"], queue["net"])'
  BY <1>1, <1>2, <1>3, <1>7, WatchedOps
     DEF ReportInv, FirstConnection, OneWay, NetDrops, TimersBefore, SctpAfter, UpIsSaid, Says
<1> QED
  BY <1>1, <1>4, <1>6, <1>7 DEF ReportInv

\* OnNiceState and OnNiceTimeout.
LEMMA IceEventTaken ==
  ASSUME TypeInv, ReportInv, failed = "no", queue["net"] # <<>>, OnIceEvent
  PROVE ReportInv'
<1> DEFINE state == First("net").arg
           to == IF state = "timeout" THEN "FAILED" ELSE state
           timer == IF state \in {"CONNECTED", "timeout"} THEN "off" ELSE tr.timer
           posts == IF to = "COMPLETED" THEN <<>> ELSE Reported(tr.ice, to, "iceState")
           held == [tr EXCEPT !.timer = "armed"]
           t == [tr EXCEPT !.timer = timer, !.ice = to]
<1>1. tr = [f \in TrFields |-> tr[f]]
  BY DEF TypeInv
<1>2. First("net") = ItemOf("iceEvent", state) /\ state \in States \cup {"timeout"}
  BY FirstType DEF OnIceEvent, NetItems, PlainNet, ItemOf
<1>3. CASE tr.ice = "none"
  BY <1>3, NetDies DEF OnIceEvent, OfIce, NetFails
<1>4. CASE tr.ice # "none" /\ state = "FAILED" /\ tr.trickle
  <2>1. NetDone(held, <<>>)
    BY <1>4 DEF OnIceEvent, OfIce
  <2>2. held.ice = tr.ice /\ held.dtls = tr.dtls /\ held.sctp = tr.sctp /\ held.timer = "armed"
    BY <1>1 DEF TrFields
  <2>3. First("net") \in AgentDown /\ First("net") # Timeout
    BY <1>2, <1>4, WatchedOps DEF AgentDown
  <2>4. <<>> \in Seq(SigItems) /\ \A x : ~In(<<>>, x)
    BY PostsType, PostsTokens
  <2> HIDE DEF held, state
  <2> QED
    BY <1>4, <2>1, <2>2, <2>3, <2>4, DownTaken
<1>5. CASE tr.ice # "none" /\ ~(state = "FAILED" /\ tr.trickle)
  <2>1. NetDone(t, posts)
    BY <1>5 DEF OnIceEvent, OfIce
  <2> HIDE DEF posts, to, timer, state
  <2>2. t.ice = to /\ t.dtls = tr.dtls /\ t.sctp = tr.sctp /\ t.timer = timer
    BY <1>1 DEF TrFields
  <2> HIDE DEF t
  <2>3. CASE state = "CONNECTED"
    BY <1>2, <1>5, <2>1, <2>2, <2>3, UpTaken DEF AgentUp, to, timer, posts
  <2>4. CASE state = "COMPLETED"
    BY <1>2, <1>5, <2>1, <2>2, <2>4, DoneTaken DEF AgentDone, to, timer, posts
  <2>5. CASE state \notin {"CONNECTED", "COMPLETED"}
    BY <1>2, <1>5, <2>1, <2>2, <2>5, PostsType, PostsTokens, DownTaken
       DEF States, AgentDown, Timeout, to, timer, posts, Connections
  <2> QED
    BY <2>3, <2>4, <2>5
<1> QED
  BY <1>3, <1>4, <1>5

\* The ICE transport is made, when there is nothing yet.
LEMMA IceTaken ==
  ASSUME TypeInv, ReportInv, failed = "no", queue["net"] # <<>>, NewIceTransport
  PROVE ReportInv'
<1> DEFINE t == [tr EXCEPT !.ice = "DISCONNECTED"]
<1>1. First("net") = NewIce
  BY FirstType DEF NewIceTransport, NetItems, PlainNet, NewIce, Item
<1>2. t.ice = "DISCONNECTED" /\ t.timer = tr.timer /\ t.dtls = tr.dtls /\ t.sctp = tr.sctp
  BY DEF TypeInv, TrFields
<1>3. NetDone(t, <<>>)
  BY DEF NewIceTransport
<1> HIDE DEF t
<1>4. /\ NetDrops(queue["net"], queue'["net"], NewIce)
      /\ queue'["sig"] = queue["sig"] /\ blocked' = blocked /\ pc' = pc /\ tr' = t /\ agent' = agent
  BY <1>1, <1>3, NetMoves, PostsType
<1>5. IceFirst(queue["sig"], queue["net"]) /\ NothingYet(queue["sig"], queue["net"]) /\ agent.connects \in Nat
  BY DEF ReportInv
<1>6. agent.connects = 0 /\ ~In(queue["sig"], InitIce) /\ ~In(queue'["net"], NewIce)
  BY <1>4, <1>5 DEF IceFirst, NetDrops
<1>7. FirstConnection(queue["sig"], queue["net"])
  BY <1>6 DEF ReportInv
<1>8. Lost(queue["net"])'
  BY <1>4, <1>5, <1>6 DEF NothingYet, Lost, NetDrops
<1>9. IceFirst(queue["sig"], queue["net"])'
  BY <1>4, <1>5, <1>6 DEF IceFirst, NetDrops
<1>10. NothingYet(queue["sig"], queue["net"])'
  BY <1>2, <1>4, <1>5, <1>6, <1>8 DEF NothingYet, NetDrops, Connections
<1>11. OneWay(queue["sig"], queue["net"])' /\ DownBefore(queue["net"], agent.state)'
  BY <1>2, <1>4, <1>7, <1>8, <1>10, <1>6 DEF FirstConnection, OneWay, NetDrops, Lost, NothingYet
<1>12. /\ TimersBefore(queue["sig"], queue["net"])' /\ SctpAfter(queue["sig"], queue["net"])'
       /\ UpIsSaid(queue["sig"], queue["net"])'
  BY <1>4, <1>6, <1>8, <1>10 DEF TimersBefore, SctpAfter, UpIsSaid, NothingYet
<1> QED
  BY <1>2, <1>4, <1>5, <1>6, <1>9, <1>10, <1>11, <1>12, <1>7 DEF ReportInv, FirstConnection

\* The DTLS transport is made: the first connection has arrived.
LEMMA DtlsTaken ==
  ASSUME TypeInv, ReportInv, failed = "no", queue["net"] # <<>>, NewDtlsTransport
  PROVE ReportInv'
<1> DEFINE t == [tr EXCEPT !.dtls = "CONNECTING", !.dtls_made = @ + 1, !.verified = FALSE]
<1>1. First("net") = NewDtls
  BY FirstType DEF NewDtlsTransport, NetItems, PlainNet, NewDtls, Item
<1>2. t.dtls = "CONNECTING" /\ t.timer = tr.timer /\ t.ice = tr.ice /\ t.sctp = tr.sctp
  BY DEF TypeInv, TrFields
<1>3. CASE tr.ice = "none"
  BY <1>3, NetDies DEF NewDtlsTransport, WithIce, NetFails
<1>4. CASE tr.ice # "none"
  <2>1. NetDone(t, <<>>)
    BY <1>4 DEF NewDtlsTransport, WithIce
  <2> HIDE DEF t
  <2>2. /\ NetDrops(queue["net"], queue'["net"], NewDtls)
        /\ queue'["sig"] = queue["sig"] /\ blocked' = blocked /\ pc' = pc /\ tr' = t /\ agent' = agent
    BY <1>1, <2>1, NetMoves, PostsType
  <2>3. \A x : /\ x # NewDtls => (In(queue'["net"], x) <=> In(queue["net"], x))
               /\ Uniq(queue["net"], x) => Uniq(queue'["net"], x)
    BY <2>2 DEF NetDrops
  <2>4. Lost(queue["net"])' <=> Lost(queue["net"])
    BY <2>2, <2>3, TokensDiffer, WatchedOps DEF Lost
  <2>5. IceFirst(queue["sig"], queue["net"]) /\ NothingYet(queue["sig"], queue["net"]) /\ agent.connects \in Nat
    BY DEF ReportInv
  <2>6. agent.connects # 0
    BY <2>2, <2>5 DEF NothingYet, NetDrops
  <2>7. IceFirst(queue["sig"], queue["net"])' /\ NothingYet(queue["sig"], queue["net"])'
    BY <1>2, <2>2, <2>3, <2>5, <2>6, TokensDiffer DEF IceFirst, NothingYet
  <2>8. ASSUME agent.connects <= 1 PROVE FirstConnection(queue["sig"], queue["net"])'
    BY <1>2, <1>4, <2>2, <2>3, <2>4, <2>8, TokensDiffer
       DEF ReportInv, FirstConnection, OneWay, NetDrops, TimersBefore, SctpAfter, UpIsSaid
  <2> QED
    BY <1>2, <2>2, <2>5, <2>7, <2>8 DEF ReportInv
<1> QED
  BY <1>3, <1>4

\* The handshake ends: the signaling queue, which posts holds for, will hear of it.
LEMMA HandshakeEnds ==
  ASSUME TypeInv, ReportInv, failed = "no", tr.dtls # "none", agent' = agent, pc' = pc,
         blocked'["net"] = blocked["net"] \/ blocked'["net"].op # "handshake",
         KeepsNet(queue["net"], queue'["net"]),
         tr'.ice = tr.ice, tr'.timer = tr.timer, tr'.sctp = tr.sctp,
         NEW posts, SigGains(queue["sig"], queue'["sig"], posts),
         \/ tr'.dtls = "CONNECTED" /\ posts = <<DtlsUp>>
         \/ tr.dtls # "CONNECTED" /\ tr'.dtls = "FAILED" /\ \A x \in SigTokens : ~In(posts, x)
  PROVE ReportInv'
<1>1. /\ NewIce \in Watched /\ AgentUp \in Watched /\ AgentDone \in Watched /\ NewDtls \in Watched /\ NewSctp \in Watched
      /\ \A x \in Watched : (In(queue'["net"], x) <=> In(queue["net"], x)) /\ (Uniq(queue["net"], x) => Uniq(queue'["net"], x))
  BY DEF Watched, KeepsNet
<1>2. \A x \in {InitIce, IceUp} :
         ~In(posts, x) /\ (In(queue'["sig"], x) <=> In(queue["sig"], x)) /\ (Uniq(queue["sig"], x) => Uniq(queue'["sig"], x))
  BY OneIn, TokensDiffer DEF SigTokens, SigGains
<1>3. Lost(queue["net"])' <=> Lost(queue["net"])
  BY <1>1 DEF Lost
<1>4. agent.connects # 0 /\ agent.connects \in Nat
  BY DEF ReportInv, NothingYet
<1>5. IceFirst(queue["sig"], queue["net"])' /\ NothingYet(queue["sig"], queue["net"])'
  BY <1>1, <1>2, <1>4 DEF ReportInv, IceFirst, NothingYet
<1>6. ASSUME agent.connects <= 1 PROVE FirstConnection(queue["sig"], queue["net"])'
  <2>1. FirstConnection(queue["sig"], queue["net"])
    BY <1>6 DEF ReportInv
  <2>2. ~In(queue["net"], AgentUp) /\ ~In(queue["net"], NewDtls) /\ ~In(queue["sig"], IceUp)
    BY <2>1 DEF FirstConnection, OneWay
  <2>3. OneWay(queue["sig"], queue["net"])' /\ DownBefore(queue["net"], agent.state)'
    BY <1>1, <1>2, <2>1, <2>2 DEF FirstConnection, OneWay, KeepsNet
  <2>4. TimersBefore(queue["sig"], queue["net"])'
    BY <1>1, <1>2, <1>3, <2>1 DEF FirstConnection, TimersBefore, KeepsNet
  <2>5. CASE tr'.dtls = "CONNECTED" /\ posts = <<DtlsUp>>
    <3>1. Clean(posts) /\ LastSaid(posts, DtlsUp)
      BY <2>5, WatchedOps DEF SigTokens, Clean, LastSaid
    <3>2. /\ LastSaid(queue'["sig"], DtlsUp)
          /\ Says(queue["sig"], SctpUp) => Says(queue["sig"], SctpUp)'
      BY <3>1 DEF SigGains, Says
    <3>3. tr.ice # "none" /\ tr.sctp = "CONNECTED" => tr.dtls = "CONNECTED"
      BY <2>1 DEF FirstConnection, SctpAfter
    <3>4. UpIsSaid(queue["sig"], queue["net"])'
      BY <1>3, <2>1, <3>2, <3>3 DEF FirstConnection, UpIsSaid, Says
    <3> QED
      BY <2>3, <2>4, <2>5, <3>4 DEF FirstConnection, SctpAfter
  <2>6. CASE tr.dtls # "CONNECTED" /\ tr'.dtls = "FAILED" /\ \A x \in SigTokens : ~In(posts, x)
    BY <1>1, <2>1, <2>3, <2>4, <2>6 DEF SigGains, SigTokens, FirstConnection, SctpAfter, UpIsSaid
  <2> QED
    BY <2>5, <2>6
<1> QED
  BY <1>4, <1>5, <1>6 DEF ReportInv

\* A packet of the handshake.
LEMMA PacketTaken ==
  ASSUME TypeInv, ReportInv, failed = "no", queue["net"] # <<>>, OnHandshakePacket
  PROVE ReportInv'
<1>1. First("net").op \notin NetWatch /\ tr = [f \in TrFields |-> tr[f]]
      /\ queue["sig"] \in Seq(SigItems) /\ queue["net"] \in Seq(NetItems)
  BY DEF OnHandshakePacket, NetWatch, TypeInv
<1>2. CASE NetDone(tr, <<>>)
  <2>1. <<>> \in Seq(SigItems) /\ \A i \in 1..Len(<<>>) : <<>>[i].op \notin SigWatch
    BY PostsType
  <2> QED
    BY <1>1, <1>2, <2>1, NetPlain
<1>3. CASE /\ tr.dtls = "CONNECTING"
           /\ blocked' = [blocked EXCEPT !["net"] = Item("handshake")]
           /\ queue' = [Taken("net") EXCEPT !["sig"] = Append(@, InvokeOf("verify", "net"))]
           /\ UNCHANGED <<pc, tr, streams, calls, events, agent, failed>>
  <2> DEFINE v == InvokeOf("verify", "net")
  <2>1. v \in SigItems /\ v.op \notin SigWatch
    BY DEF InvokeOf, SigItems, SigWatch
  <2> HIDE DEF v
  <2>2. queue'["net"] = Tail(queue["net"]) /\ queue'["sig"] = Append(queue["sig"], v)
    <3> HIDE DEF Taken
    <3> QED
      BY <1>3, FirstType DEF Queues, v
  <2>3. queue'["sig"] = queue["sig"] \o <<v>> /\ <<v>> \in Seq(SigItems)
    BY <1>1, <2>1, <2>2, AppendIsConcat
  <2>4. KeepsNet(queue["net"], queue'["net"])
    BY <1>1, <2>2, KeepsBoth DEF First
  <2>5. KeepsSig(queue["sig"], queue'["sig"])
    <3>1. \A i \in 1..Len(<<v>>) : <<v>>[i].op \notin SigWatch
      BY <2>1
    <3> QED
      BY <1>1, <2>3, <3>1, KeepsBoth
  <2> QED
    BY <1>3, <2>4, <2>5, ReportKept
<1>4. ASSUME NEW s \in {"CONNECTED", "FAILED"}, tr.dtls = "CONNECTING",
             NetDone([tr EXCEPT !.dtls = s], <<ItemOf("dtlsState", s)>>)
      PROVE ReportInv'
  <2> DEFINE t == [tr EXCEPT !.dtls = s]
             posts == <<ItemOf("dtlsState", s)>>
  <2>1. t.dtls = s /\ t.timer = tr.timer /\ t.ice = tr.ice /\ t.sctp = tr.sctp
    BY <1>1 DEF TrFields
  <2>2. /\ posts \in Seq(SigItems) /\ (s = "CONNECTED" => posts = <<DtlsUp>>)
        /\ s = "FAILED" => \A x \in SigTokens : ~In(posts, x)
    BY PostsType, PostsTokens DEF DtlsUp, States
  <2> HIDE DEF t, posts
  <2>3. /\ queue'["net"] = Tail(queue["net"]) /\ SigGains(queue["sig"], queue'["sig"], posts)
        /\ blocked' = blocked /\ pc' = pc /\ tr' = t /\ agent' = agent
    BY <1>4, <2>2, NetMoves DEF t, posts
  <2>4. KeepsNet(queue["net"], queue'["net"])
    BY <1>1, <2>3, KeepsBoth DEF First
  <2> QED
    BY <1>4, <2>1, <2>2, <2>3, <2>4, HandshakeEnds
<1> QED
  BY <1>2, <1>3, <1>4 DEF OnHandshakePacket, OfIce, NetFails

\* The handshake goes on after the verification.
LEMMA ResumeTaken ==
  ASSUME TypeInv, ReportInv, ResumeHandshake
  PROVE ReportInv'
<1> DEFINE a == [tr EXCEPT !.verified = reply["net"] = "yes"]
           b == [tr EXCEPT !.verified = TRUE, !.dtls = "CONNECTED"]
<1>1. tr = [f \in TrFields |-> tr[f]] /\ queue["sig"] \in Seq(SigItems) /\ queue["net"] \in Seq(NetItems)
  BY DEF TypeInv
<1>2. /\ \/ tr' = a /\ queue' = queue
         \/ tr' = b /\ queue' = [queue EXCEPT !["sig"] = Append(@, DtlsUp)]
      /\ blocked' = [blocked EXCEPT !["net"] = Idle] /\ pc' = pc /\ agent' = agent /\ failed = "no"
  BY DEF ResumeHandshake, DtlsUp
<1>3. blocked'["net"].op # "handshake"
  BY <1>2 DEF TypeInv, Threads, Queues, Idle
<1>4. tr.dtls # "none"
  BY DEF ReportInv, ResumeHandshake
<1>5. a.ice = tr.ice /\ a.timer = tr.timer /\ a.dtls = tr.dtls /\ a.sctp = tr.sctp
  BY <1>1 DEF TrFields
<1>6. b.ice = tr.ice /\ b.timer = tr.timer /\ b.dtls = "CONNECTED" /\ b.sctp = tr.sctp
  BY <1>1 DEF TrFields
<1> HIDE DEF a, b
<1>7. KeepsSig(queue["sig"], queue["sig"]) /\ KeepsNet(queue["net"], queue["net"])
  BY <1>1, KeepsBoth
<1>8. CASE tr' = a /\ queue' = queue
  BY <1>2, <1>3, <1>5, <1>7, <1>8, ReportKept
<1>9. CASE tr' = b /\ queue' = [queue EXCEPT !["sig"] = Append(@, DtlsUp)]
  <2>1. queue'["sig"] = Append(queue["sig"], DtlsUp) /\ queue'["net"] = queue["net"]
    BY <1>9 DEF TypeInv, Queues
  <2>2. DtlsUp \in SigItems /\ <<DtlsUp>> \in Seq(SigItems)
    BY OneIn DEF DtlsUp, ItemOf, SigItems, States
  <2>3. SigGains(queue["sig"], queue'["sig"], <<DtlsUp>>)
    BY <1>1, <2>1, <2>2, AppendIsConcat, Gains
  <2> QED
    BY <1>2, <1>3, <1>4, <1>6, <1>7, <1>9, <2>1, <2>3, HandshakeEnds
<1> QED
  BY <1>2, <1>8, <1>9

\* The SCTP transport is made, or reports, or all transports go: none of this is about the
\* way to the DTLS transport.
LEMMA SctpTaken ==
  ASSUME TypeInv, ReportInv, failed = "no", queue["net"] # <<>>, agent.connects # 0, First("net").op # "iceEvent",
         First("net") # NewIce, First("net") # NewDtls,
         NEW t, NEW posts \in Seq(SigItems), NetDone(t, posts),
         \A x \in {InitIce, IceUp, DtlsUp} : ~In(posts, x),
         t.ice = tr.ice, t.timer = tr.timer, t.dtls = tr.dtls, t.sctp # "none",
         tr.sctp # "none" \/ First("net") = NewSctp,
         t.sctp = "CONNECTED" => (LastSaid(posts, SctpUp) /\ Clean(posts)) \/ (tr.sctp = "CONNECTED" /\ posts = <<>>)
  PROVE ReportInv'
<1>1. /\ NetDrops(queue["net"], queue'["net"], First("net"))
      /\ SigGains(queue["sig"], queue'["sig"], posts)
      /\ posts = <<>> => queue'["sig"] = queue["sig"]
      /\ blocked' = blocked /\ pc' = pc /\ tr' = t /\ agent' = agent
  BY NetMoves
<1>2. \A x \in {InitIce, IceUp, DtlsUp} :
         (In(queue'["sig"], x) <=> In(queue["sig"], x)) /\ (Uniq(queue["sig"], x) => Uniq(queue'["sig"], x))
  BY <1>1 DEF SigGains
<1>3. \A x \in {NewIce, AgentUp, AgentDone, NewDtls} :
         (In(queue'["net"], x) <=> In(queue["net"], x)) /\ (Uniq(queue["net"], x) => Uniq(queue'["net"], x))
  BY <1>1 DEF AgentUp, AgentDone, ItemOf, NetDrops
<1>4. Lost(queue["net"])' <=> Lost(queue["net"])
  BY <1>1, <1>3 DEF Lost
<1>5. IceFirst(queue["sig"], queue["net"])' /\ NothingYet(queue["sig"], queue["net"])'
  BY <1>1, <1>2, <1>3 DEF ReportInv, IceFirst, NothingYet
<1>6. ASSUME agent.connects <= 1 PROVE FirstConnection(queue["sig"], queue["net"])'
  BY <1>1, <1>2, <1>3, <1>4, <1>6
     DEF ReportInv, FirstConnection, OneWay, NetDrops, TimersBefore, SctpAfter, UpIsSaid, Says, SigGains
<1> QED
  BY <1>1, <1>5, <1>6 DEF ReportInv

\* The closures that make the SCTP transport and report its association.
LEMMA SctpEventTaken ==
  ASSUME TypeInv, ReportInv, failed = "no", queue["net"] # <<>>, NewSctpTransport \/ OnSctpEvent
  PROVE ReportInv'
<1>1. tr = [f \in TrFields |-> tr[f]] /\ First("net") \in NetItems
  BY FirstType DEF TypeInv
<1>2. NothingYet(queue["sig"], queue["net"]) /\ <<>> \in Seq(SigItems) /\ \A x : ~In(<<>>, x)
  BY PostsType, PostsTokens DEF ReportInv
<1>3. CASE NewSctpTransport
  <2> DEFINE t == [tr EXCEPT !.sctp = "CONNECTING", !.sctp_made = @ + 1]
  <2>1. First("net") = NewSctp
    BY <1>1, <1>3 DEF NewSctpTransport, NetItems, PlainNet, NewSctp, Item
  <2>2. NetDone(t, <<>>)
    BY <1>3 DEF NewSctpTransport
  <2>3. t.sctp = "CONNECTING" /\ t.timer = tr.timer /\ t.ice = tr.ice /\ t.dtls = tr.dtls
    BY <1>1 DEF TrFields
  <2>4. In(queue["net"], NewSctp)
    BY <2>1, TailIn DEF First, TypeInv
  <2>5. agent.connects # 0
    BY <1>2, <2>4 DEF NothingYet
  <2>6. NewSctp.op # "iceEvent"
    BY DEF NewSctp, Item
  <2> HIDE DEF t
  <2> QED
    BY <1>2, <2>1, <2>2, <2>3, <2>5, <2>6, SctpTaken, TokensDiffer
<1>4. CASE OnSctpEvent
  <2> DEFINE s == First("net").arg
             t == [tr EXCEPT !.sctp = s]
             posts == Reported(tr.sctp, s, "sctpState")
  <2>1. First("net").op = "sctpEvent" /\ s \in {"CONNECTED", "DISCONNECTED"}
    BY <1>1, <1>4 DEF OnSctpEvent, NetItems, PlainNet
  <2>2. CASE tr.sctp = "none"
    <3>1. NetDone(tr, <<>>)
      BY <1>4, <2>2 DEF OnSctpEvent
    <3>2. First("net").op \notin NetWatch
      BY <2>1 DEF NetWatch
    <3>3. \A i \in 1..Len(<<>>) : <<>>[i].op \notin SigWatch
      OBVIOUS
    <3> QED
      BY <1>2, <3>1, <3>2, <3>3, NetPlain
  <2>3. CASE tr.sctp # "none"
    <3>1. NetDone(t, posts)
      BY <1>4, <2>3 DEF OnSctpEvent
    <3> HIDE DEF s
    <3>2. t.sctp = s /\ t.timer = tr.timer /\ t.ice = tr.ice /\ t.dtls = tr.dtls
      BY <1>1 DEF TrFields
    <3>3. posts \in Seq(SigItems)
      BY <2>1, PostsType DEF States
    <3>4. s = "DISCONNECTED" => \A x \in SigTokens : ~In(posts, x)
      BY PostsTokens DEF States
    <3>5. s = "CONNECTED" => posts = IF tr.sctp = "CONNECTED" THEN <<>> ELSE <<SctpUp>>
      BY DEF Reported, SctpUp
    <3> HIDE DEF t, posts
    <3>6. \A x \in {InitIce, IceUp, DtlsUp} : ~In(posts, x)
      BY <1>2, <2>1, <3>4, <3>5, OneIn, TokensDiffer DEF SigTokens
    <3>7. Clean(<<SctpUp>>) /\ LastSaid(<<SctpUp>>, SctpUp)
      BY WatchedOps DEF SigTokens, Clean, LastSaid
    <3>8. agent.connects # 0
      BY <1>2, <2>3 DEF NothingYet
    <3>9. First("net").op # "iceEvent" /\ First("net") # NewIce /\ First("net") # NewDtls
      BY <2>1 DEF NewIce, NewDtls, Item
    <3>10. /\ t.sctp # "none"
           /\ t.sctp = "CONNECTED" => (LastSaid(posts, SctpUp) /\ Clean(posts)) \/ (tr.sctp = "CONNECTED" /\ posts = <<>>)
      BY <2>1, <3>2, <3>5, <3>7
    <3> QED
      BY <2>3, <3>1, <3>2, <3>3, <3>6, <3>8, <3>9, <3>10, SctpTaken
  <2> QED
    BY <2>2, <2>3
<1> QED
  BY <1>3, <1>4

\* Close drops the transports, and with them what the invariant says of them.
LEMMA CloseTaken ==
  ASSUME TypeInv, ReportInv, failed = "no", Ready("net"), CloseTransports
  PROVE ReportInv'
<1> DEFINE t == [tr EXCEPT !.ice = "none", !.dtls = "none", !.sctp = "none", !.timer = "off"]
           p == IF tr.sctp \in {"none", "DISCONNECTED"} THEN <<>> ELSE <<ItemOf("sctpState", "DISCONNECTED")>>
           q == IF tr.dtls = "none" THEN <<>> ELSE <<ItemOf("dtlsState", "DISCONNECTED")>>
<1>1. NetDone(t, p \o q)
  BY DEF CloseTransports
<1>2. t.ice = "none" /\ t.dtls = "none" /\ t.sctp = "none" /\ t.timer = "off"
  BY DEF TypeInv, TrFields
<1>3. /\ p \in Seq(SigItems) /\ \A x \in SigTokens : ~In(p, x)
      /\ q \in Seq(SigItems) /\ \A x \in SigTokens : ~In(q, x)
  BY PostsType, PostsTokens DEF States
<1> HIDE DEF t, p, q
<1>4. p \o q \in Seq(SigItems) /\ \A x \in SigTokens : ~In(p \o q, x)
  BY <1>3, ConcatProperties, ConcatIn
<1>5. /\ NetDrops(queue["net"], queue'["net"], First("net"))
      /\ SigGains(queue["sig"], queue'["sig"], p \o q)
      /\ blocked' = blocked /\ pc' = pc /\ tr' = t /\ agent' = agent
  BY <1>1, <1>4, NetMoves DEF Ready
<1>6. \A x \in {InitIce, IceUp, DtlsUp} :
         (In(queue'["sig"], x) <=> In(queue["sig"], x)) /\ (Uniq(queue["sig"], x) => Uniq(queue'["sig"], x))
  BY <1>4, <1>5 DEF SigGains, SigTokens
<1>7. \A x \in {NewIce, AgentUp, AgentDone, NewDtls, NewSctp} :
         (In(queue'["net"], x) <=> In(queue["net"], x)) /\ (Uniq(queue["net"], x) => Uniq(queue'["net"], x))
  BY <1>5 DEF CloseTransports, NewIce, AgentUp, AgentDone, NewDtls, NewSctp, Item, ItemOf, NetDrops
<1>8. Lost(queue["net"])' <=> Lost(queue["net"])
  BY <1>5, <1>7 DEF Lost
<1>9. IceFirst(queue["sig"], queue["net"])' /\ NothingYet(queue["sig"], queue["net"])'
  BY <1>2, <1>5, <1>6, <1>7, <1>8 DEF ReportInv, IceFirst, NothingYet, Connections
<1>10. blocked'["net"].op # "handshake"
  BY <1>5 DEF Ready, Idle
<1>11. ASSUME agent.connects <= 1 PROVE FirstConnection(queue["sig"], queue["net"])'
  BY <1>2, <1>5, <1>6, <1>7, <1>8, <1>11
     DEF ReportInv, FirstConnection, OneWay, NetDrops, Connections, TimersBefore, SctpAfter, UpIsSaid
<1> QED
  BY <1>5, <1>9, <1>10, <1>11 DEF ReportInv

\* The network queue.
LEMMA NetworkReported ==
  ASSUME TypeInv, ReportInv, Network
  PROVE ReportInv'
  BY IceTaken, QueriesKept, IceEventTaken, DtlsTaken, PacketTaken, SctpEventTaken, CloseTaken, ResumeTaken DEF Ready, Network

\* Posting what the invariant is not about.
LEMMA PostKept ==
  ASSUME TypeInv, ReportInv, failed = "no", NEW q \in Queues, NEW item,
         queue' = [queue EXCEPT ![q] = Append(@, item)],
         q = "sig" => item \in SigItems /\ item.op \notin SigWatch,
         q = "net" => item \in NetItems /\ item.op \notin NetWatch,
         tr' = tr, pc' = pc, agent' = agent, blocked'["net"] = blocked["net"]
  PROVE ReportInv'
<1>1. /\ queue["sig"] \in Seq(SigItems) /\ queue["net"] \in Seq(NetItems)
      /\ queue'[q] = Append(queue[q], item) /\ \A p \in Queues : p # q => queue'[p] = queue[p]
  BY DEF TypeInv
<1>2. PICK p : p = <<item>>
  OBVIOUS
<1>3. /\ q = "sig" => queue'["sig"] = queue["sig"] \o p
      /\ q = "net" => queue'["net"] = queue["net"] \o p
  BY <1>1, <1>2, AppendIsConcat
<1>4. Len(p) = 1 /\ p[1] = item /\ \A S : item \in S => p \in Seq(S)
  BY <1>2
<1>5. KeepsSig(queue["sig"], queue'["sig"])
  <2>1. CASE q = "sig"
    <3>1. p \in Seq(SigItems) /\ \A i \in 1..Len(p) : p[i].op \notin SigWatch
      BY <1>4, <2>1
    <3>2. KeepsSig(queue["sig"], queue["sig"] \o p)
      BY <1>1, <3>1, KeepsBoth
    <3> QED
      BY <1>3, <2>1, <3>2
  <2>2. CASE q # "sig"
    BY <1>1, <2>2, KeepsBoth DEF Queues
  <2> QED
    BY <2>1, <2>2
<1>6. KeepsNet(queue["net"], queue'["net"])
  <2>1. CASE q = "net"
    <3>1. p \in Seq(NetItems) /\ \A i \in 1..Len(p) : p[i].op \notin NetWatch
      BY <1>4, <2>1
    <3>2. KeepsNet(queue["net"], queue["net"] \o p)
      BY <1>1, <3>1, KeepsBoth
    <3> QED
      BY <1>3, <2>1, <3>2
  <2>2. CASE q # "net"
    BY <1>1, <2>2, KeepsBoth DEF Queues
  <2> QED
    BY <2>1, <2>2
<1> QED
  BY <1>5, <1>6, ReportKept

\* The worker queue and the application.
LEMMA ApplicationKept ==
  ASSUME TypeInv, ReportInv, Worker \/ Application \/ Returns
  PROVE ReportInv'
<1>1. /\ \A op \in {"createOffer", "createAnswer", "candidate", "addChannel", "close"} :
           Item(op) \in SigItems /\ Item(op).op \notin SigWatch
      /\ \A d \in RemoteDescriptions : LET i == ItemOf("setRemoteDescription", d) IN i \in SigItems /\ i.op \notin SigWatch
      /\ \A mid \in Mids : LET i == ItemOf("addTrack", mid) IN i \in SigItems /\ i.op \notin SigWatch
  BY DEF Item, ItemOf, SigItems, SigWatch
<1>2. Item("closeTransports") \in NetItems /\ Item("closeTransports").op \notin NetWatch
  BY DEF Item, NetItems, NetWatch
<1>3. /\ blocked = [t \in Threads |-> blocked[t]] /\ queue = [q \in Queues |-> queue[q]]
      /\ queue["sig"] \in Seq(SigItems) /\ queue["net"] \in Seq(NetItems)
      /\ "net" \in Queues /\ "sig" \in Queues /\ "wrk" \in Queues /\ "net" \in Threads
  BY DEF TypeInv, Queues, Threads
<1>4. KeepsSig(queue["sig"], queue["sig"]) /\ KeepsNet(queue["net"], queue["net"])
  BY <1>3, KeepsBoth
<1>5. \A w : blocked' = [blocked EXCEPT !["app"] = w] => blocked'["net"] = blocked["net"]
  BY <1>3
<1>6. CASE Worker
  BY <1>3, <1>4, <1>6, ReportKept DEF Worker, Taken, Ready
<1>7. ASSUME NEW q \in Queues, NEW item, NEW wait, Call(q, item, wait),
             q = "sig" => item \in SigItems /\ item.op \notin SigWatch, q # "net"
      PROVE ReportInv'
  BY <1>5, <1>7, PostKept DEF Call, MayCall
<1>8. CASE Application
  BY <1>1, <1>3, <1>7, <1>8 DEF Application
<1>9. CASE Returns
  <2>1. PICK w : blocked' = [blocked EXCEPT !["app"] = w]
    BY <1>9 DEF Returns
  <2>2. UNCHANGED <<pc, tr, agent>> /\ failed = "no"
    BY <1>9 DEF Returns
  <2>3. \/ queue' = queue
        \/ queue' = [queue EXCEPT !["net"] = Append(@, Item("closeTransports"))]
        \/ queue' = [queue EXCEPT !["sig"] = Append(@, Item("close"))]
    BY <1>9 DEF Returns
  <2>4. blocked'["net"] = blocked["net"]
    BY <1>5, <2>1
  <2>5. CASE queue' = queue
    BY <1>4, <2>2, <2>4, <2>5, ReportKept
  <2>6. CASE queue' = [queue EXCEPT !["net"] = Append(@, Item("closeTransports"))]
    BY <1>2, <1>3, <2>2, <2>4, <2>6, PostKept
  <2>7. CASE queue' = [queue EXCEPT !["sig"] = Append(@, Item("close"))]
    BY <1>1, <1>3, <2>2, <2>4, <2>7, PostKept
  <2> QED
    BY <2>3, <2>5, <2>6, <2>7
<1> QED
  BY <1>6, <1>8, <1>9

\* The agent connects: for the first time, when there is nothing yet.
LEMMA AgentConnects ==
  ASSUME ReportInv, tr.ice # "none", queue'["sig"] = queue["sig"], NetGains(queue["net"], queue'["net"], AgentUp),
         tr' = tr, pc' = pc, blocked' = blocked, agent'.connects = agent.connects + 1
  PROVE ReportInv'
<1>1. IceFirst(queue["sig"], queue["net"]) /\ NothingYet(queue["sig"], queue["net"]) /\ agent.connects \in Nat
  BY DEF ReportInv
<1>2. IceFirst(queue["sig"], queue["net"])' /\ NothingYet(queue["sig"], queue["net"])'
  BY <1>1, TokensDiffer DEF IceFirst, NothingYet, NetGains
<1>3. ASSUME agent.connects = 0 PROVE FirstConnection(queue["sig"], queue["net"])'
  BY <1>1, <1>3, WatchedOps, TokensDiffer
     DEF ReportInv, NothingYet, Lost, NetGains, FirstConnection, OneWay, TimersBefore, SctpAfter, UpIsSaid
<1> QED
  BY <1>1, <1>2, <1>3 DEF ReportInv

\* The agent starts its checks, ends them, or loses the connection; or a timer runs out.
LEMMA AgentMoves ==
  ASSUME ReportInv, failed = "no", tr.ice # "none", queue'["sig"] = queue["sig"], NEW e,
         NetGains(queue["net"], queue'["net"], e), pc' = pc, blocked' = blocked,
         tr'.ice = tr.ice, tr'.dtls = tr.dtls, tr'.sctp = tr.sctp, agent'.connects = agent.connects,
         \/ e \in AgentDown /\ agent'.state \notin Connections /\ tr'.timer = tr.timer
         \/ e = AgentDone /\ agent.state \in Connections /\ agent'.state \in Connections /\ tr'.timer = tr.timer
         \/ e = Timeout /\ agent' = agent /\ tr.timer = "armed" /\ tr'.timer = "fired"
  PROVE ReportInv'
<1>1. IceFirst(queue["sig"], queue["net"]) /\ NothingYet(queue["sig"], queue["net"]) /\ agent.connects \in Nat
  BY DEF ReportInv
<1>2. \A x \in {NewIce, AgentUp, NewDtls, NewSctp} :
         e # x /\ (In(queue'["net"], x) <=> In(queue["net"], x)) /\ (Uniq(queue["net"], x) => Uniq(queue'["net"], x))
  BY WatchedOps DEF NetGains
<1>3. Lost(queue["net"]) => Lost(queue["net"])'
  BY <1>2, WatchedOps DEF Lost, NetGains
<1>4. IceFirst(queue["sig"], queue["net"])' /\ NothingYet(queue["sig"], queue["net"])'
  BY <1>1, <1>2, <1>3 DEF IceFirst, NothingYet
<1>5. ASSUME agent.connects <= 1 PROVE FirstConnection(queue["sig"], queue["net"])'
  BY <1>2, <1>3, <1>5, WatchedOps DEF ReportInv, FirstConnection, OneWay, NetGains, TimersBefore, SctpAfter, UpIsSaid, Says
<1> QED
  BY <1>1, <1>4, <1>5 DEF ReportInv

\* The agent, the peer and the SCTP stack.
LEMMA WorldReported ==
  ASSUME TypeInv, ReportInv, World
  PROVE ReportInv'
<1>1. /\ tr = [f \in TrFields |-> tr[f]] /\ queue["net"] \in Seq(NetItems)
      /\ queue = [q \in Queues |-> queue[q]] /\ "net" \in Queues /\ "sig" \in Queues
  BY DEF TypeInv, Queues
<1>2. \/ \E s \in AgentSteps :
           /\ agent.state = s[1]
           /\ agent' = [state |-> s[2], connects |-> agent.connects + (IF s[2] = "CONNECTED" THEN 1 ELSE 0)]
           /\ Event(ItemOf("iceEvent", s[2])) /\ tr' = tr
      \/ tr.timer = "armed" /\ tr' = [tr EXCEPT !.timer = "fired"] /\ Event(Timeout) /\ agent' = agent
      \/ \E e \in {Item("gatheringDone"), Item("packet"), AssocUp, ItemOf("sctpEvent", "DISCONNECTED")} :
           Event(e) /\ tr' = tr /\ agent' = agent
  BY DEF World, AssocUp, Timeout
<1>3. \A item : Event(item) => /\ queue' = [queue EXCEPT !["net"] = Append(@, item)]
                               /\ blocked' = blocked /\ pc' = pc /\ failed = "no" /\ tr.ice # "none"
  BY DEF Event
<1>4. ASSUME NEW e \in NetItems, Event(e)
      PROVE queue'["sig"] = queue["sig"] /\ NetGains(queue["net"], queue'["net"], e)
  <2>1. queue'["sig"] = queue["sig"] /\ queue'["net"] = Append(queue["net"], e)
    BY <1>1, <1>3, <1>4
  <2>2. queue'["net"] = queue["net"] \o <<e>>
    BY <1>1, <2>1, AppendIsConcat
  <2> QED
    BY <1>1, <2>1, <2>2, Gains
<1>5. \A s \in States \cup {"timeout"} : ItemOf("iceEvent", s) \in NetItems
  BY DEF ItemOf, NetItems
<1>6. ASSUME NEW s \in AgentSteps, agent.state = s[1],
             agent' = [state |-> s[2], connects |-> agent.connects + (IF s[2] = "CONNECTED" THEN 1 ELSE 0)],
             Event(ItemOf("iceEvent", s[2])), tr' = tr
      PROVE ReportInv'
  <2>1. /\ s[2] \in States
        /\ \/ s[2] = "CONNECTED"
           \/ s[2] = "COMPLETED" /\ s[1] = "CONNECTED"
           \/ s[2] \in {"CONNECTING", "FAILED", "DISCONNECTED"}
    BY DEF AgentSteps, States
  <2> DEFINE e == ItemOf("iceEvent", s[2])
  <2>2. e \in NetItems
    BY <1>5, <2>1
  <2>3. /\ s[2] = "CONNECTED" => e = AgentUp
        /\ s[2] = "COMPLETED" => e = AgentDone
        /\ s[2] \in {"CONNECTING", "FAILED", "DISCONNECTED"} => e \in AgentDown
    BY DEF AgentUp, AgentDone, AgentDown
  <2> HIDE DEF e
  <2>4. queue'["sig"] = queue["sig"] /\ NetGains(queue["net"], queue'["net"], e)
    BY <1>4, <1>6, <2>2 DEF e
  <2>5. blocked' = blocked /\ pc' = pc /\ failed = "no" /\ tr.ice # "none"
    BY <1>3, <1>6
  <2>6. agent'.state = s[2] /\ agent.connects \in Nat
    BY <1>6 DEF ReportInv
  <2>7. CASE s[2] = "CONNECTED"
    BY <1>6, <2>3, <2>4, <2>5, <2>7, AgentConnects
  <2>8. CASE s[2] # "CONNECTED"
    BY <1>6, <2>1, <2>3, <2>4, <2>5, <2>6, <2>8, AgentMoves DEF Connections
  <2> QED
    BY <2>7, <2>8
<1>7. CASE tr.timer = "armed" /\ tr' = [tr EXCEPT !.timer = "fired"] /\ Event(Timeout) /\ agent' = agent
  BY <1>1, <1>3, <1>4, <1>5, <1>7, AgentMoves DEF Timeout, TrFields
<1>8. ASSUME NEW e \in {Item("gatheringDone"), Item("packet"), AssocUp, ItemOf("sctpEvent", "DISCONNECTED")},
             Event(e), tr' = tr, agent' = agent
      PROVE ReportInv'
  BY <1>1, <1>3, <1>8, PostKept DEF Item, ItemOf, AssocUp, NetItems, NetWatch
<1> QED
  BY <1>2, <1>6, <1>7, <1>8

\* Every step keeps the invariant.
LEMMA ReportStep ==
  ASSUME NegotiationInv, ReportInv, [Next]_vars
  PROVE ReportInv'
<1>1. TypeInv
  BY DEF NegotiationInv
<1>2. CASE UNCHANGED vars
  BY <1>2 DEF vars, ReportInv, IceFirst, NothingYet, Lost, FirstConnection, OneWay, TimersBefore, SctpAfter, UpIsSaid, Says
<1> QED
  BY <1>1, <1>2, SignalingReported, NetworkReported, ApplicationKept, WorldReported DEF Next

\* At first only the constructor's closure waits.
LEMMA ReportInit == Init => ReportInv
<1> SUFFICES ASSUME Init PROVE ReportInv
  OBVIOUS
<1>1. queue["sig"] = <<InitIce>> /\ queue["net"] = <<>> /\ blocked["net"] = Idle
  BY DEF Init, Queues, Threads, InitIce
<1>2. /\ tr.ice = "none" /\ tr.dtls = "none" /\ tr.sctp = "none" /\ tr.timer = "off"
      /\ agent.state = "DISCONNECTED" /\ agent.connects = 0
  BY DEF Init
<1>3. \A x : ~In(<<>>, x) /\ Uniq(<<>>, x) /\ (In(<<InitIce>>, x) <=> InitIce = x) /\ Uniq(<<InitIce>>, x)
  BY OneIn
<1>4. Never(<<>>, AgentDone, AgentUp) /\ \A a : DownBefore(<<>>, a)
  BY DEF Never, DownBefore
<1>5. Lost(queue["net"])
  BY <1>1, <1>2, <1>3 DEF Lost, Connections
<1>6. IceFirst(queue["sig"], queue["net"]) /\ NothingYet(queue["sig"], queue["net"])
  BY <1>1, <1>2, <1>3, <1>5, TokensDiffer DEF IceFirst, NothingYet, Connections
<1>7. FirstConnection(queue["sig"], queue["net"])
  BY <1>1, <1>2, <1>3, <1>4, <1>5, TokensDiffer
  DEF FirstConnection, OneWay, TimersBefore, SctpAfter, UpIsSaid, Connections
<1> QED
  BY <1>1, <1>2, <1>6, <1>7 DEF ReportInv, Idle

\* Whatever order the closures of the queues run in: when the agent has connected for the
\* first time, all transports are up and no closure is left, OnDtlsTransportStateChanged or
\* OnSctpTransportStateChanged has set the connection state to CONNECTED, and no report of an
\* earlier state that came late has taken it back.
THEOREM FirstConnectionReported == Spec => []ReportsConnected
<1>1. NegotiationInv /\ [Next]_vars => NegotiationInv'
  BY NegotiationStep
<1>2. NegotiationInv /\ ReportInv /\ [Next]_vars => ReportInv'
  BY ReportStep
<1>3. ReportInv => ReportsConnected
  <2> SUFFICES ASSUME ReportInv, Quiet, agent.connects = 1, tr.ice \in {"CONNECTED", "COMPLETED"},
                      tr.dtls = "CONNECTED", tr.sctp \in {"none", "CONNECTED"}
               PROVE pc.connection = "CONNECTED"
    BY DEF ReportsConnected
  <2>1. queue["sig"] = <<>> /\ queue["net"] = <<>>
    BY DEF Quiet, Queues
  <2>2. UpIsSaid(queue["sig"], queue["net"])
    BY DEF ReportInv, FirstConnection
  <2>3. ~In(<<>>, NewSctp) /\ \A x : ~LastSaid(<<>>, x)
    BY DEF In, LastSaid
  <2>4. Says(queue["sig"], DtlsUp) \/ Says(queue["sig"], SctpUp)
    BY <2>1, <2>2, <2>3 DEF UpIsSaid, Connections
  <2> QED
    BY <2>1, <2>3, <2>4 DEF Says
<1> QED
  BY <1>1, <1>2, <1>3, NegotiationInit, ReportInit, PTL DEF Spec

=============================================================================

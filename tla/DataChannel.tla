---------------------------- MODULE DataChannel ----------------------------
(***************************************************************************)
(* Data channels between two peer connections: DataChannel, the SCTP        *)
(* delegate of PeerConnection and the send path of SctpTransport.           *)
(*                                                                          *)
(* Each peer has three kinds of task queues: the signaling queue, which     *)
(* owns data_channels_; one queue per channel; and the network queue, which *)
(* owns the SCTP transport and which the others Invoke, so that what they   *)
(* do there is part of their own step.  usrsctp is external: a socket with  *)
(* a bounded send buffer that may take part of a message, keeps the order   *)
(* of a stream, resets a stream after what it accepted for it, and refuses  *)
(* (EAGAIN) what is sent on a stream that is being reset.  Channels are     *)
(* ordered and reliable, the defaults of DataChannel::Init.                 *)
(***************************************************************************)
EXTENDS Integers, Sequences, FiniteSets, SequencesExt, FiniteSetsExt

CONSTANTS
    Streams,         \* stream ids; even ones are added by peer "a", odd ones by "b"
    SendSpace,       \* size of the send buffer of a socket
    Sizes,           \* sizes of user messages
    MayGoDown,       \* the association may be lost
    MaxMessages      \* bound: user messages sent by the two peers

ASSUME ChannelConstants ==
    /\ Streams \subseteq Nat /\ SendSpace \in Nat \ {0}
    /\ Sizes \subseteq Nat \ {0} /\ MayGoDown \in BOOLEAN /\ MaxMessages \in Nat

VARIABLES
    signaling,       \* closures waiting on the signaling queue
    data_channels,   \* the streams data_channels_ knows
    released,        \* the streams whose weak pointer in data_channels_ has expired
    channel,         \* the channels: [is_opened, transport, tasks, pending]
    state,           \* of SctpTransport
    partial,         \* partial_outgoing_packet_: a set of at most one [s, m, left]
    close_posted,    \* CloseStream calls posted to the network queue
    socket,          \* send buffer, and what is under way to the other peer
    used,            \* streams something was sent on since they were last reset
    fragments,       \* message_data_fragments_: the stream of a message received in part
    messages,        \* counter for the bound
    \* histories
    app_closed,      \* streams the application has closed
    opens, closes,   \* how often the callbacks ran
    accepted,        \* user messages the transport has taken
    received,        \* user messages handed to the application
    closed_by        \* why the channel was closed: "nobody", "local", "remote", "down"

sctp == <<state, partial, close_posted, socket, used, fragments>>
history == <<app_closed, opens, closes, accepted, received, closed_by>>
vars == <<signaling, data_channels, released, channel, sctp, messages, history>>

Peers == {"a", "b"}
Other(p) == IF p = "a" THEN "b" ELSE "a"
Parity(p) == IF p = "a" THEN 0 ELSE 1

\* Messages: the control messages of RFC 8832 and user messages.
Open == [type |-> "open", size |-> 1]
Ack == [type |-> "ack", size |-> 1]
CloseMessage == [type |-> "close", size |-> 0]
IsUser(m) == m.type = "user"

PerPeer(x) == [p \in Peers |-> x]
PerChannel(x) == [p \in Peers |-> [s \in Streams |-> x]]

Init ==
    /\ signaling = PerPeer(<<>>) /\ data_channels = PerPeer({}) /\ released = PerPeer({})
    /\ channel = PerChannel([is_opened |-> FALSE, transport |-> FALSE, tasks |-> <<>>, pending |-> <<>>])
    /\ state = PerPeer("connecting") /\ partial = PerPeer({}) /\ close_posted = PerPeer({})
    /\ socket = PerPeer(<<>>) /\ used = PerPeer({}) /\ fragments = PerPeer({})
    /\ messages = 0
    /\ app_closed = PerPeer({}) /\ opens = PerChannel(0) /\ closes = PerChannel(0)
    /\ accepted = PerChannel(<<>>) /\ received = PerChannel(<<>>) /\ closed_by = PerChannel("nobody")

-----------------------------------------------------------------------------
(* usrsctp *)

IsReset(item) == item.m = CloseMessage
Resetting(sock, s) == \E i \in DOMAIN sock : sock[i].s = s /\ IsReset(sock[i])
Room(sock) == SendSpace - FoldLeft(LAMBDA n, item : n + item.units, 0, sock)

\* The next part of a message: a reset waits for a message that was begun.
Put(sock, s, item) ==
    IF Resetting(sock, s)
    THEN InsertAt(sock, Min({i \in DOMAIN sock : sock[i].s = s /\ IsReset(sock[i])}), item)
    ELSE Append(sock, item)

\* usrsctp_sendv takes as much of the `left` units as there is room for.
Sendv(sock, s, m, left) ==
    LET taken == Min({left, Room(sock)})
    IN Put(sock, s, [s |-> s, m |-> m, units |-> taken, last |-> taken = left])

-----------------------------------------------------------------------------
(* SctpTransport: the network side of peer p as a record, so that a channel    *)
(* can send several messages in one step.                                      *)

Network(p) == [socket |-> socket[p], partial |-> partial[p], used |-> used[p]]

SetNetwork(p, n) ==
    /\ socket' = [socket EXCEPT ![p] = n.socket]
    /\ partial' = [partial EXCEPT ![p] = n.partial]
    /\ used' = [used EXCEPT ![p] = n.used]

\* SendInternal and TrySend accept a new message, or part of it.
Accepts(n, p, s) ==
    state[p] = "connected" /\ n.partial = {} /\ Room(n.socket) > 0 /\ ~Resetting(n.socket, s)

\* Mutant: what was not accepted is forgotten.
SendInternalForgetsRest(n, s, m) ==
    [socket |-> Sendv(n.socket, s, m, m.size), used |-> n.used \cup {s}, partial |-> {}]

SendInternal(n, s, m) ==
    LET left == m.size - Min({m.size, Room(n.socket)})
    IN [socket  |-> Sendv(n.socket, s, m, m.size),
        used    |-> n.used \cup {s},
        partial |-> IF left = 0 THEN {} ELSE {[s |-> s, m |-> m, left |-> left]}]

\* Nothing happens on a stream that was reset and not used since (EINVAL).
ResetStream(n, p, s) ==
    IF state[p] # "connected" \/ s \notin n.used THEN n
    ELSE [n EXCEPT !.socket = Append(@, [s |-> s, m |-> CloseMessage, units |-> 0, last |-> TRUE]),
                   !.used = @ \ {s}]

\* The upcall for writing: FlushPendingMessage sends more of the partial message.
HandleWrite(p) ==
    /\ state[p] = "connected" /\ Room(socket[p]) > 0
    /\ \E rest \in partial[p] :
          LET left == rest.left - Min({rest.left, Room(socket[p])})
          IN SetNetwork(p, [socket  |-> Sendv(socket[p], rest.s, rest.m, rest.left),
                            used    |-> used[p],
                            partial |-> IF left = 0 THEN {} ELSE {[rest EXCEPT !.left = left]}])
    /\ UNCHANGED <<signaling, data_channels, released, channel, state, close_posted, fragments, messages, history>>

\* What the socket of p may deliver next on s: a stream keeps its order, a message is
\* not interleaved with another (SCTP_FRAGMENT_INTERLEAVE 0), and a reset waits for
\* the rest of a message that was begun.
Deliverable(p, s) ==
    LET sock == socket[Other(p)]
        next == {i \in DOMAIN sock : sock[i].s = s}
        first == {i \in next : \A j \in next : i <= j}
    IN {i \in first : /\ fragments[p] \subseteq {s}
                      /\ IsReset(sock[i]) => \A rest \in partial[Other(p)] : rest.s # s}

\* The upcall for reading: DoRecv of what the other peer sent.  Parts of a message
\* are collected; a complete message, and a reset as a CLOSE message, is posted to
\* the signaling queue (OnSctpMessageReceived).
HandleRead(p, s) ==
    /\ state[p] = "connected"
    /\ \E i \in Deliverable(p, s) :
          LET item == socket[Other(p)][i]
          IN /\ socket' = [socket EXCEPT ![Other(p)] = RemoveAt(@, i)]
             /\ fragments' = [fragments EXCEPT ![p] = IF item.last THEN {} ELSE {s}]
             /\ signaling' = IF item.last
                             THEN [signaling EXCEPT ![p] = Append(@, [kind |-> "message", s |-> s, m |-> item.m])]
                             ELSE signaling
    /\ UNCHANGED <<data_channels, released, channel, state, partial, close_posted, used, messages, history>>

\* SCTP_ASSOC_CHANGE, and OnSctpTransportStateChanged.
AssocChange(p, from, to) ==
    /\ state[p] = from
    /\ state' = [state EXCEPT ![p] = to]
    /\ signaling' = [signaling EXCEPT ![p] = Append(@, [kind |-> to])]
    /\ UNCHANGED <<data_channels, released, channel, partial, close_posted, socket, used, fragments, messages, history>>

\* A CloseStream posted to the network queue.
RunCloseStream(p) ==
    /\ \E s \in close_posted[p] :
          /\ close_posted' = [close_posted EXCEPT ![p] = @ \ {s}]
          /\ SetNetwork(p, ResetStream(Network(p), p, s))
    /\ UNCHANGED <<signaling, data_channels, released, channel, state, fragments, messages, history>>

-----------------------------------------------------------------------------
(* PeerConnection: the signaling queue *)

\* The application calls AddDataChannel, which Invokes on the signaling queue: the
\* lowest free stream of the peer's parity.  Bound: a stream is not used again.
AddDataChannel(p, s) ==
    /\ s % 2 = Parity(p) /\ s \notin data_channels[p] /\ opens[p][s] = 0
    /\ \A t \in Streams \ data_channels[p] : t % 2 = Parity(p) => s <= t
    /\ \A i \in DOMAIN signaling[p] : signaling[p][i].kind # "add"
    /\ signaling' = [signaling EXCEPT ![p] = Append(@, [kind |-> "add", s |-> s])]
    /\ UNCHANGED <<data_channels, released, channel, sctp, messages, history>>

Turn(p, kind) ==
    /\ signaling[p] # <<>> /\ Head(signaling[p]).kind = kind
    /\ signaling' = [signaling EXCEPT ![p] = Tail(@)]

\* The channels that FindDataChannel and the loops over data_channels_ find.
Alive(p) == data_channels[p] \ released[p]

Posted(c, task) == [c EXCEPT !.tasks = Append(@, task)]
OpenTask == [kind |-> "open"]

\* A task posted to the queues of the channels S.
PostTo(p, S, task) ==
    channel' = [channel EXCEPT ![p] = [s \in Streams |-> IF s \in S THEN Posted(@[s], task) ELSE @[s]]]

\* AddDataChannel opens the channel at once if the association is up.
RunAdd(p) ==
    /\ Turn(p, "add")
    /\ LET s == Head(signaling[p]).s
       IN /\ data_channels' = [data_channels EXCEPT ![p] = @ \cup {s}]
          /\ PostTo(p, IF state[p] = "connected" THEN {s} ELSE {}, OpenTask)
    /\ UNCHANGED <<released, sctp, messages, history>>

\* OpenDataChannels
RunConnected(p) ==
    /\ Turn(p, "connected")
    /\ PostTo(p, Alive(p), OpenTask)
    /\ UNCHANGED <<data_channels, released, sctp, messages, history>>

\* RemoteCloseDataChannels
RunDisconnected(p) ==
    /\ Turn(p, "disconnected")
    /\ PostTo(p, Alive(p), [kind |-> "close", by |-> "down"])
    /\ data_channels' = [data_channels EXCEPT ![p] = {}]
    /\ UNCHANGED <<released, sctp, messages, history>>

Incoming(m) == [kind |-> "incoming", m |-> m]

\* Mutant: the channel made for the remote peer is not entered in data_channels_.
RunMessageUnregistered(p) ==
    /\ Turn(p, "message")
    /\ LET s == Head(signaling[p]).s
           m == Head(signaling[p]).m
       IN IF s \in data_channels[p] \/ m = Open
          THEN /\ channel' = [channel EXCEPT ![p][s] = Posted([@ EXCEPT !.transport = TRUE], Incoming(m))]
               /\ UNCHANGED <<data_channels, close_posted>>
          ELSE /\ close_posted' = [close_posted EXCEPT ![p] = @ \cup {s}]
               /\ UNCHANGED <<data_channels, channel>>
    /\ UNCHANGED <<released, state, partial, socket, used, fragments, messages, history>>

\* OnSctpMessageReceived: a message goes to its channel; an OPEN of the other peer
\* makes the channel; a message nobody waits for has its stream closed.
RunMessage(p) ==
    /\ Turn(p, "message")
    /\ LET s == Head(signaling[p]).s
           m == Head(signaling[p]).m
           remote == m = Open /\ s % 2 = Parity(Other(p))
       IN IF s \in Alive(p) THEN PostTo(p, {s}, Incoming(m)) /\ UNCHANGED <<data_channels, close_posted>>
          ELSE IF remote
          THEN /\ data_channels' = [data_channels EXCEPT ![p] = @ \cup {s}]
               /\ channel' = [channel EXCEPT ![p][s] = Posted([@ EXCEPT !.transport = TRUE], Incoming(m))]
               /\ UNCHANGED close_posted
          ELSE /\ close_posted' = [close_posted EXCEPT ![p] = @ \cup {s}]
               /\ UNCHANGED <<data_channels, channel>>
    /\ UNCHANGED <<released, state, partial, socket, used, fragments, messages, history>>

-----------------------------------------------------------------------------
(* DataChannel: the queue of each channel *)

\* FlushPendingMessages: messages go out in order until one is not accepted.
Flush(n, p, s, queue) ==
    FoldLeft(LAMBDA acc, m :
               IF acc.left # <<>> \/ ~Accepts(acc.n, p, s) THEN [acc EXCEPT !.left = Append(@, m)]
               ELSE [acc EXCEPT !.n = SendInternal(acc.n, s, m)],
             [n |-> n, left |-> <<>>], queue)

\* Mutant: a new message does not wait for the pending ones.
SendPastPending(c, p, s, m) ==
    LET new == Flush(Network(p), p, s, <<m>>)
    IN [n |-> new.n, left |-> c.pending \o new.left]

\* Send: the message goes out behind the pending ones, or waits behind them.
Send(c, p, s, m) == Flush(Network(p), p, s, IF c.transport THEN Append(c.pending, m) ELSE <<>>)

\* The effect of sending m, the channel being c: the rest of the channel's state is kept.
Sending(c, p, s, m) ==
    LET sent  == Send(c, p, s, m)
        queue == Append(c.pending, m)
        left  == IF c.transport THEN sent.left ELSE queue
        gone  == SubSeq(queue, 1, Len(queue) - Len(left))
    IN /\ SetNetwork(p, sent.n)
       /\ channel' = [channel EXCEPT ![p][s] = [c EXCEPT !.pending = left]]
       /\ accepted' = [accepted EXCEPT ![p][s] = @ \o SelectSeq(gone, IsUser)]

\* Mutant: the callback runs again for a channel that is open.
TriggerOpenAgain(p, s) == opens' = [opens EXCEPT ![p][s] = @ + 1]

TriggerOpen(p, s) ==
    opens' = IF channel[p][s].is_opened THEN opens ELSE [opens EXCEPT ![p][s] = @ + 1]

\* The channel without the task that runs.
Running(p, s) == [channel[p][s] EXCEPT !.tasks = Tail(@)]
NextTask(p, s, kind) == channel[p][s].tasks # <<>> /\ Head(channel[p][s].tasks).kind = kind

\* Open: the OPEN message is sent unless the channel is open already.
RunOpen(p, s) ==
    /\ NextTask(p, s, "open")
    /\ IF channel[p][s].is_opened
       THEN /\ channel' = [channel EXCEPT ![p][s] = Running(p, s)]
            /\ UNCHANGED <<socket, partial, used, accepted>>
       ELSE Sending([Running(p, s) EXCEPT !.transport = TRUE], p, s, Open)
    /\ UNCHANGED <<signaling, data_channels, released, state, close_posted, fragments, messages,
                   app_closed, opens, closes, received, closed_by>>

RunSend(p, s) ==
    /\ NextTask(p, s, "send")
    /\ Sending(Running(p, s), p, s, Head(channel[p][s].tasks).m)
    /\ UNCHANGED <<signaling, data_channels, released, state, close_posted, fragments, messages,
                   app_closed, opens, closes, received, closed_by>>

\* Close: a local close resets the stream; what is pending is dropped.
RunClose(p, s) ==
    /\ NextTask(p, s, "close")
    /\ LET by == Head(channel[p][s].tasks).by
       IN IF ~channel[p][s].is_opened
          THEN /\ channel' = [channel EXCEPT ![p][s] = Running(p, s)]
               /\ UNCHANGED <<socket, partial, used, closes, closed_by>>
          ELSE /\ SetNetwork(p, IF by = "local" /\ channel[p][s].transport
                                THEN ResetStream(Network(p), p, s) ELSE Network(p))
               /\ channel' = [channel EXCEPT ![p][s] =
                     [Running(p, s) EXCEPT !.is_opened = FALSE, !.transport = FALSE, !.pending = <<>>]]
               /\ closes' = [closes EXCEPT ![p][s] = @ + 1]
               /\ closed_by' = [closed_by EXCEPT ![p][s] = by]
    /\ UNCHANGED <<signaling, data_channels, released, state, close_posted, fragments, messages,
                   app_closed, opens, accepted, received>>

\* OnIncomingMessage.  An OPEN is acknowledged and opens the channel.
RunIncomingOpen(p, s) ==
    /\ NextTask(p, s, "incoming") /\ Head(channel[p][s].tasks).m = Open
    /\ Sending([Running(p, s) EXCEPT !.is_opened = TRUE], p, s, Ack)
    /\ TriggerOpen(p, s)
    /\ UNCHANGED <<signaling, data_channels, released, state, close_posted, fragments, messages,
                   app_closed, closes, received, closed_by>>

RunIncomingAck(p, s) ==
    /\ NextTask(p, s, "incoming") /\ Head(channel[p][s].tasks).m = Ack
    /\ channel' = [channel EXCEPT ![p][s] = [Running(p, s) EXCEPT !.is_opened = TRUE]]
    /\ TriggerOpen(p, s)
    /\ UNCHANGED <<signaling, data_channels, released, sctp, messages, app_closed, closes, accepted, received, closed_by>>

\* A CLOSE posts Close(by_remote) to the channel's own queue.
RunIncomingClose(p, s) ==
    /\ NextTask(p, s, "incoming") /\ Head(channel[p][s].tasks).m = CloseMessage
    /\ channel' = [channel EXCEPT ![p][s] = Posted(Running(p, s), [kind |-> "close", by |-> "remote"])]
    /\ UNCHANGED <<signaling, data_channels, released, sctp, messages, history>>

RunIncomingUser(p, s) ==
    /\ NextTask(p, s, "incoming") /\ IsUser(Head(channel[p][s].tasks).m)
    /\ channel' = [channel EXCEPT ![p][s] = Running(p, s)]
    /\ received' = [received EXCEPT ![p][s] = Append(@, Head(channel[p][s].tasks).m)]
    /\ UNCHANGED <<signaling, data_channels, released, sctp, messages, app_closed, opens, closes, accepted, closed_by>>

\* The application sends between the opened callback and its own Close.
AppSend(p, s) ==
    /\ channel[p][s].is_opened /\ s \notin app_closed[p] /\ messages < MaxMessages
    /\ messages' = messages + 1
    /\ \E size \in Sizes :
          PostTo(p, {s}, [kind |-> "send", m |-> [type |-> "user", id |-> messages, size |-> size]])
    /\ UNCHANGED <<signaling, data_channels, released, sctp, history>>

AppClose(p, s) ==
    /\ channel[p][s].is_opened /\ s \notin app_closed[p]
    /\ app_closed' = [app_closed EXCEPT ![p] = @ \cup {s}]
    /\ PostTo(p, {s}, [kind |-> "close", by |-> "local"])
    /\ UNCHANGED <<signaling, data_channels, released, sctp, messages, opens, closes, accepted, received, closed_by>>

\* The application drops the last reference to a channel it added (a channel the other
\* peer opened holds one to itself, in its opened callback): ~DataChannel posts Close
\* and then waits for the queue,
AppRelease(p, s) ==
    /\ channel[p][s].is_opened /\ s % 2 = Parity(p) /\ s \notin app_closed[p]
    /\ app_closed' = [app_closed EXCEPT ![p] = @ \cup {s}]
    /\ released' = [released EXCEPT ![p] = @ \cup {s}]
    /\ PostTo(p, {s}, [kind |-> "close", by |-> "local"])
    /\ UNCHANGED <<signaling, data_channels, sctp, messages, opens, closes, accepted, received, closed_by>>

\* but the transport and the pending messages are declared after the queue and are
\* destroyed before it has drained.
DestroyMembers(p, s) ==
    /\ s \in released[p] /\ channel[p][s].transport
    /\ channel' = [channel EXCEPT ![p][s] = [@ EXCEPT !.transport = FALSE, !.pending = <<>>]]
    /\ UNCHANGED <<signaling, data_channels, released, sctp, messages, history>>

-----------------------------------------------------------------------------
Next ==
    \E p \in Peers :
       \/ AssocChange(p, "connecting", "connected")
       \/ MayGoDown /\ AssocChange(p, "connected", "disconnected")
       \/ HandleWrite(p) \/ RunCloseStream(p)
       \/ RunAdd(p) \/ RunConnected(p) \/ RunDisconnected(p) \/ RunMessage(p)
       \/ \E s \in Streams :
             \/ AddDataChannel(p, s) \/ HandleRead(p, s)
             \/ RunOpen(p, s) \/ RunSend(p, s) \/ RunClose(p, s)
             \/ RunIncomingOpen(p, s) \/ RunIncomingAck(p, s) \/ RunIncomingClose(p, s) \/ RunIncomingUser(p, s)
             \/ AppSend(p, s) \/ AppClose(p, s) \/ AppRelease(p, s) \/ DestroyMembers(p, s)

Spec == Init /\ [][Next]_vars

-----------------------------------------------------------------------------
(* Properties *)

\* The state is well typed; the transport holds back at most one partial message.
TypeOK ==
    /\ messages \in 0..MaxMessages
    /\ state \in [Peers -> {"connecting", "connected", "disconnected"}]
    /\ \A p \in Peers :
          /\ data_channels[p] \subseteq Streams /\ released[p] \subseteq app_closed[p] /\ close_posted[p] \subseteq Streams /\ used[p] \subseteq Streams
          /\ \A rest \in partial[p] : rest.left \in 1..(rest.m.size - 1)
          /\ Cardinality(partial[p]) <= 1 /\ Room(socket[p]) \in 0..SendSpace
          /\ fragments[p] \in {{}} \cup {{s} : s \in Streams}
          /\ \A s \in Streams : channel[p][s].is_opened \in BOOLEAN /\ channel[p][s].transport \in BOOLEAN

\* The messages an application receives are a prefix of those the transport of the
\* other side took, and those are taken in the order they were sent: through the
\* pending queue of the channel, the partial message and the socket, none is lost,
\* duplicated or overtaken.
InOrder ==
    \A p \in Peers, s \in Streams :
       /\ IsPrefix(received[Other(p)][s], accepted[p][s])
       /\ \A i, j \in DOMAIN accepted[p][s] : i < j => accepted[p][s][i].id < accepted[p][s][j].id

\* A channel that closes because the other side closed it has received every
\* message the transport took before ("The close message will be processted
\* in-order").  Not so when the other side has dropped its channel: a stray message
\* has the stream reset ahead of what the channel still sends while it is destroyed.
CloseDrains ==
    \A p \in Peers, s \in Streams :
       closed_by[p][s] = "remote" /\ s \notin released[Other(p)]
       => received[p][s] = accepted[Other(p)][s]

\* Opened and closed callbacks alternate, starting with opened, although a channel
\* may be opened twice (AddDataChannel and OpenDataChannels) and be closed by both
\* sides and by the loss of the association.
CallbacksAlternate ==
    \A p \in Peers, s \in Streams :
       opens[p][s] - closes[p][s] = IF channel[p][s].is_opened THEN 1 ELSE 0

\* A message arrives for a stream without a channel, and has that stream reset under
\* it, only when the application has dropped the channel: the OPEN comes first on its
\* stream, a closed channel still takes late messages, and a lost association takes
\* back the channels only behind the messages that were received.
NoStrayMessages == \A p \in Peers : close_posted[p] \subseteq released[p]
=============================================================================

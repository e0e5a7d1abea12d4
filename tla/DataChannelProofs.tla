------------------------- MODULE DataChannelProofs -------------------------
(***************************************************************************)
(* Proofs about DataChannel, for every number of streams, size of message  *)
(* and send buffer: the application's callbacks alternate, and a message    *)
(* finds no channel only when the application has dropped it.               *)
(***************************************************************************)
EXTENDS DataChannel, FiniteSetTheorems, SequenceTheorems, WellFoundedInduction, TLAPS

Fields == {"is_opened", "transport", "tasks", "pending"}
IsChannel(c) == c = [f \in Fields |-> c[f]] /\ c.is_opened \in BOOLEAN

\* The channels ch of all peers and streams.
Channels(ch) ==
    /\ ch = [p \in Peers |-> ch[p]]
    /\ \A p \in Peers : ch[p] = [s \in Streams |-> ch[p][s]]
    /\ \A p \in Peers, s \in Streams : IsChannel(ch[p][s])

\* The callbacks alternate, in a state that has a channel and its counts for every stream.
CallbackInv ==
    /\ Channels(channel)
    /\ opens \in [Peers -> [Streams -> Int]]
    /\ closes \in [Peers -> [Streams -> Int]]
    /\ CallbacksAlternate

-----------------------------------------------------------------------------
(* Changes of a channel *)

\* Changing other fields of a channel leaves it open or closed.
LEMMA OtherField ==
  ASSUME NEW c, IsChannel(c), NEW f \in {"transport", "tasks", "pending"}, NEW x
  PROVE IsChannel([c EXCEPT ![f] = x]) /\ [c EXCEPT ![f] = x].is_opened = c.is_opened
<1>1. c = [g \in Fields |-> c[g]] /\ c.is_opened \in BOOLEAN /\ f \in Fields /\ "is_opened" \in Fields /\ f # "is_opened"
  BY DEF IsChannel, Fields
<1> DEFINE d == [c EXCEPT ![f] = x]
<1>2. d = [g \in Fields |-> IF g = f THEN x ELSE c[g]]
  BY <1>1
<1>3. d = [g \in Fields |-> d[g]] /\ d["is_opened"] = c["is_opened"]
  BY <1>1, <1>2
<1> QED
  BY <1>1, <1>3 DEF IsChannel

\* The tasks, the transport and the pending messages of a channel.
LEMMA FieldSteps ==
  ASSUME NEW c, IsChannel(c), NEW x
  PROVE /\ IsChannel([c EXCEPT !.tasks = x]) /\ [c EXCEPT !.tasks = x].is_opened = c.is_opened
        /\ IsChannel([c EXCEPT !.pending = x]) /\ [c EXCEPT !.pending = x].is_opened = c.is_opened
        /\ IsChannel([c EXCEPT !.transport = x]) /\ [c EXCEPT !.transport = x].is_opened = c.is_opened
  BY OtherField

\* Opening or closing a channel.
LEMMA OpenStep ==
  ASSUME NEW c, IsChannel(c), NEW b \in BOOLEAN
  PROVE IsChannel([c EXCEPT !.is_opened = b]) /\ [c EXCEPT !.is_opened = b].is_opened = b
<1>1. c = [g \in Fields |-> c[g]] /\ "is_opened" \in Fields
  BY DEF IsChannel, Fields
<1> DEFINE d == [c EXCEPT !.is_opened = b]
<1>2. d = [g \in Fields |-> IF g = "is_opened" THEN b ELSE c[g]]
  BY <1>1
<1>3. d = [g \in Fields |-> d[g]] /\ d["is_opened"] = b
  BY <1>1, <1>2
<1> QED
  BY <1>1, <1>3 DEF IsChannel

\* Channel s of peer p becomes c, as the code assigns its members, and what that means.
Assigned(p, s, c) == channel' = [channel EXCEPT ![p][s] = c]
OneChanged(p, s, c) ==
    /\ Channels(channel')
    /\ \A q \in Peers, t \in Streams : channel'[q][t] = IF q = p /\ t = s THEN c ELSE channel[q][t]

\* Only that channel changes.
LEMMA OneChanges ==
  ASSUME Channels(channel), NEW p \in Peers, NEW s \in Streams, NEW c, IsChannel(c), Assigned(p, s, c)
  PROVE OneChanged(p, s, c)
<1>1. /\ channel = [q \in Peers |-> channel[q]]
      /\ \A q \in Peers : channel[q] = [t \in Streams |-> channel[q][t]]
      /\ \A q \in Peers, t \in Streams : IsChannel(channel[q][t])
  BY DEF Channels
<1>3. /\ channel' = [q \in Peers |-> channel'[q]] /\ channel'[p] = [channel[p] EXCEPT ![s] = c]
      /\ \A q \in Peers : q # p => channel'[q] = channel[q]
  BY <1>1 DEF Assigned
<1>4. \A q \in Peers : channel'[q] = [t \in Streams |-> channel'[q][t]]
  BY <1>1, <1>3
<1>5. \A q \in Peers, t \in Streams : channel'[q][t] = IF q = p /\ t = s THEN c ELSE channel[q][t]
  BY <1>1, <1>3
<1>6. \A q \in Peers, t \in Streams : IsChannel(channel'[q][t])
  BY <1>1, <1>5
<1> QED
  BY <1>3, <1>4, <1>5, <1>6 DEF Channels, OneChanged

\* Posting a task to channels changes the tasks of these.
LEMMA PostChanges ==
  ASSUME Channels(channel), NEW p \in Peers, NEW S, NEW task, PostTo(p, S, task)
  PROVE /\ Channels(channel')
        /\ \A q \in Peers, t \in Streams :
             /\ channel'[q][t].is_opened = channel[q][t].is_opened
             /\ channel'[q][t] = IF q = p /\ t \in S THEN Posted(channel[q][t], task) ELSE channel[q][t]
<1>1. /\ channel = [q \in Peers |-> channel[q]]
      /\ \A q \in Peers : channel[q] = [t \in Streams |-> channel[q][t]]
      /\ \A q \in Peers, t \in Streams : IsChannel(channel[q][t])
  BY DEF Channels
<1> DEFINE new == [s \in Streams |-> IF s \in S THEN Posted(channel[p][s], task) ELSE channel[p][s]]
<1>2. channel' = [channel EXCEPT ![p] = new]
  BY DEF PostTo
<1>3. \A t \in Streams : new[t] = IF t \in S THEN Posted(channel[p][t], task) ELSE channel[p][t]
  OBVIOUS
<1>4. new = [t \in Streams |-> new[t]]
  OBVIOUS
<1> HIDE DEF new
<1>5. \A t \in Streams : IsChannel(new[t]) /\ new[t].is_opened = channel[p][t].is_opened
  <2> SUFFICES ASSUME NEW t \in Streams PROVE IsChannel(new[t]) /\ new[t].is_opened = channel[p][t].is_opened
    OBVIOUS
  <2> DEFINE c == channel[p][t]
             x == Append(c.tasks, task)
  <2>1. IsChannel(c)
    BY <1>1
  <2>2. Posted(c, task) = [c EXCEPT !.tasks = x]
    BY DEF Posted
  <2>3. new[t] = c \/ new[t] = [c EXCEPT !.tasks = x]
    BY <1>3, <2>2
  <2> HIDE DEF c, x
  <2>4. IsChannel([c EXCEPT !.tasks = x]) /\ [c EXCEPT !.tasks = x].is_opened = c.is_opened
    BY <2>1, FieldSteps
  <2>5. IsChannel(new[t]) /\ new[t].is_opened = c.is_opened
    BY <2>1, <2>3, <2>4
  <2> QED
    BY <2>5 DEF c
<1>6. /\ channel' = [q \in Peers |-> channel'[q]] /\ channel'[p] = new
      /\ \A q \in Peers : q # p => channel'[q] = channel[q]
  BY <1>1, <1>2
<1>7. Channels(channel')
  BY <1>1, <1>4, <1>5, <1>6 DEF Channels
<1>8. \A q \in Peers, t \in Streams : channel'[q][t].is_opened = channel[q][t].is_opened
  BY <1>5, <1>6
<1>9. \A q \in Peers, t \in Streams :
         channel'[q][t] = IF q = p /\ t \in S THEN Posted(channel[q][t], task) ELSE channel[q][t]
  BY <1>3, <1>6
<1> QED
  BY <1>7, <1>8, <1>9

\* It opens and closes none.
LEMMA PostKeeps ==
  ASSUME CallbackInv, NEW p \in Peers, NEW S, NEW task, PostTo(p, S, task), UNCHANGED <<opens, closes>>
  PROVE CallbackInv'
<1>1. Channels(channel') /\ \A q \in Peers, t \in Streams : channel'[q][t].is_opened = channel[q][t].is_opened
  BY PostChanges DEF CallbackInv
<1> QED
  BY <1>1 DEF CallbackInv, CallbacksAlternate

\* A step on one channel that does not open or close it.
LEMMA SameKeeps ==
  ASSUME CallbackInv, NEW p \in Peers, NEW s \in Streams, NEW c, IsChannel(c),
         c.is_opened = channel[p][s].is_opened,
         Assigned(p, s, c), UNCHANGED <<opens, closes>>
  PROVE CallbackInv'
<1>1. /\ Channels(channel')
      /\ \A q \in Peers, t \in Streams : channel'[q][t] = IF q = p /\ t = s THEN c ELSE channel[q][t]
  BY OneChanges DEF OneChanged, CallbackInv
<1>2. \A q \in Peers, t \in Streams : channel'[q][t].is_opened = channel[q][t].is_opened
  BY <1>1
<1> QED
  BY <1>1, <1>2 DEF CallbackInv, CallbacksAlternate

\* The counts of a callback that ran for one channel.
LEMMA Counted ==
  ASSUME NEW f \in [Peers -> [Streams -> Int]], NEW p \in Peers, NEW s \in Streams
  PROVE LET g == [f EXCEPT ![p][s] = @ + 1]
        IN /\ g \in [Peers -> [Streams -> Int]]
           /\ \A q \in Peers, t \in Streams : g[q][t] = IF q = p /\ t = s THEN f[q][t] + 1 ELSE f[q][t]
  OBVIOUS

\* The opened callback runs when the channel becomes open.
LEMMA OpenKeeps ==
  ASSUME CallbackInv, NEW p \in Peers, NEW s \in Streams, NEW c, IsChannel(c), c.is_opened = TRUE,
         Assigned(p, s, c), TriggerOpen(p, s), closes' = closes
  PROVE CallbackInv'
<1>1. /\ Channels(channel')
      /\ \A q \in Peers, t \in Streams : channel'[q][t] = IF q = p /\ t = s THEN c ELSE channel[q][t]
  BY OneChanges DEF OneChanged, CallbackInv
<1>2. opens \in [Peers -> [Streams -> Int]] /\ closes \in [Peers -> [Streams -> Int]]
  BY DEF CallbackInv
<1>3. channel[p][s].is_opened \in BOOLEAN
  BY DEF CallbackInv, Channels, IsChannel
<1>4. /\ opens' \in [Peers -> [Streams -> Int]]
      /\ \A q \in Peers, t \in Streams :
           opens'[q][t] = IF q = p /\ t = s /\ channel[p][s].is_opened = FALSE THEN opens[q][t] + 1 ELSE opens[q][t]
  <2>1. CASE channel[p][s].is_opened = TRUE
    BY <1>2, <2>1 DEF TriggerOpen
  <2>2. CASE channel[p][s].is_opened = FALSE
    <3>1. opens' = [opens EXCEPT ![p][s] = @ + 1]
      BY <2>2 DEF TriggerOpen
    <3> QED
      BY <1>2, <2>2, <3>1, Counted
  <2> QED
    BY <1>3, <2>1, <2>2
<1>5. ASSUME NEW q \in Peers, NEW t \in Streams
      PROVE opens'[q][t] - closes[q][t] = IF channel'[q][t].is_opened THEN 1 ELSE 0
  <2>1. opens[q][t] \in Int /\ closes[q][t] \in Int
    BY <1>2
  <2>2. opens[q][t] - closes[q][t] = IF channel[q][t].is_opened THEN 1 ELSE 0
    BY DEF CallbackInv, CallbacksAlternate
  <2>3. CASE q = p /\ t = s
    <3>1. channel'[q][t].is_opened = TRUE
      BY <1>1, <2>3
    <3>2. CASE channel[p][s].is_opened = TRUE
      BY <1>4, <2>1, <2>2, <2>3, <3>1, <3>2
    <3>3. CASE channel[p][s].is_opened = FALSE
      <4>1. opens[q][t] - closes[q][t] = 0
        BY <2>2, <2>3, <3>3
      <4>2. opens'[q][t] = opens[q][t] + 1
        BY <1>4, <2>3, <3>3
      <4> QED
        BY <2>1, <3>1, <4>1, <4>2
    <3> QED
      BY <1>3, <3>2, <3>3
  <2>4. CASE ~(q = p /\ t = s)
    <3>1. channel'[q][t] = channel[q][t] /\ opens'[q][t] = opens[q][t]
      BY <1>1, <1>4, <2>4
    <3> QED
      BY <2>2, <3>1
  <2> QED
    BY <2>3, <2>4
<1> QED
  BY <1>1, <1>2, <1>4, <1>5 DEF CallbackInv, CallbacksAlternate

\* The closed callback runs when an open channel closes.
LEMMA CloseKeeps ==
  ASSUME CallbackInv, NEW p \in Peers, NEW s \in Streams, NEW c, IsChannel(c), c.is_opened = FALSE,
         channel[p][s].is_opened = TRUE,
         Assigned(p, s, c), closes' = [closes EXCEPT ![p][s] = @ + 1], opens' = opens
  PROVE CallbackInv'
<1>1. /\ Channels(channel')
      /\ \A q \in Peers, t \in Streams : channel'[q][t] = IF q = p /\ t = s THEN c ELSE channel[q][t]
  BY OneChanges DEF OneChanged, CallbackInv
<1>2. opens \in [Peers -> [Streams -> Int]] /\ closes \in [Peers -> [Streams -> Int]]
  BY DEF CallbackInv
<1>3. /\ closes' \in [Peers -> [Streams -> Int]]
      /\ \A q \in Peers, t \in Streams : closes'[q][t] = IF q = p /\ t = s THEN closes[q][t] + 1 ELSE closes[q][t]
  BY <1>2, Counted
<1>4. ASSUME NEW q \in Peers, NEW t \in Streams
      PROVE opens[q][t] - closes'[q][t] = IF channel'[q][t].is_opened THEN 1 ELSE 0
  <2>1. opens[q][t] \in Int /\ closes[q][t] \in Int
    BY <1>2
  <2>2. opens[q][t] - closes[q][t] = IF channel[q][t].is_opened THEN 1 ELSE 0
    BY DEF CallbackInv, CallbacksAlternate
  <2>3. CASE q = p /\ t = s
    <3>1. channel'[q][t].is_opened = FALSE /\ channel[q][t].is_opened = TRUE
      BY <1>1, <2>3
    <3>2. closes'[q][t] = closes[q][t] + 1
      BY <1>3, <2>3
    <3>3. opens[q][t] - closes[q][t] = 1
      BY <2>2, <3>1
    <3> QED
      BY <2>1, <3>1, <3>2, <3>3
  <2>4. CASE ~(q = p /\ t = s)
    <3>1. channel'[q][t] = channel[q][t] /\ closes'[q][t] = closes[q][t]
      BY <1>1, <1>3, <2>4
    <3> QED
      BY <2>2, <3>1
  <2> QED
    BY <2>3, <2>4
<1> QED
  BY <1>1, <1>2, <1>3, <1>4 DEF CallbackInv, CallbacksAlternate

-----------------------------------------------------------------------------
(* The steps *)

\* A channel is one before and without the task that runs.
LEMMA RunningRight ==
  ASSUME CallbackInv, NEW p \in Peers, NEW s \in Streams
  PROVE /\ IsChannel(channel[p][s]) /\ IsChannel(Running(p, s))
        /\ Running(p, s).is_opened = channel[p][s].is_opened
<1>1. IsChannel(channel[p][s])
  BY DEF CallbackInv, Channels
<1> DEFINE c == channel[p][s]
           x == Tail(c.tasks)
<1>2. Running(p, s) = [c EXCEPT !.tasks = x]
  BY DEF Running
<1> HIDE DEF c, x
<1>3. IsChannel(c)
  BY <1>1 DEF c
<1>4. IsChannel([c EXCEPT !.tasks = x]) /\ [c EXCEPT !.tasks = x].is_opened = c.is_opened
  BY <1>3, FieldSteps
<1>5. IsChannel(Running(p, s)) /\ Running(p, s).is_opened = c.is_opened
  BY <1>2, <1>4
<1> QED
  BY <1>1, <1>5 DEF c

\* Nothing that the callbacks depend on changes.
LEMMA UnchangedKeeps ==
  ASSUME CallbackInv, UNCHANGED <<channel, opens, closes>>
  PROVE CallbackInv'
  BY DEF CallbackInv, Channels, CallbacksAlternate

\* A stream that does not exist has no channel to change.
LEMMA NoChannel ==
  ASSUME CallbackInv, NEW p \in Peers, NEW s, s \notin Streams, NEW c, Assigned(p, s, c)
  PROVE channel' = channel
<1>1. /\ channel = [q \in Peers |-> channel[q]]
      /\ \A q \in Peers : channel[q] = [t \in Streams |-> channel[q][t]]
  BY DEF CallbackInv, Channels
<1>2. channel' = [channel EXCEPT ![p] = [channel[p] EXCEPT ![s] = c]]
  BY DEF Assigned
<1>3. [channel[p] EXCEPT ![s] = c] = channel[p]
  BY <1>1
<1> QED
  BY <1>1, <1>2, <1>3

\* A message of the other peer goes to its channel, makes it, or has its stream closed.
LEMMA MessageKeeps ==
  ASSUME CallbackInv, NEW p \in Peers, RunMessage(p)
  PROVE CallbackInv'
<1> DEFINE s == Head(signaling[p]).s
           m == Head(signaling[p]).m
           c == channel[p][s]
           d == [c EXCEPT !.transport = TRUE]
           x == Append(d.tasks, Incoming(m))
<1>1. UNCHANGED <<opens, closes>>
  BY DEF RunMessage, history
<1>2. CASE PostTo(p, {s}, Incoming(m))
  BY <1>1, <1>2, PostKeeps
<1>3. CASE channel' = channel
  BY <1>1, <1>3, UnchangedKeeps
<1>4. CASE Assigned(p, s, Posted(d, Incoming(m)))
  <2>1. CASE s \notin Streams
    BY <1>1, <1>4, <2>1, NoChannel, UnchangedKeeps
  <2>2. CASE s \in Streams
    <3>1. IsChannel(c)
      BY <2>2, RunningRight
    <3>2. Posted(d, Incoming(m)) = [d EXCEPT !.tasks = x]
      BY DEF Posted
    <3> HIDE DEF x, c
    <3>3. IsChannel(d) /\ d.is_opened = c.is_opened
      BY <3>1, FieldSteps
    <3> HIDE DEF d
    <3> DEFINE e == [d EXCEPT !.tasks = x]
    <3>4. IsChannel(e) /\ e.is_opened = c.is_opened
      BY <3>3, FieldSteps
    <3>5. Assigned(p, s, e)
      BY <1>4, <3>2
    <3> HIDE DEF e, s
    <3>6. e.is_opened = channel[p][s].is_opened
      BY <3>4 DEF c
    <3> QED
      BY <1>1, <2>2, <3>4, <3>5, <3>6, SameKeeps
  <2> QED
    BY <2>1, <2>2
<1> QED
  BY <1>2, <1>3, <1>4 DEF RunMessage, Assigned

\* Sending leaves the channel as it is, but for the messages that wait.
LEMMA SendingRight ==
  ASSUME NEW c, IsChannel(c), NEW p, NEW s, NEW m, Sending(c, p, s, m)
  PROVE \E d : IsChannel(d) /\ d.is_opened = c.is_opened /\ Assigned(p, s, d)
<1> DEFINE x == IF c.transport THEN Send(c, p, s, m).left ELSE Append(c.pending, m)
           d == [c EXCEPT !.pending = x]
<1>1. Assigned(p, s, d)
  BY DEF Sending, Assigned
<1> HIDE DEF x
<1>2. IsChannel(d) /\ d.is_opened = c.is_opened
  BY FieldSteps
<1> HIDE DEF d
<1> QED
  BY <1>1, <1>2

\* The Open task.
LEMMA RunOpenKeeps ==
  ASSUME CallbackInv, NEW p \in Peers, NEW s \in Streams, RunOpen(p, s)
  PROVE CallbackInv'
<1> DEFINE r == Running(p, s)
           c == [r EXCEPT !.transport = TRUE]
<1>1. IsChannel(r) /\ r.is_opened = channel[p][s].is_opened
  BY RunningRight
<1>2. UNCHANGED <<opens, closes>>
  BY DEF RunOpen
<1>3. Assigned(p, s, r) \/ Sending(c, p, s, Open)
  BY DEF RunOpen, Assigned
<1> HIDE DEF r
<1>4. IsChannel(c) /\ c.is_opened = r.is_opened
  BY <1>1, FieldSteps
<1> HIDE DEF c
<1>5. CASE Assigned(p, s, r)
  BY <1>1, <1>2, <1>5, SameKeeps
<1>6. CASE Sending(c, p, s, Open)
  <2>1. PICK d : IsChannel(d) /\ d.is_opened = c.is_opened /\ Assigned(p, s, d)
    BY <1>4, <1>6, SendingRight
  <2> QED
    BY <1>1, <1>2, <1>4, <2>1, SameKeeps
<1> QED
  BY <1>3, <1>5, <1>6

\* The Send task.
LEMMA RunSendKeeps ==
  ASSUME CallbackInv, NEW p \in Peers, NEW s \in Streams, RunSend(p, s)
  PROVE CallbackInv'
<1> DEFINE r == Running(p, s)
           m == Head(channel[p][s].tasks).m
<1>1. IsChannel(r) /\ r.is_opened = channel[p][s].is_opened
  BY RunningRight
<1>2. UNCHANGED <<opens, closes>> /\ Sending(r, p, s, m)
  BY DEF RunSend
<1> HIDE DEF r, m
<1>3. PICK d : IsChannel(d) /\ d.is_opened = r.is_opened /\ Assigned(p, s, d)
  BY <1>1, <1>2, SendingRight
<1> QED
  BY <1>1, <1>2, <1>3, SameKeeps

\* The Close task: the closed callback runs only for a channel that is open.
LEMMA RunCloseKeeps ==
  ASSUME CallbackInv, NEW p \in Peers, NEW s \in Streams, RunClose(p, s)
  PROVE CallbackInv'
<1> DEFINE r == Running(p, s)
           c1 == [r EXCEPT !.is_opened = FALSE]
           c2 == [c1 EXCEPT !.transport = FALSE]
           c3 == [c2 EXCEPT !.pending = <<>>]
<1>1. IsChannel(r) /\ r.is_opened = channel[p][s].is_opened /\ channel[p][s].is_opened \in BOOLEAN
  BY RunningRight DEF IsChannel
<1>2. opens' = opens
  BY DEF RunClose
<1>3. CASE ~channel[p][s].is_opened
  <2>1. Assigned(p, s, r) /\ closes' = closes
    BY <1>3 DEF RunClose, Assigned
  <2> HIDE DEF r
  <2> QED
    BY <1>1, <1>2, <2>1, SameKeeps
<1>4. CASE channel[p][s].is_opened
  <2>1. Assigned(p, s, c3) /\ closes' = [closes EXCEPT ![p][s] = @ + 1]
    BY <1>4 DEF RunClose, Assigned
  <2> HIDE DEF r
  <2>2. IsChannel(c1) /\ c1.is_opened = FALSE
    BY <1>1, OpenStep
  <2> HIDE DEF c1
  <2>3. IsChannel(c2) /\ c2.is_opened = FALSE
    BY <2>2, FieldSteps
  <2> HIDE DEF c2
  <2>4. IsChannel(c3) /\ c3.is_opened = FALSE
    BY <2>3, FieldSteps
  <2> HIDE DEF c3
  <2>5. channel[p][s].is_opened = TRUE
    BY <1>1, <1>4
  <2> QED
    BY <1>2, <2>1, <2>4, <2>5, CloseKeeps
<1> QED
  BY <1>3, <1>4

\* An OPEN or an ACK opens the channel; the callback runs if it was not open.
LEMMA IncomingOpenKeeps ==
  ASSUME CallbackInv, NEW p \in Peers, NEW s \in Streams, RunIncomingOpen(p, s) \/ RunIncomingAck(p, s)
  PROVE CallbackInv'
<1> DEFINE r == Running(p, s)
           c == [r EXCEPT !.is_opened = TRUE]
<1>1. IsChannel(r)
  BY RunningRight
<1>2. closes' = closes /\ TriggerOpen(p, s)
  BY DEF RunIncomingOpen, RunIncomingAck
<1>3. Assigned(p, s, c) \/ Sending(c, p, s, Ack)
  BY DEF RunIncomingOpen, RunIncomingAck, Assigned
<1> HIDE DEF r
<1>4. IsChannel(c) /\ c.is_opened = TRUE
  BY <1>1, OpenStep
<1> HIDE DEF c
<1>5. \E d : IsChannel(d) /\ d.is_opened = TRUE /\ Assigned(p, s, d)
  BY <1>3, <1>4, SendingRight
<1> QED
  BY <1>2, <1>5, OpenKeeps

\* A CLOSE, a user message, and the end of a channel the application dropped.
LEMMA IncomingKeeps ==
  ASSUME CallbackInv, NEW p \in Peers, NEW s \in Streams,
         RunIncomingClose(p, s) \/ RunIncomingUser(p, s) \/ DestroyMembers(p, s)
  PROVE CallbackInv'
<1> DEFINE r == Running(p, s)
           close == [kind |-> "close", by |-> "remote"]
           x == Append(r.tasks, close)
           c == channel[p][s]
           c1 == [c EXCEPT !.transport = FALSE]
           c2 == [c1 EXCEPT !.pending = <<>>]
<1>1. IsChannel(r) /\ r.is_opened = c.is_opened /\ IsChannel(c)
  BY RunningRight
<1>2. UNCHANGED <<opens, closes>>
  BY DEF RunIncomingClose, RunIncomingUser, DestroyMembers, history
<1>3. Assigned(p, s, [r EXCEPT !.tasks = x]) \/ Assigned(p, s, r) \/ Assigned(p, s, c2)
  BY DEF RunIncomingClose, RunIncomingUser, DestroyMembers, Assigned, Posted
<1> HIDE DEF r, x
<1> DEFINE d == [r EXCEPT !.tasks = x]
<1>4. IsChannel(d) /\ d.is_opened = r.is_opened
  BY <1>1, FieldSteps
<1> HIDE DEF d, c
<1>5. IsChannel(c1) /\ c1.is_opened = c.is_opened
  BY <1>1, FieldSteps
<1> HIDE DEF c1
<1>6. IsChannel(c2) /\ c2.is_opened = c.is_opened
  BY <1>5, FieldSteps
<1> HIDE DEF c2
<1>7. PICK e : IsChannel(e) /\ e.is_opened = c.is_opened /\ Assigned(p, s, e)
  BY <1>1, <1>3, <1>4, <1>6 DEF d
<1>8. e.is_opened = channel[p][s].is_opened
  BY <1>7 DEF c
<1> QED
  BY <1>2, <1>7, <1>8, SameKeeps

\* Every step keeps the callbacks alternating.
LEMMA CallbackStep == CallbackInv /\ [Next]_vars => CallbackInv'
<1> SUFFICES ASSUME CallbackInv, [Next]_vars PROVE CallbackInv'
  OBVIOUS
<1>1. CASE UNCHANGED vars
  BY <1>1, UnchangedKeeps DEF vars, history
<1>2. ASSUME NEW p \in Peers,
             \/ AssocChange(p, "connecting", "connected") \/ AssocChange(p, "connected", "disconnected")
             \/ HandleWrite(p) \/ RunCloseStream(p)
      PROVE CallbackInv'
  <2>1. UNCHANGED <<channel, opens, closes>>
    BY <1>2 DEF AssocChange, HandleWrite, RunCloseStream, history
  <2> QED
    BY <2>1, UnchangedKeeps
<1>3. ASSUME NEW p \in Peers, RunAdd(p) \/ RunConnected(p) \/ RunDisconnected(p) PROVE CallbackInv'
  <2>1. UNCHANGED <<opens, closes>> /\ \E S, task : PostTo(p, S, task)
    BY <1>3 DEF RunAdd, RunConnected, RunDisconnected, history
  <2> QED
    BY <2>1, PostKeeps
<1>4. ASSUME NEW p \in Peers, RunMessage(p) PROVE CallbackInv'
  BY <1>4, MessageKeeps
<1>5. ASSUME NEW p \in Peers, NEW s \in Streams, AddDataChannel(p, s) \/ HandleRead(p, s) PROVE CallbackInv'
  <2>1. UNCHANGED <<channel, opens, closes>>
    BY <1>5 DEF AddDataChannel, HandleRead, history
  <2> QED
    BY <2>1, UnchangedKeeps
<1>6. ASSUME NEW p \in Peers, NEW s \in Streams, AppSend(p, s) \/ AppClose(p, s) \/ AppRelease(p, s)
      PROVE CallbackInv'
  <2>1. UNCHANGED <<opens, closes>> /\ \E S, task : PostTo(p, S, task)
    BY <1>6 DEF AppSend, AppClose, AppRelease, history
  <2> QED
    BY <2>1, PostKeeps
<1>7. ASSUME NEW p \in Peers, NEW s \in Streams,
             \/ RunOpen(p, s) \/ RunSend(p, s) \/ RunClose(p, s)
             \/ RunIncomingOpen(p, s) \/ RunIncomingAck(p, s)
             \/ RunIncomingClose(p, s) \/ RunIncomingUser(p, s) \/ DestroyMembers(p, s)
      PROVE CallbackInv'
  BY <1>7, RunOpenKeeps, RunSendKeeps, RunCloseKeeps, IncomingOpenKeeps, IncomingKeeps
<1> QED
  BY <1>1, <1>2, <1>3, <1>4, <1>5, <1>6, <1>7 DEF Next

\* Opened and closed callbacks of DataChannel alternate, starting with opened, for every
\* interleaving of Open, Close, the messages of the other peer and the loss of the association.
THEOREM CallbacksInTurn == Spec => []CallbacksAlternate
<1>1. ASSUME Init PROVE CallbackInv
  <2> DEFINE c == [is_opened |-> FALSE, transport |-> FALSE, tasks |-> <<>>, pending |-> <<>>]
  <2>1. IsChannel(c) /\ c.is_opened = FALSE
    BY DEF IsChannel, Fields
  <2>2. channel = [p \in Peers |-> [s \in Streams |-> c]]
    BY <1>1 DEF Init, PerChannel
  <2> HIDE DEF c
  <2>3. opens = [p \in Peers |-> [s \in Streams |-> 0]] /\ closes = [p \in Peers |-> [s \in Streams |-> 0]]
    BY <1>1 DEF Init, PerChannel
  <2>4. Channels(channel)
    BY <2>1, <2>2 DEF Channels
  <2>5. CallbacksAlternate
    BY <2>1, <2>2, <2>3 DEF CallbacksAlternate
  <2> QED
    BY <2>3, <2>4, <2>5 DEF CallbackInv
<1>2. CallbackInv => CallbacksAlternate
  BY DEF CallbackInv
<1> QED
  BY <1>1, <1>2, CallbackStep, PTL DEF Spec

-----------------------------------------------------------------------------
(* Sequences and numbers *)

\* The values in a sequence are of no set in particular.
IsSeq(q) == q \in Seq(Range(q))

\* A sequence of members of S is one of its own values.
LEMMA SeqHolds ==
  ASSUME NEW S, NEW q \in Seq(S)
  PROVE IsSeq(q) /\ Range(q) \subseteq S /\ \A i \in DOMAIN q : q[i] \in S /\ q[i] \in Range(q)
<1>1. Len(q) \in Nat /\ DOMAIN q = 1..Len(q) /\ \A i \in 1..Len(q) : q[i] \in S
  OBVIOUS
<1>2. \A i \in 1..Len(q) : q[i] \in Range(q)
  BY <1>1 DEF Range
<1>3. q = [i \in 1..Len(q) |-> q[i]]
  BY <1>1
<1>4. q \in Seq(Range(q))
  BY <1>1, <1>2, <1>3
<1> QED
  BY <1>1, <1>2, <1>4 DEF IsSeq, Range

\* A sequence that grows, shrinks, or has one more in the middle.
LEMMA SeqChanges ==
  ASSUME NEW q, IsSeq(q), NEW x
  PROVE /\ IsSeq(Append(q, x)) /\ Range(Append(q, x)) \subseteq Range(q) \cup {x}
        /\ q # <<>> => IsSeq(Tail(q)) /\ Range(Tail(q)) \subseteq Range(q) /\ Head(q) \in Range(q)
<1> DEFINE S == Range(q) \cup {x}
<1>1. q \in Seq(S) /\ q \in Seq(Range(q))
  <2>1. q \in Seq(Range(q)) /\ Range(q) \subseteq S
    BY DEF IsSeq
  <2> HIDE DEF S
  <2> QED
    BY <2>1
<1>2. Append(q, x) \in Seq(S)
  <2>1. x \in S
    OBVIOUS
  <2> HIDE DEF S
  <2> QED
    BY <1>1, <2>1
<1>3. q # <<>> => Tail(q) \in Seq(Range(q)) /\ Head(q) \in Range(q)
  BY <1>1
<1> QED
  BY <1>2, <1>3, SeqHolds

\* A sequence with one more or one fewer in the middle.
LEMMA InsertOf ==
  ASSUME NEW S, NEW q \in Seq(S), NEW i \in DOMAIN q, NEW x \in S
  PROVE InsertAt(q, i, x) \in Seq(S) /\ RemoveAt(q, i) \in Seq(S)
<1>1. i \in 1..Len(q) /\ Len(q) \in Nat
  OBVIOUS
<1>2. SubSeq(q, 1, i - 1) \in Seq(S) /\ SubSeq(q, i, Len(q)) \in Seq(S) /\ SubSeq(q, i + 1, Len(q)) \in Seq(S)
  BY <1>1
<1> QED
  BY <1>1, <1>2 DEF InsertAt, RemoveAt

\* A set of numbers that is not empty has a least one.
LEMMA LeastNumber ==
  ASSUME NEW S \in SUBSET Nat, S # {}
  PROVE \E m \in S : \A y \in S : m <= y
<1>1. PICK m \in S : \A y \in S : ~(<<y, m>> \in OpToRel(<, Nat))
  BY WFMin, NatLessThanWellFounded
<1>2. ASSUME NEW y \in S PROVE m <= y
  <2>1. y \in Nat /\ m \in Nat
    OBVIOUS
  <2>2. ~(y < m)
    BY <1>1, <2>1 DEF OpToRel
  <2> QED
    BY <2>1, <2>2
<1> QED
  BY <1>2

\* The greatest place of a set of places is one of them.
LEMMA GreatestNumber ==
  ASSUME NEW n \in Nat, NEW S \in SUBSET (1..n), S # {}
  PROVE Max(S) \in S
<1> DEFINE D == {d \in Nat : \E x \in S : d = n - x}
<1>1. D \in SUBSET Nat /\ D # {}
  <2>1. PICK x \in S : TRUE
    OBVIOUS
  <2>2. n - x \in Nat
    OBVIOUS
  <2> QED
    BY <2>2
<1>2. PICK d \in D : \A y \in D : d <= y
  <2> HIDE DEF D
  <2> QED
    BY <1>1, LeastNumber
<1>3. PICK x \in S : d = n - x
  OBVIOUS
<1>4. \A y \in S : x >= y
  <2> SUFFICES ASSUME NEW y \in S PROVE x >= y
    OBVIOUS
  <2>1. n - y \in D
    OBVIOUS
  <2> QED
    BY <1>2, <1>3, <2>1
<1> QED
  BY <1>3, <1>4 DEF Max

\* What is put into a socket lands in it; the rest stays.
LEMMA PutOf ==
  ASSUME NEW S, NEW sock \in Seq(S), NEW s, NEW item \in S
  PROVE Put(sock, s, item) \in Seq(S)
<1> DEFINE R == {i \in DOMAIN sock : sock[i].s = s /\ IsReset(sock[i])}
<1>1. CASE Resetting(sock, s)
  <2>1. R # {} /\ R \in SUBSET Nat
    BY <1>1 DEF Resetting
  <2>2. PICK m \in R : \A y \in R : m <= y
    <3> HIDE DEF R
    <3> QED
      BY <2>1, LeastNumber
  <2>3. Min(R) \in R
    BY <2>2 DEF Min
  <2>4. Put(sock, s, item) = InsertAt(sock, Min(R), item)
    BY <1>1 DEF Put
  <2>5. Min(R) \in DOMAIN sock
    BY <2>3
  <2> HIDE DEF R
  <2> QED
    BY <2>4, <2>5, InsertOf
<1>2. CASE ~Resetting(sock, s)
  BY <1>2 DEF Put
<1> QED
  BY <1>1, <1>2

-----------------------------------------------------------------------------
(* FlushPendingMessages *)

\* One message of the queue, and the recursion of FoldLeft over the places of the queue.
FlushStep(p, s, acc, m) ==
    IF acc.left # <<>> \/ ~Accepts(acc.n, p, s) THEN [acc EXCEPT !.left = Append(@, m)]
    ELSE [acc EXCEPT !.n = SendInternal(acc.n, s, m)]
IsFlush(it, p, s, base, queue, S) ==
    it = [t \in SUBSET S |-> IF t = {} THEN base ELSE FlushStep(p, s, it[t \ {Max(t)}], queue[Max(t)])]

\* Of the sets of places something does not hold of, one is least.
LEMMA LeastSet ==
  ASSUME NEW F, \A t \in F : IsFiniteSet(t), F # {}
  PROVE \E t \in F : \A x \in t : t \ {x} \notin F
<1> DEFINE N == {Cardinality(t) : t \in F}
<1>1. N \in SUBSET Nat /\ N # {}
  BY FS_CardinalityType
<1>2. PICK m \in N : \A y \in N : m <= y
  <2> HIDE DEF N
  <2> QED
    BY <1>1, LeastNumber
<1>3. PICK t \in F : Cardinality(t) = m
  OBVIOUS
<1>4. ASSUME NEW x \in t, t \ {x} \in F PROVE FALSE
  <2>1. Cardinality(t \ {x}) = Cardinality(t) - 1 /\ Cardinality(t) \in Nat
    BY FS_RemoveElement, FS_CardinalityType
  <2>2. m <= Cardinality(t \ {x})
    BY <1>2, <1>4
  <2> QED
    BY <1>3, <2>1, <2>2
<1> QED
  BY <1>4

Places(t) == \E n \in Nat : t \subseteq 1..n

\* A set of places is finite, and so are its subsets.
LEMMA PlacesFinite ==
  ASSUME NEW t, Places(t)
  PROVE IsFiniteSet(t) /\ (t # {} => Max(t) \in t) /\ \A u \in SUBSET t : Places(u)
<1>1. PICK n \in Nat : t \subseteq 1..n
  BY DEF Places
<1>2. IsFiniteSet(1..n)
  BY FS_Interval
<1> QED
  BY <1>1, <1>2, FS_Subset, GreatestNumber DEF Places

\* Two of them agree on the places they share.
LEMMA FlushUnique ==
  ASSUME NEW p, NEW s, NEW base, NEW queue,
         NEW S, Places(S), NEW it, IsFlush(it, p, s, base, queue, S),
         NEW T, Places(T), NEW jt, IsFlush(jt, p, s, base, queue, T),
         NEW u, u \subseteq S, u \subseteq T
  PROVE it[u] = jt[u]
<1> DEFINE F == {t \in SUBSET u : it[t] # jt[t]}
<1> SUFFICES ASSUME F # {} PROVE FALSE
  OBVIOUS
<1>1. \A t \in F : IsFiniteSet(t)
  BY PlacesFinite
<1>2. PICK t \in F : \A x \in t : t \ {x} \notin F
  <2> HIDE DEF F
  <2> QED
    BY <1>1, LeastSet
<1>3. t \in SUBSET u /\ t \in SUBSET S /\ t \in SUBSET T /\ it[t] # jt[t]
  BY <1>2
<1>4. /\ it[t] = IF t = {} THEN base ELSE FlushStep(p, s, it[t \ {Max(t)}], queue[Max(t)])
      /\ jt[t] = IF t = {} THEN base ELSE FlushStep(p, s, jt[t \ {Max(t)}], queue[Max(t)])
  BY <1>3 DEF IsFlush
<1>5. t # {} /\ Max(t) \in t
  BY <1>3, <1>4, PlacesFinite
<1>6. it[t \ {Max(t)}] = jt[t \ {Max(t)}]
  BY <1>2, <1>3, <1>5
<1> QED
  BY <1>3, <1>4, <1>5, <1>6

\* The recursion has a solution for the places of every queue.
LEMMA FlushExists ==
  ASSUME NEW p, NEW s, NEW base, NEW queue, NEW S, Places(S)
  PROVE \E it : IsFlush(it, p, s, base, queue, S)
<1> DEFINE Has(t) == \E it : IsFlush(it, p, s, base, queue, t)
           F == {t \in SUBSET S : ~Has(t)}
<1> SUFFICES ASSUME F # {} PROVE FALSE
  OBVIOUS
<1>1. \A t \in F : IsFiniteSet(t)
  BY PlacesFinite
<1>2. PICK t \in F : \A x \in t : t \ {x} \notin F
  <2> HIDE DEF F
  <2> QED
    BY <1>1, LeastSet
<1>3. t \in SUBSET S /\ ~Has(t) /\ Places(t)
  BY <1>2, PlacesFinite
<1>4. \A x \in t : Has(t \ {x})
  BY <1>2, <1>3
<1> DEFINE Of(u) == CHOOSE it : IsFlush(it, p, s, base, queue, u)
<1>5. ASSUME NEW u \in SUBSET t, u # t PROVE IsFlush(Of(u), p, s, base, queue, u)
  <2>1. PICK x \in t : x \notin u
    BY <1>5
  <2>2. PICK it : IsFlush(it, p, s, base, queue, t \ {x})
    BY <1>4
  <2> DEFINE jt == [v \in SUBSET u |-> it[v]]
  <2>3. IsFlush(jt, p, s, base, queue, u)
    <3> SUFFICES ASSUME NEW v \in SUBSET u
                 PROVE it[v] = IF v = {} THEN base ELSE FlushStep(p, s, jt[v \ {Max(v)}], queue[Max(v)])
      BY DEF IsFlush
    <3>1. v \in SUBSET (t \ {x}) /\ v \ {Max(v)} \in SUBSET u
      BY <2>1
    <3>2. jt[v \ {Max(v)}] = it[v \ {Max(v)}]
      BY <3>1
    <3> HIDE DEF jt
    <3>3. it[v] = IF v = {} THEN base ELSE FlushStep(p, s, it[v \ {Max(v)}], queue[Max(v)])
      BY <2>2, <3>1 DEF IsFlush
    <3> QED
      BY <3>2, <3>3
  <2> QED
    BY <2>3
<1> HIDE DEF Has, Of
<1> DEFINE kt == [u \in SUBSET t |-> IF u # t THEN Of(u)[u]
                                     ELSE IF t = {} THEN base
                                     ELSE FlushStep(p, s, Of(t \ {Max(t)})[t \ {Max(t)}], queue[Max(t)])]
<1>6. IsFlush(kt, p, s, base, queue, t)
  <2> SUFFICES ASSUME NEW u \in SUBSET t
               PROVE kt[u] = IF u = {} THEN base ELSE FlushStep(p, s, kt[u \ {Max(u)}], queue[Max(u)])
    BY DEF IsFlush
  <2> DEFINE r == u \ {Max(u)}
  <2>0. u # {} => Max(u) \in u
    BY <1>3, PlacesFinite
  <2>1. u # {} => kt[r] = Of(r)[r]
    BY <2>0
  <2>2. CASE u = t
    <3>1. kt[u] = IF u = {} THEN base ELSE FlushStep(p, s, Of(r)[r], queue[Max(u)])
      BY <2>2
    <3> HIDE DEF kt, r
    <3>2. u # {} => FlushStep(p, s, Of(r)[r], queue[Max(u)]) = FlushStep(p, s, kt[r], queue[Max(u)])
      BY <2>1
    <3> QED
      BY <3>1, <3>2 DEF r
  <2>3. CASE u # t
    <3> DEFINE it == Of(u)
    <3>1. IsFlush(it, p, s, base, queue, u) /\ kt[u] = it[u]
      BY <1>5, <2>3
    <3> HIDE DEF it, kt
    <3>2. it[u] = IF u = {} THEN base ELSE FlushStep(p, s, it[u \ {Max(u)}], queue[Max(u)])
      BY <3>1 DEF IsFlush
    <3>3. CASE u # {}
      <4> DEFINE jt == Of(r)
      <4>1. r \in SUBSET t /\ r # t /\ r \subseteq u
        BY <2>0, <3>3
      <4>2. IsFlush(jt, p, s, base, queue, r) /\ kt[r] = jt[r]
        BY <1>5, <2>1, <3>3, <4>1
      <4> HIDE DEF r, jt
      <4>3. it[r] = jt[r]
        <5>1. Places(u) /\ Places(r)
          BY <1>3, <4>1, PlacesFinite
        <5> QED
          BY <3>1, <4>1, <4>2, <5>1, FlushUnique
      <4>4. kt[r] = it[r]
        BY <4>2, <4>3
      <4>5. it[u] = FlushStep(p, s, it[r], queue[Max(u)])
        BY <3>2, <3>3 DEF r
      <4>6. kt[u] = FlushStep(p, s, kt[r], queue[Max(u)])
        BY <3>1, <4>4, <4>5
      <4> QED
        BY <3>3, <4>6 DEF r
    <3> QED
      BY <3>1, <3>2, <3>3
  <2> QED
    BY <2>2, <2>3
<1> QED
  BY <1>3, <1>6 DEF Has

\* So Flush is its last value.
LEMMA FlushIs ==
  ASSUME NEW p, NEW s, NEW n, NEW Q, NEW queue \in Seq(Q)
  PROVE \E it : /\ IsFlush(it, p, s, [n |-> n, left |-> <<>>], queue, 1..Len(queue))
                /\ Flush(n, p, s, queue) = it[1..Len(queue)]
<1> DEFINE S == DOMAIN queue
           base == [n |-> n, left |-> <<>>]
           Folds(it) == it = [t \in SUBSET S |-> IF t = {} THEN base
                               ELSE FlushStep(p, s, it[t \ {Max(t)}], queue[Max(t)])]
           jt == CHOOSE it : Folds(it)
<1>1. Flush(n, p, s, queue) = jt[S]
  BY DEF Flush, FoldLeft, MapThenFoldSet, FlushStep
<1>2. \A it : Folds(it) <=> IsFlush(it, p, s, base, queue, S)
  BY DEF IsFlush
<1>3. S = 1..Len(queue) /\ Len(queue) \in Nat
  OBVIOUS
<1> HIDE DEF S, base
<1>4. \E it : IsFlush(it, p, s, base, queue, S)
  BY <1>3, FlushExists DEF Places
<1> HIDE DEF Folds
<1>5. Folds(jt)
  BY <1>2, <1>4
<1> HIDE DEF jt
<1> QED
  BY <1>1, <1>2, <1>3, <1>5 DEF base

\* The network side n of a peer holds what n0 held, and messages of M on stream s.
Sends(n0, n, s, M) ==
    /\ IsSeq(n.socket)
    /\ \A x \in Range(n.socket) : x \in Range(n0.socket) \/ (x.s = s /\ x.m \in M)
    /\ \A r \in n.partial : r \in n0.partial \/ (r.s = s /\ r.m \in M)

\* A part of a message in the socket.
LEMMA SendvSends ==
  ASSUME NEW sock, IsSeq(sock), NEW s, NEW m, NEW left
  PROVE /\ IsSeq(Sendv(sock, s, m, left))
        /\ \A x \in Range(Sendv(sock, s, m, left)) : x \in Range(sock) \/ (x.s = s /\ x.m = m)
<1> DEFINE taken == Min({left, Room(sock)})
           item == [s |-> s, m |-> m, units |-> taken, last |-> taken = left]
           S == Range(sock) \cup {item}
<1>1. Sendv(sock, s, m, left) = Put(sock, s, item)
  BY DEF Sendv
<1>2. item.s = s /\ item.m = m
  OBVIOUS
<1> HIDE DEF item
<1>3. sock \in Seq(S) /\ item \in S
  <2>1. sock \in Seq(Range(sock)) /\ Range(sock) \subseteq S /\ item \in S
    BY DEF IsSeq
  <2> HIDE DEF S
  <2> QED
    BY <2>1
<1>4. Put(sock, s, item) \in Seq(S)
  <2> HIDE DEF S
  <2> QED
    BY <1>3, PutOf
<1>5. IsSeq(Put(sock, s, item)) /\ Range(Put(sock, s, item)) \subseteq S
  <2> HIDE DEF S
  <2> QED
    BY <1>4, SeqHolds
<1> QED
  BY <1>1, <1>2, <1>5

\* SendInternal puts nothing but its message and the rest of it on the stream.
LEMMA InternalSends ==
  ASSUME NEW n0, NEW n, NEW s, NEW M, Sends(n0, n, s, M), NEW m \in M
  PROVE Sends(n0, SendInternal(n, s, m), s, M)
<1> DEFINE left == m.size - Min({m.size, Room(n.socket)})
           r == SendInternal(n, s, m)
           rest == [s |-> s, m |-> m, left |-> left]
<1>1. r.socket = Sendv(n.socket, s, m, m.size) /\ r.partial \subseteq {rest}
  BY DEF SendInternal
<1>2. rest.s = s /\ rest.m = m
  OBVIOUS
<1> HIDE DEF r, rest
<1>3. /\ IsSeq(n.socket)
      /\ \A x \in Range(n.socket) : x \in Range(n0.socket) \/ (x.s = s /\ x.m \in M)
  BY DEF Sends
<1>4. /\ IsSeq(Sendv(n.socket, s, m, m.size))
      /\ \A x \in Range(Sendv(n.socket, s, m, m.size)) : x \in Range(n.socket) \/ (x.s = s /\ x.m = m)
  BY <1>3, SendvSends
<1>5. IsSeq(r.socket) /\ \A x \in Range(r.socket) : x \in Range(n.socket) \/ (x.s = s /\ x.m = m)
  BY <1>1, <1>4
<1>6. Sends(n0, r, s, M)
  BY <1>1, <1>2, <1>3, <1>5 DEF Sends
<1> QED
  BY <1>6 DEF r

\* Flush sends messages of its queue on its stream, and leaves messages of its queue.
LEMMA FlushSends ==
  ASSUME NEW n, IsSeq(n.socket), NEW p, NEW s, NEW M, NEW queue \in Seq(M)
  PROVE Flush(n, p, s, queue).left \in Seq(M) /\ Sends(n, Flush(n, p, s, queue).n, s, M)
<1> DEFINE base == [n |-> n, left |-> <<>>]
           S == 1..Len(queue)
           Good(acc) == /\ acc = [n |-> acc.n, left |-> acc.left]
                        /\ acc.left \in Seq(M) /\ Sends(n, acc.n, s, M)
<1>1. PICK it : IsFlush(it, p, s, base, queue, S) /\ Flush(n, p, s, queue) = it[S]
  BY FlushIs
<1>2. Good(base)
  <2>1. base.n = n /\ base.left = <<>>
    OBVIOUS
  <2>2. Sends(n, n, s, M)
    BY DEF Sends
  <2> QED
    BY <2>1, <2>2
<1>3. ASSUME NEW acc, Good(acc), NEW m \in M PROVE Good(FlushStep(p, s, acc, m))
  <2> DEFINE x == Append(acc.left, m)
             y == SendInternal(acc.n, s, m)
             r == FlushStep(p, s, acc, m)
  <2>1. x \in Seq(M) /\ Sends(n, y, s, M)
    BY <1>3, InternalSends
  <2>2. r = [acc EXCEPT !.left = x] \/ r = [acc EXCEPT !.n = y]
    BY DEF FlushStep
  <2> HIDE DEF x, y, r
  <2>3. r = [n |-> acc.n, left |-> x] \/ r = [n |-> y, left |-> acc.left]
    BY <1>3, <2>2
  <2>4. Good(r)
    BY <1>3, <2>1, <2>3
  <2> QED
    BY <2>4 DEF r
<1> DEFINE F == {t \in SUBSET S : ~Good(it[t])}
<1> HIDE DEF Good, base
<1>4. F = {}
  <2> SUFFICES ASSUME F # {} PROVE FALSE
    OBVIOUS
  <2>1. Places(S) /\ S = DOMAIN queue
    BY DEF Places
  <2>2. \A t \in SUBSET S : IsFiniteSet(t) /\ (t # {} => Max(t) \in t)
    <3> HIDE DEF S
    <3> QED
      BY <2>1, PlacesFinite
  <2>3. PICK t \in F : \A x \in t : t \ {x} \notin F
    <3>1. \A t \in F : IsFiniteSet(t)
      BY <2>2
    <3> HIDE DEF F
    <3> QED
      BY <3>1, LeastSet
  <2>4. t \in SUBSET S /\ ~Good(it[t])
    BY <2>3
  <2> HIDE DEF S
  <2>5. it[t] = IF t = {} THEN base ELSE FlushStep(p, s, it[t \ {Max(t)}], queue[Max(t)])
    BY <1>1, <2>4 DEF IsFlush
  <2>6. CASE t = {}
    BY <1>2, <2>4, <2>5, <2>6
  <2>7. CASE t # {}
    <3>1. Max(t) \in t /\ t \ {Max(t)} \in SUBSET S
      BY <2>2, <2>4, <2>7
    <3>2. Good(it[t \ {Max(t)}]) /\ queue[Max(t)] \in M
      BY <2>1, <2>3, <2>4, <3>1
    <3>3. Good(FlushStep(p, s, it[t \ {Max(t)}], queue[Max(t)]))
      BY <1>3, <3>2
    <3> QED
      BY <2>4, <2>5, <2>7, <3>3
  <2> QED
    BY <2>6, <2>7
<1>5. Good(it[S])
  BY <1>4
<1> QED
  BY <1>1, <1>5 DEF Good

\* A reset goes behind what the socket holds.
LEMMA ResetSends ==
  ASSUME NEW n, n = [socket |-> n.socket, partial |-> n.partial, used |-> n.used], IsSeq(n.socket), NEW p, NEW s
  PROVE LET r == ResetStream(n, p, s)
        IN  r.partial = n.partial /\ IsSeq(r.socket) /\ \A x \in Range(r.socket) : x \in Range(n.socket) \/ x.s = s
<1> DEFINE item == [s |-> s, m |-> CloseMessage, units |-> 0, last |-> TRUE]
           sock == Append(n.socket, item)
           r == ResetStream(n, p, s)
<1>1. item.s = s
  OBVIOUS
<1>2. r.partial = n.partial /\ (r.socket = n.socket \/ r.socket = sock)
  BY DEF ResetStream
<1> HIDE DEF item, r
<1>3. IsSeq(sock) /\ Range(sock) \subseteq Range(n.socket) \cup {item}
  BY SeqChanges
<1> HIDE DEF sock
<1>4. r.partial = n.partial /\ IsSeq(r.socket) /\ \A x \in Range(r.socket) : x \in Range(n.socket) \/ x.s = s
  BY <1>1, <1>2, <1>3
<1> QED
  BY <1>4 DEF r

-----------------------------------------------------------------------------
(* Messages without a channel *)

\* The peer that adds stream s.
Owner(s) == IF s % 2 = 0 THEN "a" ELSE "b"

IsFn(f) == f = [p \in Peers |-> f[p]]

\* The members are sequences and functions, and the closures are about streams; a stream is
\* added by its owner.
Shaped ==
    /\ Channels(channel)
    /\ IsFn(signaling) /\ IsFn(state) /\ IsFn(data_channels) /\ IsFn(released) /\ IsFn(app_closed)
    /\ IsFn(close_posted) /\ IsFn(socket) /\ IsFn(partial)
    /\ \A p \in Peers : IsSeq(signaling[p]) /\ IsSeq(socket[p])
    /\ \A p \in Peers, s \in Streams : IsSeq(channel[p][s].tasks) /\ IsSeq(channel[p][s].pending)
    /\ \A p \in Peers : \A e \in Range(signaling[p]) :
         /\ e.kind \in {"add", "message"} => e.s \in Streams
         /\ e.kind = "add" => Owner(e.s) = p

\* What a step does to the signaling queue of r: a closure is posted, or the first one runs.
NewEntry(r, e) ==
    /\ e.kind = "message" => /\ e.s \in Streams /\ state[r] = "connected"
                             /\ \E x \in Range(socket[Other(r)]) : x.s = e.s /\ x.m = e.m
    /\ e.kind = "add" => e.s \in Streams /\ Owner(e.s) = r
    /\ e.kind = "disconnected" => state[r] = "connected" /\ state'[r] = "disconnected"
SignalingStep(r) ==
    \/ signaling'[r] = signaling[r]
    \/ signaling[r] # <<>> /\ signaling'[r] = Tail(signaling[r])
    \/ \E e : signaling'[r] = Append(signaling[r], e) /\ NewEntry(r, e)

\* to its state,
StateStep(r) ==
    \/ state'[r] = state[r]
    \/ /\ state[r] # "disconnected"
       /\ state'[r] = "disconnected" => signaling'[r] = Append(signaling[r], [kind |-> "disconnected"])

\* The first closure of r is a message for stream s.
MessageFor(r, s) == signaling[r] # <<>> /\ Head(signaling[r]).kind = "message" /\ Head(signaling[r]).s = s

\* to data_channels_,
ChannelsStep(r) ==
    \/ data_channels'[r] = data_channels[r]
    \/ /\ signaling[r] # <<>> /\ signaling'[r] = Tail(signaling[r])
       /\ LET e == Head(signaling[r])
          IN  \/ e.kind = "add" /\ data_channels'[r] = data_channels[r] \cup {e.s}
              \/ /\ e.kind = "message" /\ e.m = Open /\ Owner(e.s) = Other(r)
                 /\ data_channels'[r] = data_channels[r] \cup {e.s}
              \/ e.kind = "disconnected" /\ data_channels'[r] = {}

\* to the streams it is about to reset,
PostedStep(r) ==
    \A s \in close_posted'[r] :
       \/ s \in close_posted[r]
       \/ /\ MessageFor(r, s) /\ s \notin Alive(r) /\ s \in Streams
          /\ ~(Head(signaling[r]).m = Open /\ Owner(s) = Other(r))

\* to the channels the application has closed or dropped.
DroppedStep(r) ==
    /\ \A s \in app_closed'[r] : s \in app_closed[r] \/ (s \in Streams /\ channel[r][s].is_opened = TRUE)
    /\ \A s \in released'[r] :
         s \in released[r] \/ (s \in Streams /\ channel[r][s].is_opened = TRUE)
    /\ released[r] \subseteq released'[r]

\* There are two peers.
LEMMA OtherPeer ==
  ASSUME NEW p \in Peers
  PROVE Other(p) \in Peers /\ Other(p) # p /\ Other(Other(p)) = p /\ \A q \in Peers : q = p \/ q = Other(p)
  BY DEF Peers, Other

\* The owner is the peer whose role gives the stream its parity.
LEMMA OwnerIs ==
  ASSUME NEW p \in Peers, NEW s \in Streams
  PROVE /\ s % 2 = Parity(p) <=> Owner(s) = p
        /\ s % 2 = Parity(Other(p)) <=> Owner(s) = Other(p)
        /\ Owner(s) \in Peers
<1>1. s \in Nat
  BY ChannelConstants
<1>2. s % 2 \in {0, 1}
  BY <1>1
<1> QED
  BY <1>2 DEF Owner, Parity, Other, Peers

\* The steps of peer p.
Acts(p) ==
    \/ AssocChange(p, "connecting", "connected") \/ AssocChange(p, "connected", "disconnected")
    \/ HandleWrite(p) \/ RunCloseStream(p)
    \/ RunAdd(p) \/ RunConnected(p) \/ RunDisconnected(p) \/ RunMessage(p)
    \/ \E s \in Streams :
          \/ AddDataChannel(p, s) \/ HandleRead(p, s)
          \/ RunOpen(p, s) \/ RunSend(p, s) \/ RunClose(p, s)
          \/ RunIncomingOpen(p, s) \/ RunIncomingAck(p, s) \/ RunIncomingClose(p, s) \/ RunIncomingUser(p, s)
          \/ AppSend(p, s) \/ AppClose(p, s) \/ AppRelease(p, s) \/ DestroyMembers(p, s)

\* Every step is one of a peer.
LEMMA ActsAre == Next => \E p \in Peers : Acts(p)
  BY DEF Next, Acts

\* The signaling queues.
LEMMA SignalingSteps ==
  ASSUME Shaped, Next
  PROVE /\ IsFn(signaling') /\ IsFn(state')
        /\ \A r \in Peers : SignalingStep(r) /\ StateStep(r)
<1>1. IsFn(signaling) /\ IsFn(state)
  BY DEF Shaped
<1>2. ASSUME NEW p \in Peers, NEW from, NEW to, AssocChange(p, from, to), from # "disconnected",
             to = "disconnected" => from = "connected", to \in {"connected", "disconnected"}
      PROVE IsFn(signaling') /\ IsFn(state') /\ \A r \in Peers : SignalingStep(r) /\ StateStep(r)
  <2> DEFINE e == [kind |-> to]
  <2>1. /\ state[p] = from /\ state' = [state EXCEPT ![p] = to]
        /\ signaling' = [signaling EXCEPT ![p] = Append(signaling[p], e)]
    BY <1>2 DEF AssocChange
  <2>2. /\ IsFn(signaling') /\ signaling'[p] = Append(signaling[p], e)
        /\ IsFn(state') /\ state'[p] = to
        /\ \A r \in Peers : r # p => signaling'[r] = signaling[r] /\ state'[r] = state[r]
    BY <1>1, <2>1 DEF IsFn
  <2>3. NewEntry(p, e)
    BY <1>2, <2>1, <2>2 DEF NewEntry
  <2>4. SignalingStep(p)
    BY <2>2, <2>3 DEF SignalingStep
  <2>5. StateStep(p)
    BY <1>2, <2>1, <2>2 DEF StateStep
  <2>6. \A r \in Peers : r # p => SignalingStep(r) /\ StateStep(r)
    BY <2>2 DEF SignalingStep, StateStep
  <2> QED
    BY <2>2, <2>4, <2>5, <2>6
<1>3. ASSUME NEW p \in Peers, NEW kind, Turn(p, kind), state' = state
      PROVE IsFn(signaling') /\ IsFn(state') /\ \A r \in Peers : SignalingStep(r) /\ StateStep(r)
  <2>1. signaling[p] # <<>> /\ signaling' = [signaling EXCEPT ![p] = Tail(signaling[p])]
    BY <1>3 DEF Turn
  <2>2. /\ IsFn(signaling') /\ signaling'[p] = Tail(signaling[p])
        /\ \A r \in Peers : r # p => signaling'[r] = signaling[r]
    BY <1>1, <2>1 DEF IsFn
  <2> QED
    BY <1>1, <1>3, <2>1, <2>2 DEF SignalingStep, StateStep
<1>4. ASSUME NEW p \in Peers, NEW e, signaling' = [signaling EXCEPT ![p] = Append(signaling[p], e)], NewEntry(p, e),
             state' = state
      PROVE IsFn(signaling') /\ IsFn(state') /\ \A r \in Peers : SignalingStep(r) /\ StateStep(r)
  <2>1. /\ IsFn(signaling') /\ signaling'[p] = Append(signaling[p], e)
        /\ \A r \in Peers : r # p => signaling'[r] = signaling[r]
    BY <1>1, <1>4 DEF IsFn
  <2> QED
    BY <1>1, <1>4, <2>1 DEF SignalingStep, StateStep
<1>5. ASSUME NEW p \in Peers, NEW s \in Streams, AddDataChannel(p, s)
      PROVE IsFn(signaling') /\ IsFn(state') /\ \A r \in Peers : SignalingStep(r) /\ StateStep(r)
  <2> DEFINE e == [kind |-> "add", s |-> s]
  <2>1. signaling' = [signaling EXCEPT ![p] = Append(signaling[p], e)] /\ state' = state /\ s % 2 = Parity(p)
    BY <1>5 DEF AddDataChannel, sctp
  <2>2. NewEntry(p, e)
    BY <2>1, OwnerIs DEF NewEntry
  <2> QED
    BY <1>4, <2>1, <2>2
<1>6. ASSUME NEW p \in Peers, NEW s \in Streams, HandleRead(p, s)
      PROVE IsFn(signaling') /\ IsFn(state') /\ \A r \in Peers : SignalingStep(r) /\ StateStep(r)
  <2>1. state' = state /\ state[p] = "connected"
    BY <1>6 DEF HandleRead
  <2>2. PICK i \in Deliverable(p, s) :
          signaling' = IF socket[Other(p)][i].last
                       THEN [signaling EXCEPT ![p] = Append(signaling[p], [kind |-> "message", s |-> s, m |-> socket[Other(p)][i].m])]
                       ELSE signaling
    BY <1>6 DEF HandleRead
  <2>3. i \in DOMAIN socket[Other(p)] /\ socket[Other(p)][i].s = s
    BY DEF Deliverable
  <2> DEFINE e == [kind |-> "message", s |-> s, m |-> socket[Other(p)][i].m]
  <2>4. NewEntry(p, e)
    BY <2>1, <2>3 DEF NewEntry, Range
  <2>5. CASE signaling' = signaling
    BY <1>1, <2>1, <2>5 DEF SignalingStep, StateStep
  <2>6. CASE signaling' = [signaling EXCEPT ![p] = Append(signaling[p], e)]
    BY <1>4, <2>1, <2>4, <2>6
  <2> QED
    BY <2>2, <2>5, <2>6
<1>7. ASSUME UNCHANGED <<signaling, state>>
      PROVE IsFn(signaling') /\ IsFn(state') /\ \A r \in Peers : SignalingStep(r) /\ StateStep(r)
  BY <1>1, <1>7 DEF SignalingStep, StateStep
<1>8. PICK p \in Peers : Acts(p)
  BY ActsAre
<1>12. CASE \/ HandleWrite(p) \/ RunCloseStream(p)
            \/ \E s \in Streams :
                  \/ RunOpen(p, s) \/ RunSend(p, s) \/ RunClose(p, s)
                  \/ RunIncomingOpen(p, s) \/ RunIncomingAck(p, s) \/ RunIncomingClose(p, s) \/ RunIncomingUser(p, s)
                  \/ AppSend(p, s) \/ AppClose(p, s) \/ AppRelease(p, s) \/ DestroyMembers(p, s)
  BY <1>7, <1>12 DEF HandleWrite, RunCloseStream, RunOpen, RunSend, RunClose, RunIncomingOpen, RunIncomingAck, RunIncomingClose,
         RunIncomingUser, AppSend, AppClose, AppRelease, DestroyMembers, sctp
<1>9. CASE RunAdd(p) \/ RunConnected(p) \/ RunDisconnected(p) \/ RunMessage(p)
  <2>1. state' = state /\ \E kind : Turn(p, kind)
    BY <1>9 DEF RunAdd, RunConnected, RunDisconnected, RunMessage, sctp
  <2> QED
    BY <1>3, <2>1
<1>10. CASE AssocChange(p, "connecting", "connected")
  BY <1>2, <1>10
<1>11. CASE AssocChange(p, "connected", "disconnected")
  BY <1>2, <1>11
<1> QED
  BY <1>5, <1>6, <1>8, <1>9, <1>10, <1>11, <1>12 DEF Acts

\* data_channels_ and the streams about to be reset.
LEMMA ChannelsSteps ==
  ASSUME Shaped, Next
  PROVE /\ IsFn(data_channels') /\ IsFn(close_posted')
        /\ \A r \in Peers : ChannelsStep(r) /\ PostedStep(r)
<1> DEFINE Goal == /\ IsFn(data_channels') /\ IsFn(close_posted')
                   /\ \A r \in Peers : ChannelsStep(r) /\ PostedStep(r)
<1>1. IsFn(data_channels) /\ IsFn(close_posted) /\ IsFn(signaling)
  BY DEF Shaped
<1>2. PICK p \in Peers : Acts(p)
  BY ActsAre
<1>3. ASSUME UNCHANGED <<data_channels, close_posted>> PROVE Goal
  BY <1>1, <1>3 DEF ChannelsStep, PostedStep
<1>4. ASSUME data_channels' = data_channels, NEW s, close_posted' = [close_posted EXCEPT ![p] = @ \ {s}] PROVE Goal
  <2>1. IsFn(close_posted') /\ \A r \in Peers : close_posted'[r] \subseteq close_posted[r]
    BY <1>1, <1>4 DEF IsFn
  <2> QED
    BY <1>1, <1>4, <2>1 DEF ChannelsStep, PostedStep
<1>5. ASSUME NEW kind, Turn(p, kind)
      PROVE signaling[p] # <<>> /\ signaling'[p] = Tail(signaling[p]) /\ Head(signaling[p]).kind = kind
  BY <1>1, <1>5 DEF Turn, IsFn
<1>6. ASSUME NEW D, data_channels' = [data_channels EXCEPT ![p] = D]
      PROVE IsFn(data_channels') /\ data_channels'[p] = D /\ \A r \in Peers : r # p => data_channels'[r] = data_channels[r]
  BY <1>1, <1>6 DEF IsFn
<1>7. CASE RunAdd(p)
  <2> DEFINE D == data_channels[p] \cup {Head(signaling[p]).s}
  <2>1. Turn(p, "add") /\ data_channels' = [data_channels EXCEPT ![p] = D] /\ close_posted' = close_posted
    BY <1>7 DEF RunAdd, sctp
  <2>2. /\ IsFn(data_channels') /\ data_channels'[p] = D
        /\ \A r \in Peers : r # p => data_channels'[r] = data_channels[r]
    BY <1>6, <2>1
  <2>3. ChannelsStep(p)
    BY <1>5, <2>1, <2>2 DEF ChannelsStep
  <2> QED
    BY <1>1, <2>1, <2>2, <2>3 DEF ChannelsStep, PostedStep
<1>8. CASE RunDisconnected(p)
  <2>1. Turn(p, "disconnected") /\ data_channels' = [data_channels EXCEPT ![p] = {}] /\ close_posted' = close_posted
    BY <1>8 DEF RunDisconnected, sctp
  <2>2. /\ IsFn(data_channels') /\ data_channels'[p] = {}
        /\ \A r \in Peers : r # p => data_channels'[r] = data_channels[r]
    BY <1>6, <2>1
  <2>3. ChannelsStep(p)
    BY <1>5, <2>1, <2>2 DEF ChannelsStep
  <2> QED
    BY <1>1, <2>1, <2>2, <2>3 DEF ChannelsStep, PostedStep
<1>9. CASE RunMessage(p)
  <2> DEFINE s == Head(signaling[p]).s
             m == Head(signaling[p]).m
             remote == m = Open /\ s % 2 = Parity(Other(p))
             D == data_channels[p] \cup {s}
             C == close_posted[p] \cup {s}
  <2>1. /\ Turn(p, "message")
        /\ \/ UNCHANGED <<data_channels, close_posted>>
           \/ remote /\ data_channels' = [data_channels EXCEPT ![p] = D] /\ close_posted' = close_posted
           \/ /\ ~remote /\ s \notin Alive(p)
              /\ close_posted' = [close_posted EXCEPT ![p] = C] /\ data_channels' = data_channels
    BY <1>9 DEF RunMessage
  <2>2. signaling[p] # <<>> /\ signaling'[p] = Tail(signaling[p]) /\ Head(signaling[p]).kind = "message"
    BY <1>5, <2>1
  <2>3. IsSeq(signaling[p])
    BY DEF Shaped
  <2>4. Head(signaling[p]) \in Range(signaling[p])
    BY <2>2, <2>3, SeqChanges
  <2>5. s \in Streams
    BY <2>2, <2>4 DEF Shaped
  <2>6. remote <=> m = Open /\ Owner(s) = Other(p)
    BY <2>5, OwnerIs
  <2>7. CASE remote /\ data_channels' = [data_channels EXCEPT ![p] = D] /\ close_posted' = close_posted
    <3>1. /\ IsFn(data_channels') /\ data_channels'[p] = D
          /\ \A r \in Peers : r # p => data_channels'[r] = data_channels[r]
      BY <1>6, <2>7
    <3>2. ChannelsStep(p)
      BY <2>2, <2>6, <2>7, <3>1 DEF ChannelsStep
    <3> QED
      BY <1>1, <2>7, <3>1, <3>2 DEF ChannelsStep, PostedStep
  <2>8. CASE /\ ~remote /\ s \notin Alive(p)
             /\ close_posted' = [close_posted EXCEPT ![p] = C] /\ data_channels' = data_channels
    <3>1. /\ IsFn(close_posted') /\ close_posted'[p] = C
          /\ \A r \in Peers : r # p => close_posted'[r] = close_posted[r]
      BY <1>1, <2>8 DEF IsFn
    <3>2. MessageFor(p, s)
      BY <2>2 DEF MessageFor
    <3>3. PostedStep(p)
      BY <2>5, <2>6, <2>8, <3>1, <3>2 DEF PostedStep
    <3> QED
      BY <1>1, <2>8, <3>1, <3>3 DEF ChannelsStep, PostedStep
  <2> QED
    BY <1>3, <2>1, <2>7, <2>8
<1>10. CASE RunCloseStream(p)
  <2>1. data_channels' = data_channels /\ \E s : close_posted' = [close_posted EXCEPT ![p] = @ \ {s}]
    BY <1>10 DEF RunCloseStream
  <2> QED
    BY <1>4, <2>1
<1>11. CASE \/ AssocChange(p, "connecting", "connected") \/ AssocChange(p, "connected", "disconnected")
            \/ HandleWrite(p) \/ RunConnected(p)
  <2>1. UNCHANGED <<data_channels, close_posted>>
    BY <1>11 DEF AssocChange, HandleWrite, RunConnected, sctp
  <2> QED
    BY <1>3, <2>1
<1>12. CASE \E s \in Streams :
                  \/ AddDataChannel(p, s) \/ HandleRead(p, s)
                  \/ RunOpen(p, s) \/ RunSend(p, s) \/ RunClose(p, s)
                  \/ RunIncomingOpen(p, s) \/ RunIncomingAck(p, s) \/ RunIncomingClose(p, s) \/ RunIncomingUser(p, s)
                  \/ AppSend(p, s) \/ AppClose(p, s) \/ AppRelease(p, s) \/ DestroyMembers(p, s)
  <2>1. UNCHANGED <<data_channels, close_posted>>
    BY <1>12 DEF AddDataChannel, HandleRead, RunOpen, RunSend, RunClose, RunIncomingOpen, RunIncomingAck, RunIncomingClose,
         RunIncomingUser, AppSend, AppClose, AppRelease, DestroyMembers, sctp
  <2> QED
    BY <1>3, <2>1
<1> QED
  BY <1>2, <1>7, <1>8, <1>9, <1>10, <1>11, <1>12 DEF Acts

\* The channels the application has closed or dropped.
LEMMA DroppedSteps ==
  ASSUME Shaped, Next
  PROVE IsFn(app_closed') /\ IsFn(released') /\ \A r \in Peers : DroppedStep(r)
<1>1. IsFn(app_closed) /\ IsFn(released)
  BY DEF Shaped
<1>2. PICK p \in Peers : Acts(p)
  BY ActsAre
<1>3. ASSUME UNCHANGED <<app_closed, released>> PROVE IsFn(app_closed') /\ IsFn(released') /\ \A r \in Peers : DroppedStep(r)
  BY <1>1, <1>3 DEF DroppedStep
<1>4. ASSUME NEW s \in Streams, AppClose(p, s) \/ AppRelease(p, s)
      PROVE IsFn(app_closed') /\ IsFn(released') /\ \A r \in Peers : DroppedStep(r)
  <2>1. /\ app_closed' = [app_closed EXCEPT ![p] = @ \cup {s}]
        /\ released' = released \/ released' = [released EXCEPT ![p] = @ \cup {s}]
    BY <1>4 DEF AppClose, AppRelease
  <2>2. channel[p][s].is_opened
    BY <1>4 DEF AppClose, AppRelease
  <2>3. channel[p][s].is_opened = TRUE
    BY <2>2 DEF Shaped, Channels, IsChannel
  <2>4. /\ IsFn(app_closed') /\ app_closed'[p] = app_closed[p] \cup {s}
        /\ \A r \in Peers : r # p => app_closed'[r] = app_closed[r]
    BY <1>1, <2>1 DEF IsFn
  <2>5. /\ IsFn(released') /\ \A r \in Peers : r # p => released'[r] = released[r]
        /\ released'[p] = released[p] \/ released'[p] = released[p] \cup {s}
    BY <1>1, <2>1 DEF IsFn
  <2>6. DroppedStep(p)
    BY <2>3, <2>4, <2>5 DEF DroppedStep
  <2>7. \A r \in Peers : r # p => DroppedStep(r)
    BY <2>4, <2>5 DEF DroppedStep
  <2> QED
    BY <2>4, <2>5, <2>6, <2>7
<1>5. CASE \/ AssocChange(p, "connecting", "connected") \/ AssocChange(p, "connected", "disconnected")
           \/ HandleWrite(p) \/ RunCloseStream(p)
           \/ RunAdd(p) \/ RunConnected(p) \/ RunDisconnected(p) \/ RunMessage(p)
  <2>1. UNCHANGED <<app_closed, released>>
    BY <1>5 DEF AssocChange, HandleWrite, RunCloseStream, RunAdd, RunConnected, RunDisconnected, RunMessage, history
  <2> QED
    BY <1>3, <2>1
<1>6. CASE \E s \in Streams :
             \/ AddDataChannel(p, s) \/ HandleRead(p, s)
             \/ RunOpen(p, s) \/ RunSend(p, s) \/ RunClose(p, s)
             \/ RunIncomingOpen(p, s) \/ RunIncomingAck(p, s) \/ RunIncomingClose(p, s) \/ RunIncomingUser(p, s)
             \/ AppSend(p, s) \/ DestroyMembers(p, s)
  <2>1. UNCHANGED <<app_closed, released>>
    BY <1>6 DEF AddDataChannel, HandleRead, RunOpen, RunSend, RunClose, RunIncomingOpen, RunIncomingAck, RunIncomingClose,
         RunIncomingUser, AppSend, DestroyMembers, history
  <2> QED
    BY <1>3, <2>1
<1> QED
  BY <1>2, <1>4, <1>5, <1>6 DEF Acts

\* What a step does to channel s of r, of which nothing is said once it was open, was dropped,
\* or takes a message: a task is posted, or a task runs that may send OPEN.
HeadIs(c, K) == c.tasks # <<>> /\ Head(c.tasks).kind \in K
ChannelStep(r, s) ==
    LET c == channel[r][s]
        d == channel'[r][s]
        known == s \in data_channels[r] \/ s \in data_channels'[r]
    IN  /\ IsSeq(d.tasks) /\ IsSeq(d.pending)
        /\ \/ d = c
           \/ c.is_opened = TRUE \/ s \in released[r] \/ (c.tasks # <<>> /\ ~HeadIs(c, {"open", "close"}))
           \/ MessageFor(r, s) /\ known
           \/ /\ known /\ d.is_opened = c.is_opened /\ d.pending = c.pending
              /\ \E t : d.tasks = Append(c.tasks, t) /\ t.kind \in {"open", "close"}
           \/ /\ c.tasks # <<>> /\ d.is_opened = c.is_opened /\ d.tasks = Tail(c.tasks)
              /\ Range(d.pending) \subseteq Range(c.pending) \cup {Open}

\* What is new in the socket of r and in its partial message.
Fresh(r, s, m) ==
    \/ \E rest \in partial[r] : rest.s = s /\ rest.m = m
    \/ s \in close_posted[r]
    \/ /\ s \in Streams /\ channel[r][s].tasks # <<>>
       /\ \/ HeadIs(channel[r][s], {"open"}) /\ m \in Range(channel[r][s].pending) \cup {Open}
          \/ channel[r][s].is_opened = TRUE
          \/ ~HeadIs(channel[r][s], {"open", "close"})
SocketStep(r) ==
    /\ IsSeq(socket'[r])
    /\ \A x \in Range(socket'[r]) : x \in Range(socket[r]) \/ Fresh(r, x.s, x.m)
    /\ \A x \in partial'[r] : x \in partial[r] \/ Fresh(r, x.s, x.m)

\* A field of a channel is replaced, the others keep their values.
LEMMA FieldValue ==
  ASSUME NEW c, IsChannel(c), NEW f \in Fields, NEW x
  PROVE /\ [c EXCEPT ![f] = x][f] = x
        /\ \A g \in Fields : g # f => [c EXCEPT ![f] = x][g] = c[g]
<1>1. c = [g \in Fields |-> c[g]]
  BY DEF IsChannel
<1> QED
  BY <1>1

\* The queue of tasks is replaced.
LEMMA TasksValue ==
  ASSUME NEW c, IsChannel(c), NEW x, NEW d, d = [c EXCEPT !.tasks = x]
  PROVE IsChannel(d) /\ d.tasks = x /\ d.pending = c.pending /\ d.is_opened = c.is_opened
<1>1. IsChannel(d)
  BY FieldSteps
<1>2. d.tasks = x /\ d.pending = c.pending /\ d.is_opened = c.is_opened
  BY FieldValue DEF Fields
<1> QED
  BY <1>1, <1>2

\* The queue of unsent messages is replaced.
LEMMA PendingValue ==
  ASSUME NEW c, IsChannel(c), NEW x, NEW d, d = [c EXCEPT !.pending = x]
  PROVE IsChannel(d) /\ d.tasks = c.tasks /\ d.pending = x /\ d.is_opened = c.is_opened
<1>1. IsChannel(d)
  BY FieldSteps
<1>2. d.tasks = c.tasks /\ d.pending = x /\ d.is_opened = c.is_opened
  BY FieldValue DEF Fields
<1> QED
  BY <1>1, <1>2

\* The transport is set or reset.
LEMMA TransportValue ==
  ASSUME NEW c, IsChannel(c), NEW x, NEW d, d = [c EXCEPT !.transport = x]
  PROVE IsChannel(d) /\ d.tasks = c.tasks /\ d.pending = c.pending /\ d.is_opened = c.is_opened
<1>1. IsChannel(d)
  BY FieldSteps
<1>2. d.tasks = c.tasks /\ d.pending = c.pending /\ d.is_opened = c.is_opened
  BY FieldValue DEF Fields
<1> QED
  BY <1>1, <1>2

\* The channel opens or closes.
LEMMA OpenedValue ==
  ASSUME NEW c, IsChannel(c), NEW x, NEW d, d = [c EXCEPT !.is_opened = x]
  PROVE d.tasks = c.tasks /\ d.pending = c.pending
  BY FieldValue DEF Fields

\* Only channel s of p changes.
LEMMA OneStep ==
  ASSUME Shaped, NEW p \in Peers, NEW s \in Streams, NEW d, IsChannel(d), Assigned(p, s, d),
         channel'[p][s] = d => ChannelStep(p, s)
  PROVE Channels(channel') /\ \A r \in Peers, t \in Streams : ChannelStep(r, t)
<1>1. Channels(channel)
  BY DEF Shaped
<1>2. /\ Channels(channel')
      /\ \A q \in Peers, t \in Streams : channel'[q][t] = IF q = p /\ t = s THEN d ELSE channel[q][t]
  BY <1>1, OneChanges DEF OneChanged
<1>3. ASSUME NEW r \in Peers, NEW t \in Streams, ~(r = p /\ t = s) PROVE ChannelStep(r, t)
  <2>1. channel'[r][t] = channel[r][t] /\ IsSeq(channel[r][t].tasks) /\ IsSeq(channel[r][t].pending)
    BY <1>2, <1>3 DEF Shaped
  <2> QED
    BY <2>1 DEF ChannelStep
<1>4. ChannelStep(p, s)
  BY <1>2
<1> QED
  BY <1>2, <1>3, <1>4

\* A task posted to the channels S of p.
LEMMA PostStep ==
  ASSUME Shaped, NEW p \in Peers, NEW S, NEW task, PostTo(p, S, task),
         \A s \in S \cap Streams :
            \/ channel[p][s].is_opened = TRUE
            \/ /\ s \in data_channels[p] \/ s \in data_channels'[p]
               /\ MessageFor(p, s) \/ task.kind \in {"open", "close"}
  PROVE Channels(channel') /\ \A r \in Peers, t \in Streams : ChannelStep(r, t)
<1>1. Channels(channel)
  BY DEF Shaped
<1>2. /\ Channels(channel')
      /\ \A q \in Peers, t \in Streams :
           channel'[q][t] = IF q = p /\ t \in S THEN Posted(channel[q][t], task) ELSE channel[q][t]
  BY <1>1, PostChanges
<1>3. ASSUME NEW r \in Peers, NEW t \in Streams PROVE ChannelStep(r, t)
  <2> DEFINE c == channel[r][t]
             d == channel'[r][t]
             x == Append(c.tasks, task)
  <2>1. IsChannel(c) /\ IsSeq(c.tasks) /\ IsSeq(c.pending)
    BY <1>1 DEF Shaped, Channels
  <2>2. IsSeq(x)
    BY <2>1, SeqChanges
  <2>3. CASE r = p /\ t \in S
    <3>1. d = [c EXCEPT !.tasks = x]
      BY <1>2, <2>3 DEF Posted
    <3>2. d.tasks = x /\ d.pending = c.pending /\ d.is_opened = c.is_opened
      <4> HIDE DEF c, x
      <4> QED
        BY <2>1, <3>1, TasksValue
    <3>3. IsSeq(d.tasks) /\ IsSeq(d.pending)
      BY <2>1, <2>2, <3>2
    <3>4. \/ c.is_opened = TRUE
          \/ /\ t \in data_channels[r] \/ t \in data_channels'[r]
             /\ MessageFor(r, t) \/ task.kind \in {"open", "close"}
      BY <2>3
    <3> QED
      BY <3>2, <3>3, <3>4 DEF ChannelStep
  <2>4. CASE ~(r = p /\ t \in S)
    <3>1. d = c
      BY <1>2, <2>4
    <3> QED
      BY <2>1, <3>1 DEF ChannelStep
  <2> QED
    BY <2>3, <2>4
<1> QED
  BY <1>2, <1>3

\* Sending: the channel keeps the messages not taken, the others go out on its stream.
LEMMA SendingStep ==
  ASSUME Shaped, NEW p \in Peers, NEW s \in Streams, NEW c, IsChannel(c), IsSeq(c.pending), NEW m, Sending(c, p, s, m)
  PROVE LET M == Range(c.pending) \cup {m}
        IN  /\ \E d : /\ IsChannel(d) /\ d.is_opened = c.is_opened /\ d.tasks = c.tasks
                      /\ IsSeq(d.pending) /\ Range(d.pending) \subseteq M /\ Assigned(p, s, d)
            /\ IsFn(socket') /\ IsFn(partial') /\ IsSeq(socket'[p])
            /\ \A x \in Range(socket'[p]) : x \in Range(socket[p]) \/ (x.s = s /\ x.m \in M)
            /\ \A x \in partial'[p] : x \in partial[p] \/ (x.s = s /\ x.m \in M)
            /\ \A r \in Peers : r # p => socket'[r] = socket[r] /\ partial'[r] = partial[r]
<1> DEFINE M == Range(c.pending) \cup {m}
           n == Network(p)
           queue == Append(c.pending, m)
           sent == Send(c, p, s, m)
           x == IF c.transport THEN sent.left ELSE queue
           d == [c EXCEPT !.pending = x]
<1>1. queue \in Seq(M) /\ <<>> \in Seq(M)
  <2>1. c.pending \in Seq(Range(c.pending)) /\ Range(c.pending) \subseteq M /\ m \in M
    BY DEF IsSeq
  <2> HIDE DEF M
  <2> QED
    BY <2>1
<1>2. /\ n.socket = socket[p] /\ n.partial = partial[p] /\ IsSeq(n.socket)
      /\ IsFn(socket) /\ IsFn(partial)
  BY DEF Network, Shaped
<1>3. sent.left \in Seq(M) /\ Sends(n, sent.n, s, M)
  <2> DEFINE q == IF c.transport THEN queue ELSE <<>>
  <2>1. q \in Seq(M)
    BY <1>1
  <2>2. sent = Flush(n, p, s, q)
    BY DEF Send
  <2> HIDE DEF q, M, n, sent
  <2> QED
    BY <1>2, <2>1, <2>2, FlushSends
<1>4. /\ SetNetwork(p, sent.n) /\ Assigned(p, s, d)
  BY DEF Sending, Assigned
<1>5. x \in Seq(M)
  BY <1>1, <1>3
<1> HIDE DEF x, sent, n, queue
<1>6. /\ IsFn(socket') /\ IsFn(partial') /\ socket'[p] = sent.n.socket /\ partial'[p] = sent.n.partial
      /\ \A r \in Peers : r # p => socket'[r] = socket[r] /\ partial'[r] = partial[r]
  BY <1>2, <1>4 DEF SetNetwork, IsFn
<1>7. IsSeq(x) /\ Range(x) \subseteq M
  <2> HIDE DEF M
  <2> QED
    BY <1>5, SeqHolds
<1>8. IsChannel(d) /\ d.is_opened = c.is_opened /\ d.tasks = c.tasks /\ d.pending = x
  BY PendingValue
<1> HIDE DEF d, M
<1>9. /\ IsSeq(socket'[p])
      /\ \A y \in Range(socket'[p]) : y \in Range(socket[p]) \/ (y.s = s /\ y.m \in M)
      /\ \A y \in partial'[p] : y \in partial[p] \/ (y.s = s /\ y.m \in M)
  BY <1>2, <1>3, <1>6 DEF Sends
<1>10. \E e : /\ IsChannel(e) /\ e.is_opened = c.is_opened /\ e.tasks = c.tasks
              /\ IsSeq(e.pending) /\ Range(e.pending) \subseteq M /\ Assigned(p, s, e)
  BY <1>4, <1>7, <1>8
<1> QED
  BY <1>6, <1>9, <1>10 DEF M

\* Nothing happens to the channels, or to the sockets.
LEMMA SameChannels ==
  ASSUME Shaped, channel' = channel
  PROVE Channels(channel') /\ \A r \in Peers, t \in Streams : ChannelStep(r, t)
<1>1. ASSUME NEW r \in Peers, NEW t \in Streams PROVE ChannelStep(r, t)
  <2>1. channel'[r][t] = channel[r][t] /\ IsSeq(channel[r][t].tasks) /\ IsSeq(channel[r][t].pending)
    BY DEF Shaped
  <2> QED
    BY <2>1 DEF ChannelStep
<1>2. Channels(channel)
  BY DEF Shaped
<1> QED
  BY <1>1, <1>2

\* What a step does to all sockets.
Sockets == IsFn(socket') /\ IsFn(partial') /\ \A r \in Peers : SocketStep(r)

\* A step that leaves the sockets alone.
LEMMA SameSockets ==
  ASSUME Shaped, UNCHANGED <<socket, partial>>
  PROVE Sockets
  BY DEF Shaped, SocketStep, Sockets

\* The socket and the partial message of p change.
LEMMA OneSocket ==
  ASSUME Shaped, NEW p \in Peers, IsFn(socket'), IsFn(partial'), IsSeq(socket'[p]),
         \A x \in Range(socket'[p]) : x \in Range(socket[p]) \/ Fresh(p, x.s, x.m),
         \A x \in partial'[p] : x \in partial[p] \/ Fresh(p, x.s, x.m),
         \A r \in Peers : r # p => socket'[r] = socket[r] /\ partial'[r] = partial[r]
  PROVE Sockets
<1>1. SocketStep(p)
  BY DEF SocketStep
<1>2. \A r \in Peers : r # p => SocketStep(r)
  BY DEF SocketStep, Shaped
<1> QED
  BY <1>1, <1>2 DEF Sockets

\* The network side of p becomes n.
LEMMA NetworkSet ==
  ASSUME Shaped, NEW p \in Peers, NEW n, SetNetwork(p, n)
  PROVE /\ IsFn(socket') /\ IsFn(partial') /\ socket'[p] = n.socket /\ partial'[p] = n.partial
        /\ \A r \in Peers : r # p => socket'[r] = socket[r] /\ partial'[r] = partial[r]
<1>1. IsFn(socket) /\ IsFn(partial)
  BY DEF Shaped
<1>2. socket' = [socket EXCEPT ![p] = n.socket] /\ partial' = [partial EXCEPT ![p] = n.partial]
  BY DEF SetNetwork
<1> QED
  BY <1>1, <1>2 DEF IsFn

\* FlushPendingMessage sends more of the partial message.
LEMMA WriteSockets ==
  ASSUME Shaped, NEW p \in Peers, HandleWrite(p)
  PROVE Sockets
<1>1. PICK rest \in partial[p] :
        \E n : /\ SetNetwork(p, n)
               /\ n.socket = Sendv(socket[p], rest.s, rest.m, rest.left)
               /\ \A x \in n.partial : x.s = rest.s /\ x.m = rest.m
  <2>1. PICK rest \in partial[p] :
          LET left == rest.left - Min({rest.left, Room(socket[p])})
          IN SetNetwork(p, [socket  |-> Sendv(socket[p], rest.s, rest.m, rest.left),
                            used    |-> used[p],
                            partial |-> IF left = 0 THEN {} ELSE {[rest EXCEPT !.left = left]}])
    BY DEF HandleWrite
  <2> DEFINE left == rest.left - Min({rest.left, Room(socket[p])})
             y == [rest EXCEPT !.left = left]
             n == [socket  |-> Sendv(socket[p], rest.s, rest.m, rest.left), used |-> used[p],
                   partial |-> IF left = 0 THEN {} ELSE {y}]
  <2>2. SetNetwork(p, n)
    BY <2>1
  <2>3. n.socket = Sendv(socket[p], rest.s, rest.m, rest.left) /\ n.partial \subseteq {y}
    OBVIOUS
  <2>4. y.s = rest.s /\ y.m = rest.m
    OBVIOUS
  <2> HIDE DEF n, y
  <2> QED
    BY <2>2, <2>3, <2>4
<1>2. PICK n : /\ SetNetwork(p, n)
               /\ n.socket = Sendv(socket[p], rest.s, rest.m, rest.left)
               /\ \A x \in n.partial : x.s = rest.s /\ x.m = rest.m
  BY <1>1
<1>3. IsSeq(socket[p])
  BY DEF Shaped
<1>4. /\ IsSeq(n.socket)
      /\ \A x \in Range(n.socket) : x \in Range(socket[p]) \/ (x.s = rest.s /\ x.m = rest.m)
  BY <1>3, <1>2, SendvSends
<1>5. \A s, m : s = rest.s /\ m = rest.m => Fresh(p, s, m)
  BY <1>1 DEF Fresh
<1>6. /\ IsFn(socket') /\ IsFn(partial') /\ socket'[p] = n.socket /\ partial'[p] = n.partial
      /\ \A r \in Peers : r # p => socket'[r] = socket[r] /\ partial'[r] = partial[r]
  BY <1>2, NetworkSet
<1>7. /\ IsSeq(socket'[p])
      /\ \A x \in Range(socket'[p]) : x \in Range(socket[p]) \/ Fresh(p, x.s, x.m)
      /\ \A x \in partial'[p] : x \in partial[p] \/ Fresh(p, x.s, x.m)
  BY <1>4, <1>5, <1>6, <1>2
<1> QED
  BY <1>6, <1>7, OneSocket

\* A reset of stream s, if its channel is open or somebody asked for the reset.
LEMMA ResetSockets ==
  ASSUME Shaped, NEW p \in Peers, NEW s, NEW n, SetNetwork(p, n), \A m : Fresh(p, s, m),
         n = Network(p) \/ n = ResetStream(Network(p), p, s)
  PROVE Sockets
<1> DEFINE o == Network(p)
<1>1. /\ o = [socket |-> o.socket, partial |-> o.partial, used |-> o.used]
      /\ o.socket = socket[p] /\ o.partial = partial[p]
  BY DEF Network
<1>2. IsSeq(socket[p])
  BY DEF Shaped
<1> HIDE DEF o
<1>3. /\ n.partial = o.partial /\ IsSeq(n.socket)
      /\ \A x \in Range(n.socket) : x \in Range(o.socket) \/ x.s = s
  <2>1. CASE n = o
    BY <1>1, <1>2, <2>1
  <2>2. CASE n = ResetStream(o, p, s)
    BY <1>1, <1>2, <2>2, ResetSends
  <2> QED
    BY <2>1, <2>2 DEF o
<1>4. /\ IsFn(socket') /\ IsFn(partial') /\ socket'[p] = n.socket /\ partial'[p] = n.partial
      /\ \A r \in Peers : r # p => socket'[r] = socket[r] /\ partial'[r] = partial[r]
  BY NetworkSet
<1>5. /\ IsSeq(socket'[p])
      /\ \A x \in Range(socket'[p]) : x \in Range(socket[p]) \/ Fresh(p, x.s, x.m)
      /\ \A x \in partial'[p] : x \in partial[p] \/ Fresh(p, x.s, x.m)
  BY <1>1, <1>3, <1>4
<1> QED
  BY <1>4, <1>5, OneSocket

\* DoRecv takes one item out of the other socket.
LEMMA ReadSockets ==
  ASSUME Shaped, NEW p \in Peers, NEW s \in Streams, HandleRead(p, s)
  PROVE Sockets
<1> DEFINE q == Other(p)
<1>1. PICK i \in Deliverable(p, s) : socket' = [socket EXCEPT ![q] = RemoveAt(socket[q], i)]
  BY DEF HandleRead
<1>2. i \in DOMAIN socket[q] /\ q \in Peers /\ partial' = partial
  BY OtherPeer DEF Deliverable, HandleRead
<1> HIDE DEF q
<1>3. IsFn(socket) /\ IsFn(partial) /\ IsSeq(socket[q])
  BY <1>2 DEF Shaped
<1>4. /\ IsFn(socket') /\ socket'[q] = RemoveAt(socket[q], i)
      /\ \A r \in Peers : r # q => socket'[r] = socket[r]
  BY <1>1, <1>2, <1>3 DEF IsFn
<1>5. RemoveAt(socket[q], i) \in Seq(Range(socket[q]))
  <2>1. socket[q] \in Seq(Range(socket[q])) /\ socket[q][i] \in Range(socket[q])
    BY <1>2, <1>3 DEF IsSeq, Range
  <2> QED
    BY <1>2, <2>1, InsertOf
<1>6. IsSeq(socket'[q]) /\ Range(socket'[q]) \subseteq Range(socket[q])
  BY <1>4, <1>5, SeqHolds
<1> QED
  BY <1>2, <1>3, <1>4, <1>6, OneSocket

ChannelSteps == Channels(channel') /\ \A r \in Peers, t \in Streams : ChannelStep(r, t)

\* The channel without the task that runs.
LEMMA RunningIs ==
  ASSUME Shaped, NEW p \in Peers, NEW s \in Streams, channel[p][s].tasks # <<>>
  PROVE LET c == channel[p][s]
            d == Running(p, s)
        IN  /\ IsChannel(c) /\ IsChannel(d) /\ d.is_opened = c.is_opened /\ d.tasks = Tail(c.tasks) /\ d.pending = c.pending
            /\ IsSeq(c.tasks) /\ IsSeq(d.tasks) /\ IsSeq(d.pending)
<1> DEFINE c == channel[p][s]
           x == Tail(c.tasks)
           d == Running(p, s)
<1>1. IsChannel(c) /\ IsSeq(c.tasks) /\ IsSeq(c.pending)
  BY DEF Shaped, Channels
<1>2. d = [c EXCEPT !.tasks = x]
  BY DEF Running
<1>3. IsSeq(x)
  BY <1>1, SeqChanges
<1> HIDE DEF c, x, d
<1>4. IsChannel(d) /\ d.is_opened = c.is_opened /\ d.tasks = x /\ d.pending = c.pending
  BY <1>1, <1>2, TasksValue
<1> QED
  BY <1>1, <1>3, <1>4 DEF c, d, x

\* An empty sequence is one.
LEMMA EmptyHolds == IsSeq(<<>>)
<1>1. <<>> \in Seq({})
  OBVIOUS
<1> QED
  BY <1>1, SeqHolds

\* Open sends OPEN on its own stream, and nothing else.
LEMMA OpenEffect ==
  ASSUME Shaped, NEW p \in Peers, NEW s \in Streams, RunOpen(p, s)
  PROVE ChannelSteps /\ Sockets
<1> DEFINE c == channel[p][s]
           r == Running(p, s)
           e == [r EXCEPT !.transport = TRUE]
<1>1. HeadIs(c, {"open"}) /\ HeadIs(c, {"open", "close"}) /\ c.tasks # <<>>
  BY DEF RunOpen, NextTask, HeadIs
<1>2. /\ IsChannel(c) /\ IsChannel(r) /\ r.is_opened = c.is_opened /\ r.tasks = Tail(c.tasks) /\ r.pending = c.pending
      /\ IsSeq(c.tasks) /\ IsSeq(r.tasks) /\ IsSeq(r.pending)
  BY <1>1, RunningIs
<1>3. CASE c.is_opened
  <2>1. c.is_opened = TRUE
    BY <1>2, <1>3 DEF IsChannel
  <2>2. Assigned(p, s, r) /\ UNCHANGED <<socket, partial>>
    BY <1>3 DEF RunOpen, Assigned
  <2>3. channel'[p][s] = r => ChannelStep(p, s)
    BY <1>2, <2>1 DEF ChannelStep
  <2>4. Sockets
    BY <2>2, SameSockets
  <2> HIDE DEF r
  <2> QED
    BY <1>2, <2>2, <2>3, <2>4, OneStep DEF ChannelSteps
<1>4. CASE ~c.is_opened
  <2>1. Sending(e, p, s, Open)
    BY <1>4 DEF RunOpen
  <2>2. IsChannel(e) /\ e.is_opened = r.is_opened /\ e.tasks = r.tasks /\ e.pending = r.pending
    <3> HIDE DEF r
    <3> QED
      BY <1>2, TransportValue
  <2> HIDE DEF e
  <2> DEFINE M == Range(e.pending) \cup {Open}
  <2>3. /\ \E d : /\ IsChannel(d) /\ d.is_opened = e.is_opened /\ d.tasks = e.tasks
                  /\ IsSeq(d.pending) /\ Range(d.pending) \subseteq M /\ Assigned(p, s, d)
        /\ IsFn(socket') /\ IsFn(partial') /\ IsSeq(socket'[p])
        /\ \A x \in Range(socket'[p]) : x \in Range(socket[p]) \/ (x.s = s /\ x.m \in M)
        /\ \A x \in partial'[p] : x \in partial[p] \/ (x.s = s /\ x.m \in M)
        /\ \A q \in Peers : q # p => socket'[q] = socket[q] /\ partial'[q] = partial[q]
    BY <1>2, <2>1, <2>2, SendingStep
  <2>4. PICK d : /\ IsChannel(d) /\ d.is_opened = e.is_opened /\ d.tasks = e.tasks
                 /\ IsSeq(d.pending) /\ Range(d.pending) \subseteq M /\ Assigned(p, s, d)
    BY <2>3
  <2>5. M = Range(c.pending) \cup {Open}
    BY <1>2, <2>2
  <2> HIDE DEF M
  <2>6. \A t, m : t = s /\ m \in M => Fresh(p, t, m)
    BY <1>1, <2>5 DEF Fresh
  <2>7. Sockets
    BY <2>3, <2>6, OneSocket
  <2>8. /\ IsSeq(d.tasks) /\ d.is_opened = c.is_opened /\ d.tasks = Tail(c.tasks)
        /\ Range(d.pending) \subseteq Range(c.pending) \cup {Open}
    BY <1>2, <2>2, <2>4, <2>5
  <2>9. channel'[p][s] = d => ChannelStep(p, s)
    BY <1>1, <2>4, <2>8 DEF ChannelStep
  <2> QED
    BY <2>4, <2>7, <2>9, OneStep DEF ChannelSteps
<1> QED
  BY <1>3, <1>4

\* A task that sends, of a channel that is or was open.
LEMMA SendEffect ==
  ASSUME Shaped, NEW p \in Peers, NEW s \in Streams, RunSend(p, s) \/ RunIncomingOpen(p, s)
  PROVE ChannelSteps /\ Sockets
<1> DEFINE c == channel[p][s]
           r == Running(p, s)
           o == [r EXCEPT !.is_opened = TRUE]
<1>1. ~HeadIs(c, {"open", "close"}) /\ c.tasks # <<>>
  BY DEF RunSend, RunIncomingOpen, NextTask, HeadIs
<1>2. /\ IsChannel(c) /\ IsChannel(r) /\ r.is_opened = c.is_opened /\ r.tasks = Tail(c.tasks) /\ r.pending = c.pending
      /\ IsSeq(c.tasks) /\ IsSeq(r.tasks) /\ IsSeq(r.pending)
  BY <1>1, RunningIs
<1>3. IsChannel(o) /\ o.tasks = r.tasks /\ o.pending = r.pending
  <2> HIDE DEF r
  <2>1. IsChannel(o)
    BY <1>2, OpenStep
  <2>2. o.tasks = r.tasks /\ o.pending = r.pending
    BY <1>2, OpenedValue
  <2> QED
    BY <2>1, <2>2
<1>4. \E m : Sending(r, p, s, m) \/ Sending(o, p, s, m)
  BY DEF RunSend, RunIncomingOpen
<1> HIDE DEF r, o
<1>5. PICK e, m : IsChannel(e) /\ e.tasks = r.tasks /\ e.pending = r.pending /\ Sending(e, p, s, m)
  BY <1>2, <1>3, <1>4
<1>6. /\ \E d : /\ IsChannel(d) /\ d.is_opened = e.is_opened /\ d.tasks = e.tasks
                /\ IsSeq(d.pending) /\ Range(d.pending) \subseteq Range(e.pending) \cup {m} /\ Assigned(p, s, d)
      /\ IsFn(socket') /\ IsFn(partial') /\ IsSeq(socket'[p])
      /\ \A x \in Range(socket'[p]) : x \in Range(socket[p]) \/ x.s = s
      /\ \A x \in partial'[p] : x \in partial[p] \/ x.s = s
      /\ \A q \in Peers : q # p => socket'[q] = socket[q] /\ partial'[q] = partial[q]
  BY <1>2, <1>5, SendingStep
<1>7. PICK d : IsChannel(d) /\ d.tasks = e.tasks /\ IsSeq(d.pending) /\ Assigned(p, s, d)
  BY <1>6
<1>8. \A m1 : Fresh(p, s, m1)
  BY <1>1 DEF Fresh
<1>9. Sockets
  BY <1>6, <1>8, OneSocket
<1>10. channel'[p][s] = d => ChannelStep(p, s)
  BY <1>1, <1>2, <1>5, <1>7 DEF ChannelStep
<1> QED
  BY <1>7, <1>9, <1>10, OneStep DEF ChannelSteps

\* Close resets the stream of an opened channel, and of no other.
LEMMA CloseEffect ==
  ASSUME Shaped, NEW p \in Peers, NEW s \in Streams, RunClose(p, s)
  PROVE ChannelSteps /\ Sockets
<1> DEFINE c == channel[p][s]
           r == Running(p, s)
           c1 == [r EXCEPT !.is_opened = FALSE]
           c2 == [c1 EXCEPT !.transport = FALSE]
           c3 == [c2 EXCEPT !.pending = <<>>]
<1>1. HeadIs(c, {"open", "close"}) /\ c.tasks # <<>>
  BY DEF RunClose, NextTask, HeadIs
<1>2. /\ IsChannel(c) /\ IsChannel(r) /\ r.is_opened = c.is_opened /\ r.tasks = Tail(c.tasks) /\ r.pending = c.pending
      /\ IsSeq(c.tasks) /\ IsSeq(r.tasks) /\ IsSeq(r.pending)
  BY <1>1, RunningIs
<1>3. CASE ~c.is_opened
  <2>1. Assigned(p, s, r) /\ UNCHANGED <<socket, partial>>
    BY <1>3 DEF RunClose, Assigned
  <2>2. channel'[p][s] = r => ChannelStep(p, s)
    BY <1>1, <1>2 DEF ChannelStep
  <2>3. Sockets
    BY <2>1, SameSockets
  <2> HIDE DEF r
  <2> QED
    BY <1>2, <2>1, <2>2, <2>3, OneStep DEF ChannelSteps
<1>4. CASE c.is_opened
  <2>1. c.is_opened = TRUE
    BY <1>2, <1>4 DEF IsChannel
  <2>2. /\ Assigned(p, s, c3)
        /\ \E n : SetNetwork(p, n) /\ (n = Network(p) \/ n = ResetStream(Network(p), p, s))
    BY <1>4 DEF RunClose, Assigned
  <2>3. \A m : Fresh(p, s, m)
    BY <1>1, <2>1 DEF Fresh
  <2>4. Sockets
    BY <2>2, <2>3, ResetSockets
  <2> HIDE DEF r
  <2>5. IsChannel(c1) /\ c1.tasks = r.tasks
    <3>1. IsChannel(c1)
      BY <1>2, OpenStep
    <3>2. c1.tasks = r.tasks
      BY <1>2, OpenedValue
    <3> QED
      BY <3>1, <3>2
  <2> HIDE DEF c1
  <2>6. IsChannel(c2) /\ c2.tasks = r.tasks
    BY <2>5, TransportValue
  <2> HIDE DEF c2
  <2>7. IsChannel(c3) /\ c3.tasks = r.tasks /\ c3.pending = <<>>
    BY <2>6, PendingValue
  <2> HIDE DEF c3
  <2>8. channel'[p][s] = c3 => ChannelStep(p, s)
    BY <1>2, <2>1, <2>7, EmptyHolds DEF ChannelStep
  <2> QED
    BY <2>2, <2>4, <2>7, <2>8, OneStep DEF ChannelSteps
<1> QED
  BY <1>3, <1>4

\* The incoming ACK, CLOSE and user messages.
LEMMA IncomingEffect ==
  ASSUME Shaped, NEW p \in Peers, NEW s \in Streams,
         RunIncomingAck(p, s) \/ RunIncomingClose(p, s) \/ RunIncomingUser(p, s)
  PROVE ChannelSteps /\ Sockets
<1> DEFINE c == channel[p][s]
           r == Running(p, s)
           close == [kind |-> "close", by |-> "remote"]
           x == Append(r.tasks, close)
           o == [r EXCEPT !.is_opened = TRUE]
           q == [r EXCEPT !.tasks = x]
<1>1. ~HeadIs(c, {"open", "close"}) /\ c.tasks # <<>>
  BY DEF RunIncomingAck, RunIncomingClose, RunIncomingUser, NextTask, HeadIs
<1>2. /\ IsChannel(c) /\ IsChannel(r) /\ r.is_opened = c.is_opened /\ r.tasks = Tail(c.tasks) /\ r.pending = c.pending
      /\ IsSeq(c.tasks) /\ IsSeq(r.tasks) /\ IsSeq(r.pending)
  BY <1>1, RunningIs
<1>3. UNCHANGED <<socket, partial>> /\ (Assigned(p, s, r) \/ Assigned(p, s, o) \/ Assigned(p, s, q))
  BY DEF RunIncomingAck, RunIncomingClose, RunIncomingUser, Assigned, Posted, sctp
<1>4. IsSeq(x)
  BY <1>2, SeqChanges
<1> HIDE DEF r, x
<1>5. IsChannel(o) /\ o.tasks = r.tasks /\ o.pending = r.pending
  <2>1. IsChannel(o)
    BY <1>2, OpenStep
  <2>2. o.tasks = r.tasks /\ o.pending = r.pending
    BY <1>2, OpenedValue
  <2> QED
    BY <2>1, <2>2
<1>6. IsChannel(q) /\ q.tasks = x /\ q.pending = r.pending
  BY <1>2, TasksValue
<1> HIDE DEF o, q
<1>7. PICK d : IsChannel(d) /\ IsSeq(d.tasks) /\ IsSeq(d.pending) /\ Assigned(p, s, d)
  BY <1>2, <1>3, <1>4, <1>5, <1>6
<1>8. channel'[p][s] = d => ChannelStep(p, s)
  BY <1>1, <1>7 DEF ChannelStep
<1>9. Sockets
  BY <1>3, SameSockets
<1> QED
  BY <1>7, <1>8, <1>9, OneStep DEF ChannelSteps

\* The destructor sends nothing.
LEMMA DestroyEffect ==
  ASSUME Shaped, NEW p \in Peers, NEW s \in Streams, DestroyMembers(p, s)
  PROVE ChannelSteps /\ Sockets
<1> DEFINE c == channel[p][s]
           c1 == [c EXCEPT !.transport = FALSE]
           c2 == [c1 EXCEPT !.pending = <<>>]
<1>1. s \in released[p] /\ Assigned(p, s, c2) /\ UNCHANGED <<socket, partial>>
  BY DEF DestroyMembers, Assigned, sctp
<1>2. IsChannel(c) /\ IsSeq(c.tasks)
  BY DEF Shaped, Channels
<1> HIDE DEF c
<1>3. IsChannel(c1) /\ c1.tasks = c.tasks
  BY <1>2, TransportValue
<1> HIDE DEF c1
<1>4. IsChannel(c2) /\ c2.tasks = c.tasks /\ c2.pending = <<>>
  BY <1>3, PendingValue
<1> HIDE DEF c2
<1>5. channel'[p][s] = c2 => ChannelStep(p, s)
  BY <1>1, <1>2, <1>4, EmptyHolds DEF ChannelStep
<1>6. Sockets
  BY <1>1, SameSockets
<1> QED
  BY <1>1, <1>4, <1>5, <1>6, OneStep DEF ChannelSteps

\* The closures of the signaling queue.
LEMMA TurnEffect ==
  ASSUME Shaped, NEW p \in Peers, RunAdd(p) \/ RunConnected(p) \/ RunDisconnected(p)
  PROVE ChannelSteps /\ Sockets
<1>1. UNCHANGED <<socket, partial>>
  BY DEF RunAdd, RunConnected, RunDisconnected, sctp
<1>2. Sockets
  BY <1>1, SameSockets
<1>3. IsFn(data_channels)
  BY DEF Shaped
<1>4. PICK S, task : /\ PostTo(p, S, task) /\ task.kind \in {"open", "close"}
                     /\ \A s \in S : s \in data_channels[p] \/ s \in data_channels'[p]
  <2>1. CASE RunAdd(p)
    <3> DEFINE s == Head(signaling[p]).s
               S == IF state[p] = "connected" THEN {s} ELSE {}
    <3>1. data_channels' = [data_channels EXCEPT ![p] = @ \cup {s}] /\ PostTo(p, S, OpenTask)
      BY <2>1 DEF RunAdd
    <3>2. s \in data_channels'[p]
      BY <1>3, <3>1 DEF IsFn
    <3>3. \A t \in S : t \in data_channels'[p]
      BY <3>2
    <3>4. OpenTask.kind = "open"
      BY DEF OpenTask
    <3> HIDE DEF S
    <3> QED
      BY <3>1, <3>3, <3>4
  <2>2. CASE RunConnected(p)
    <3>1. PostTo(p, Alive(p), OpenTask) /\ OpenTask.kind = "open"
      BY <2>2 DEF RunConnected, OpenTask
    <3> QED
      BY <3>1 DEF Alive
  <2>3. CASE RunDisconnected(p)
    <3> DEFINE task == [kind |-> "close", by |-> "down"]
    <3>1. PostTo(p, Alive(p), task) /\ task.kind = "close"
      BY <2>3 DEF RunDisconnected
    <3> QED
      BY <3>1 DEF Alive
  <2> QED
    BY <2>1, <2>2, <2>3
<1>5. ChannelSteps
  BY <1>4, PostStep DEF ChannelSteps
<1> QED
  BY <1>2, <1>5

\* A message of the transport gives its channel a closure, or makes the channel.
LEMMA MessageEffect ==
  ASSUME Shaped, NEW p \in Peers, RunMessage(p)
  PROVE ChannelSteps /\ Sockets
<1> DEFINE s == Head(signaling[p]).s
           m == Head(signaling[p]).m
           c == channel[p][s]
           d == [c EXCEPT !.transport = TRUE]
           x == Append(d.tasks, Incoming(m))
           e == [d EXCEPT !.tasks = x]
<1>1. UNCHANGED <<socket, partial>>
  BY DEF RunMessage
<1>2. Sockets
  BY <1>1, SameSockets
<1>3. signaling[p] # <<>> /\ Head(signaling[p]).kind = "message" /\ MessageFor(p, s)
  BY DEF RunMessage, Turn, MessageFor
<1>4. Head(signaling[p]) \in Range(signaling[p]) /\ IsFn(data_channels)
  BY <1>3, SeqChanges DEF Shaped
<1>5. s \in Streams
  BY <1>3, <1>4 DEF Shaped
<1>6. \/ s \in Alive(p) /\ PostTo(p, {s}, Incoming(m))
      \/ data_channels' = [data_channels EXCEPT ![p] = @ \cup {s}] /\ Assigned(p, s, e)
      \/ channel' = channel
  BY DEF RunMessage, Assigned, Posted
<1>7. CASE s \in Alive(p) /\ PostTo(p, {s}, Incoming(m))
  <2>1. s \in data_channels[p]
    BY <1>7 DEF Alive
  <2> HIDE DEF s, m
  <2>2. \A t \in {s} \cap Streams :
           \/ channel[p][t].is_opened = TRUE
           \/ /\ t \in data_channels[p] \/ t \in data_channels'[p]
              /\ MessageFor(p, t) \/ Incoming(m).kind \in {"open", "close"}
    BY <1>3, <2>1
  <2>3. ChannelSteps
    BY <1>7, <2>2, PostStep DEF ChannelSteps
  <2> QED
    BY <1>2, <2>3
<1>8. CASE data_channels' = [data_channels EXCEPT ![p] = @ \cup {s}] /\ Assigned(p, s, e)
  <2> HIDE DEF s, m
  <2>1. s \in data_channels'[p]
    BY <1>4, <1>8 DEF IsFn
  <2>2. IsChannel(c) /\ IsSeq(c.tasks) /\ IsSeq(c.pending)
    BY <1>5 DEF Shaped, Channels
  <2> HIDE DEF c
  <2>3. IsChannel(d) /\ d.tasks = c.tasks /\ d.pending = c.pending
    BY <2>2, TransportValue
  <2> HIDE DEF d
  <2>4. IsSeq(x)
    BY <2>2, <2>3, SeqChanges
  <2> HIDE DEF x
  <2>5. IsChannel(e) /\ e.tasks = x /\ e.pending = d.pending
    BY <2>3, TasksValue
  <2> HIDE DEF e
  <2>6. channel'[p][s] = e => ChannelStep(p, s)
    BY <1>3, <2>1, <2>2, <2>3, <2>4, <2>5 DEF ChannelStep
  <2> QED
    BY <1>2, <1>5, <1>8, <2>5, <2>6, OneStep DEF ChannelSteps
<1>9. CASE channel' = channel
  BY <1>2, <1>9, SameChannels DEF ChannelSteps
<1> QED
  BY <1>6, <1>7, <1>8, <1>9

\* The application's calls.
LEMMA AppEffect ==
  ASSUME Shaped, NEW p \in Peers, NEW s \in Streams, AppSend(p, s) \/ AppClose(p, s) \/ AppRelease(p, s)
  PROVE ChannelSteps /\ Sockets
<1>1. UNCHANGED <<socket, partial>> /\ \E task : PostTo(p, {s}, task)
  BY DEF AppSend, AppClose, AppRelease, sctp
<1>2. channel[p][s].is_opened
  BY DEF AppSend, AppClose, AppRelease
<1>3. channel[p][s].is_opened = TRUE
  BY <1>2 DEF Shaped, Channels, IsChannel
<1>4. Sockets
  BY <1>1, SameSockets
<1>5. ChannelSteps
  BY <1>1, <1>3, PostStep DEF ChannelSteps
<1> QED
  BY <1>4, <1>5

\* What the transport and the network do leaves the channels alone.
LEMMA NetworkEffect ==
  ASSUME Shaped, NEW p \in Peers,
         \/ AssocChange(p, "connecting", "connected") \/ AssocChange(p, "connected", "disconnected")
         \/ HandleWrite(p) \/ RunCloseStream(p)
         \/ \E s \in Streams : AddDataChannel(p, s) \/ HandleRead(p, s)
  PROVE ChannelSteps /\ Sockets
<1>1. channel' = channel
  BY DEF AssocChange, HandleWrite, RunCloseStream, AddDataChannel, HandleRead
<1>2. ChannelSteps
  BY <1>1, SameChannels DEF ChannelSteps
<1>3. CASE RunCloseStream(p)
  <2>1. PICK s \in close_posted[p] : SetNetwork(p, ResetStream(Network(p), p, s))
    BY <1>3 DEF RunCloseStream
  <2>2. \A m : Fresh(p, s, m)
    BY DEF Fresh
  <2> QED
    BY <1>2, <2>1, <2>2, ResetSockets
<1>4. CASE \/ AssocChange(p, "connecting", "connected") \/ AssocChange(p, "connected", "disconnected")
           \/ \E s \in Streams : AddDataChannel(p, s)
  <2>1. UNCHANGED <<socket, partial>>
    BY <1>4 DEF AssocChange, AddDataChannel, sctp
  <2> QED
    BY <1>2, <2>1, SameSockets
<1> QED
  BY <1>2, <1>3, <1>4, WriteSockets, ReadSockets

\* Every step, on the channels and on the sockets.
LEMMA Effects ==
  ASSUME Shaped, Next
  PROVE ChannelSteps /\ Sockets
<1>1. PICK p \in Peers : Acts(p)
  BY ActsAre
<1>2. CASE \E s \in Streams :
             \/ RunOpen(p, s) \/ RunSend(p, s) \/ RunClose(p, s)
             \/ RunIncomingOpen(p, s) \/ RunIncomingAck(p, s) \/ RunIncomingClose(p, s) \/ RunIncomingUser(p, s)
             \/ DestroyMembers(p, s)
  BY <1>2, OpenEffect, SendEffect, CloseEffect, IncomingEffect, DestroyEffect
<1>3. CASE \E s \in Streams : AppSend(p, s) \/ AppClose(p, s) \/ AppRelease(p, s)
  BY <1>3, AppEffect
<1> QED
  BY <1>1, <1>2, <1>3, TurnEffect, MessageEffect, NetworkEffect DEF Acts

\* Every step keeps the shape.
LEMMA ShapedStep ==
  ASSUME Shaped, Next
  PROVE Shaped'
<1>1. /\ IsFn(signaling') /\ IsFn(state')
      /\ \A r \in Peers : SignalingStep(r)
  BY SignalingSteps
<1>2. IsFn(data_channels') /\ IsFn(close_posted') /\ IsFn(app_closed') /\ IsFn(released')
  BY ChannelsSteps, DroppedSteps
<1>3. /\ Channels(channel') /\ IsFn(socket') /\ IsFn(partial')
      /\ \A p \in Peers : IsSeq(socket'[p])
      /\ \A p \in Peers, s \in Streams : IsSeq(channel'[p][s].tasks) /\ IsSeq(channel'[p][s].pending)
  BY Effects DEF ChannelSteps, Sockets, SocketStep, ChannelStep
<1>4. ASSUME NEW p \in Peers
      PROVE /\ IsSeq(signaling'[p])
            /\ \A e \in Range(signaling'[p]) : e \in Range(signaling[p]) \/ NewEntry(p, e)
  <2>1. IsSeq(signaling[p]) /\ SignalingStep(p)
    BY <1>1 DEF Shaped
  <2>2. CASE signaling'[p] = signaling[p]
    BY <2>1, <2>2
  <2>3. CASE signaling[p] # <<>> /\ signaling'[p] = Tail(signaling[p])
    <3>1. IsSeq(Tail(signaling[p])) /\ Range(Tail(signaling[p])) \subseteq Range(signaling[p])
      BY <2>1, <2>3, SeqChanges
    <3> QED
      BY <2>3, <3>1
  <2>4. ASSUME NEW e, signaling'[p] = Append(signaling[p], e), NewEntry(p, e)
        PROVE /\ IsSeq(signaling'[p])
              /\ \A f \in Range(signaling'[p]) : f \in Range(signaling[p]) \/ NewEntry(p, f)
    <3>1. IsSeq(Append(signaling[p], e)) /\ Range(Append(signaling[p], e)) \subseteq Range(signaling[p]) \cup {e}
      BY <2>1, SeqChanges
    <3> QED
      BY <2>4, <3>1
  <2> QED
    BY <2>1, <2>2, <2>3, <2>4 DEF SignalingStep
<1>5. ASSUME NEW p \in Peers, NEW e \in Range(signaling'[p])
      PROVE /\ e.kind \in {"add", "message"} => e.s \in Streams
            /\ e.kind = "add" => Owner(e.s) = p
  BY <1>4, <1>5 DEF NewEntry, Shaped
<1> QED
  BY <1>1, <1>2, <1>3, <1>4, <1>5 DEF Shaped, IsFn, Channels

\* The association of p is lost and its channels are taken back; a peer knows a stream that
\* has a channel, and once it is down it hears of none.
Queued(q, kind) == \E i \in DOMAIN q : q[i].kind = kind
Down(p) == state[p] = "disconnected" /\ ~Queued(signaling[p], "disconnected")
Known(p, s) == s \in data_channels[p] \/ Down(p)

\* The loss of the association is reported once, behind all messages.
DownLast(p) ==
    /\ state[p] # "disconnected" => ~Queued(signaling[p], "disconnected")
    /\ \A i, j \in DOMAIN signaling[p] :
         signaling[p][i].kind = "disconnected" /\ signaling[p][j].kind \in {"disconnected", "message"} => j <= i
    /\ Down(p) => ~Queued(signaling[p], "message")

\* Whatever p has sent on stream s and the other peer has not handled is in M.
Sent(p, s, M) ==
    /\ \A e \in Range(signaling[Other(p)]) : e.kind = "message" /\ e.s = s => e.m \in M
    /\ \A x \in Range(socket[p]) : x.s = s => x.m \in M
    /\ \A x \in partial[p] : x.s = s => x.m \in M

\* Peer p has not opened channel s so far, has done nothing on it, or has sent no more than OPEN.
Unopened(p, s) ==
    channel[p][s].is_opened = FALSE /\ s \notin app_closed[p] /\ s \notin released[p] /\ s \notin close_posted[p]
Silent(p, s) ==
    /\ Unopened(p, s) /\ channel[p][s].tasks = <<>> /\ channel[p][s].pending = <<>>
    /\ Sent(p, s, {}) /\ s \notin data_channels[p]
Opening(p, s) ==
    /\ Unopened(p, s) /\ Sent(p, s, {Open}) /\ Range(channel[p][s].pending) \subseteq {Open}
    /\ \A t \in Range(channel[p][s].tasks) : t.kind \in {"open", "close"}

\* Until the other peer knows a stream its owner sends only OPEN on it, and before the owner
\* knows it nobody does anything.
StreamInv(s) ==
    LET o == Owner(s)
        p == Other(o)
    IN  /\ ~Known(p, s) => Silent(p, s) /\ Opening(o, s)
        /\ ~Known(o, s) => Silent(p, s) /\ Silent(o, s)

StrayInv ==
    /\ Shaped
    /\ \A p \in Peers : DownLast(p)
    /\ \A s \in Streams : StreamInv(s)
    /\ NoStrayMessages

\* A queue that grew or lost its first closure.
LEMMA QueueItems ==
  ASSUME NEW q, IsSeq(q), NEW e
  PROVE /\ DOMAIN q = 1..Len(q) /\ Len(q) \in Nat
        /\ DOMAIN Append(q, e) = 1..(Len(q) + 1) /\ Append(q, e)[Len(q) + 1] = e
        /\ \A i \in 1..Len(q) : Append(q, e)[i] = q[i]
        /\ q # <<>> => /\ Len(q) > 0 /\ Head(q) = q[1] /\ DOMAIN Tail(q) = 1..(Len(q) - 1)
                       /\ \A i \in 1..(Len(q) - 1) : Tail(q)[i] = q[i + 1]
        /\ Append(q, e) # q
<1>1. q \in Seq(Range(q))
  BY DEF IsSeq
<1> DEFINE S == Range(q) \cup {e}
<1>2. q \in Seq(S) /\ e \in S
  <2>1. Range(q) \subseteq S /\ e \in S
    OBVIOUS
  <2> HIDE DEF S
  <2> QED
    BY <1>1, <2>1
<1> HIDE DEF S
<1>3. Append(q, e) \in Seq(S) /\ Len(Append(q, e)) = Len(q) + 1 /\ Len(q) \in Nat
  BY <1>2
<1>4. Append(q, e) # q
  BY <1>3
<1>5. /\ DOMAIN Append(q, e) = 1..(Len(q) + 1) /\ Append(q, e)[Len(q) + 1] = e
      /\ \A i \in 1..Len(q) : Append(q, e)[i] = q[i]
  BY <1>2
<1>6. q # <<>> => /\ Len(q) > 0 /\ Head(q) = q[1] /\ DOMAIN Tail(q) = 1..(Len(q) - 1)
                  /\ \A i \in 1..(Len(q) - 1) : Tail(q)[i] = q[i + 1]
  BY <1>1
<1> QED
  BY <1>1, <1>3, <1>4, <1>5, <1>6

\* Messages are posted only to a connected peer, so none is behind the report of the loss.
LEMMA DownStep ==
  ASSUME Shaped, NEW p \in Peers, DownLast(p), SignalingStep(p), StateStep(p)
  PROVE DownLast(p)' /\ (Down(p) => Down(p)')
<1> DEFINE q == signaling[p]
           r == signaling'[p]
           Was(i, k) == i \in 1..Len(q) /\ q[i].kind = k
           Is(i, k) == i \in DOMAIN r /\ r[i].kind = k
<1>1. IsSeq(q)
  BY DEF Shaped
<1>2. DOMAIN q = 1..Len(q) /\ Len(q) \in Nat
  BY <1>1, QueueItems
<1>3. /\ state[p] # "disconnected" => \A i : ~Was(i, "disconnected")
      /\ \A i, j : Was(i, "disconnected") /\ (Was(j, "disconnected") \/ Was(j, "message")) => j <= i
      /\ state[p] = "disconnected" /\ (\A i : ~Was(i, "disconnected")) => \A i : ~Was(i, "message")
  BY <1>2 DEF DownLast, Down, Queued
<1>4. SUFFICES /\ state'[p] # "disconnected" => \A i : ~Is(i, "disconnected")
               /\ \A i, j : Is(i, "disconnected") /\ (Is(j, "disconnected") \/ Is(j, "message")) => j <= i
               /\ state'[p] = "disconnected" /\ (\A i : ~Is(i, "disconnected")) => \A i : ~Is(i, "message")
               /\ state[p] = "disconnected" /\ (\A i : ~Was(i, "disconnected"))
                     => state'[p] = "disconnected" /\ \A i : ~Is(i, "disconnected")
  BY <1>2 DEF DownLast, Down, Queued
<1>5. CASE r = q
  <2>1. \A i, k : Is(i, k) <=> Was(i, k)
    BY <1>2, <1>5
  <2>2. state'[p] = state[p] \/ (state[p] # "disconnected" /\ state'[p] # "disconnected")
    BY <1>1, <1>5, QueueItems DEF StateStep
  <2> HIDE DEF Is, Was
  <2> QED
    BY <1>3, <2>1, <2>2
<1>6. CASE q # <<>> /\ r = Tail(q)
  <2>1. \A i, k : Is(i, k) => i \in Nat /\ i >= 1 /\ Was(i + 1, k)
    BY <1>1, <1>2, <1>6, QueueItems
  <2>2. ASSUME NEW i, NEW k, Was(i, k) PROVE i \in Nat /\ (i = 1 \/ (i >= 2 /\ Is(i - 1, k)))
    <3>1. i \in Nat /\ i >= 1 /\ i <= Len(q) /\ Len(q) \in Nat
      BY <1>2, <2>2
    <3>2. CASE i >= 2
      <4>1. i - 1 \in 1..(Len(q) - 1) /\ (i - 1) + 1 = i
        BY <3>1, <3>2
      <4>2. DOMAIN Tail(q) = 1..(Len(q) - 1) /\ \A j \in 1..(Len(q) - 1) : Tail(q)[j] = q[j + 1]
        BY <1>1, <1>6, QueueItems
      <4>3. Tail(q)[i - 1] = q[i]
        BY <4>1, <4>2
      <4> QED
        BY <1>6, <2>2, <3>1, <3>2, <4>1, <4>2, <4>3
    <3> QED
      BY <3>1, <3>2
  <2>3. state'[p] = state[p] \/ (state[p] # "disconnected" /\ state'[p] # "disconnected")
    <3>1. Len(Tail(q)) = Len(q) - 1
      BY <1>1, <1>6 DEF IsSeq
    <3>2. ASSUME NEW e PROVE Len(Append(q, e)) = Len(q) + 1
      <4>1. DOMAIN Append(q, e) = 1..(Len(q) + 1) /\ Append(q, e)[Len(q) + 1] = e /\ IsSeq(Append(q, e))
        BY <1>1, QueueItems, SeqChanges
      <4>2. Append(q, e) \in Seq(Range(Append(q, e)))
        BY <4>1 DEF IsSeq
      <4>3. Len(Append(q, e)) \in Nat /\ DOMAIN Append(q, e) = 1..Len(Append(q, e))
        BY <4>2
      <4> QED
        BY <1>2, <4>1, <4>3
    <3> QED
      BY <1>2, <1>6, <3>1, <3>2 DEF StateStep
  <2> HIDE DEF Is, Was
  <2>4. ASSUME NEW i, NEW j, Is(i, "disconnected"), Is(j, "disconnected") \/ Is(j, "message") PROVE j <= i
    <3>1. i \in Nat /\ j \in Nat /\ Was(i + 1, "disconnected") /\ (Was(j + 1, "disconnected") \/ Was(j + 1, "message"))
      BY <2>1, <2>4
    <3>2. j + 1 <= i + 1
      BY <1>3, <3>1
    <3> QED
      BY <3>1, <3>2
  <2>5. state'[p] # "disconnected" => \A i : ~Is(i, "disconnected")
    BY <1>3, <2>1, <2>3
  <2>6. ASSUME state'[p] = "disconnected", \A i : ~Is(i, "disconnected"), NEW j, Is(j, "message") PROVE FALSE
    <3>1. state[p] = "disconnected" /\ j \in Nat /\ j >= 1 /\ Was(j + 1, "message")
      BY <2>1, <2>3, <2>6
    <3>2. PICK i : Was(i, "disconnected")
      BY <1>3, <3>1
    <3>3. i = 1 /\ j + 1 <= i
      BY <1>3, <2>2, <2>6, <3>1, <3>2
    <3> QED
      BY <3>1, <3>3
  <2>7. state[p] = "disconnected" /\ (\A i : ~Was(i, "disconnected"))
           => state'[p] = "disconnected" /\ \A i : ~Is(i, "disconnected")
    BY <2>1, <2>3
  <2> QED
    BY <2>4, <2>5, <2>6, <2>7
<1>7. ASSUME NEW e, r = Append(q, e), NewEntry(p, e)
      PROVE /\ state'[p] # "disconnected" => \A i : ~Is(i, "disconnected")
            /\ \A i, j : Is(i, "disconnected") /\ (Is(j, "disconnected") \/ Is(j, "message")) => j <= i
            /\ state'[p] = "disconnected" /\ (\A i : ~Is(i, "disconnected")) => \A i : ~Is(i, "message")
            /\ state[p] = "disconnected" /\ (\A i : ~Was(i, "disconnected"))
                  => state'[p] = "disconnected" /\ \A i : ~Is(i, "disconnected")
  <2> DEFINE n == Len(q) + 1
  <2>1. \A i, k : Is(i, k) => Was(i, k) \/ (i = n /\ e.kind = k)
    BY <1>1, <1>2, <1>7, QueueItems
  <2>2. \A i, k : Was(i, k) => i \in Nat /\ i < n
    BY <1>2
  <2>3. n \in Nat /\ r[n] = e /\ n \in DOMAIN r
    BY <1>1, <1>2, <1>7, QueueItems
  <2>4. \/ state'[p] = state[p]
        \/ state[p] # "disconnected" /\ (state'[p] = "disconnected" => e.kind = "disconnected")
    <3>1. CASE state'[p] = "disconnected" /\ r = Append(q, [kind |-> "disconnected"])
      <4>1. Append(q, [kind |-> "disconnected"])[Len(q) + 1] = [kind |-> "disconnected"]
        BY <1>1, QueueItems
      <4>2. e = [kind |-> "disconnected"]
        BY <2>3, <3>1, <4>1
      <4> QED
        BY <4>2 DEF StateStep
    <3> QED
      BY <3>1 DEF StateStep
  <2>5. /\ e.kind = "disconnected" => state[p] = "connected" /\ state'[p] = "disconnected"
        /\ e.kind = "message" => state[p] = "connected"
    BY <1>7 DEF NewEntry
  <2>6. e.kind = "disconnected" => Is(n, "disconnected")
    BY <2>3
  <2> HIDE DEF Is, Was, n
  <2>7. CASE e.kind = "disconnected"
    <3>1. \A i, k : Is(i, "disconnected") => i = n
      BY <1>3, <2>1, <2>5, <2>7
    <3>2. \A j, k : Is(j, k) => j \in Nat /\ j <= n
      BY <2>1, <2>2, <2>3
    <3> QED
      BY <2>5, <2>6, <2>7, <3>1, <3>2
  <2>8. CASE e.kind # "disconnected"
    <3>1. state'[p] = state[p] \/ (state[p] # "disconnected" /\ state'[p] # "disconnected")
      BY <2>4, <2>8
    <3>2. \A i : Is(i, "disconnected") => Was(i, "disconnected")
      BY <2>1, <2>8
    <3>3. CASE state[p] # "disconnected"
      BY <1>3, <3>1, <3>2, <3>3
    <3>4. CASE state[p] = "disconnected"
      <4>1. \A i : Is(i, "message") => Was(i, "message")
        BY <2>1, <2>5, <3>4
      <4>2. \A i : Was(i, "disconnected") => Is(i, "disconnected")
        BY <1>1, <1>2, <1>7, QueueItems DEF Was, Is
      <4> QED
        BY <1>3, <3>1, <3>2, <3>4, <4>1, <4>2
    <3> QED
      BY <3>3, <3>4
  <2> QED
    BY <2>7, <2>8
<1> QED
  BY <1>5, <1>6, <1>7 DEF SignalingStep

\* A peer that knows a stream knows it ever after, or is down.
LEMMA KnownStep ==
  ASSUME StrayInv, Next, NEW p \in Peers, NEW s, Known(p, s)
  PROVE Known(p, s)'
<1>1. Shaped /\ DownLast(p) /\ SignalingStep(p) /\ StateStep(p) /\ ChannelsStep(p)
  BY SignalingSteps, ChannelsSteps DEF StrayInv
<1>2. DownLast(p)' /\ (Down(p) => Down(p)')
  BY <1>1, DownStep
<1>3. CASE Down(p)
  BY <1>2, <1>3 DEF Known
<1>4. CASE s \in data_channels'[p]
  BY <1>4 DEF Known
<1>5. CASE s \in data_channels[p] /\ s \notin data_channels'[p]
  <2> DEFINE q == signaling[p]
  <2>1. q # <<>> /\ signaling'[p] = Tail(q) /\ Head(q).kind = "disconnected"
    BY <1>1, <1>5 DEF ChannelsStep
  <2>2. IsSeq(q)
    BY <1>1 DEF Shaped
  <2>3. /\ DOMAIN q = 1..Len(q) /\ Len(q) \in Nat /\ Len(q) > 0 /\ Head(q) = q[1]
        /\ DOMAIN Tail(q) = 1..(Len(q) - 1) /\ \A i \in 1..(Len(q) - 1) : Tail(q)[i] = q[i + 1]
    BY <2>1, <2>2, QueueItems
  <2>4. 1 \in DOMAIN q /\ q[1].kind = "disconnected"
    BY <2>1, <2>3
  <2>5. state[p] = "disconnected"
    BY <1>1, <2>4 DEF DownLast, Queued
  <2>6. state'[p] = "disconnected"
    BY <1>1, <2>5 DEF StateStep
  <2>7. ASSUME NEW i \in DOMAIN Tail(q), Tail(q)[i].kind = "disconnected" PROVE FALSE
    <3>1. i + 1 \in DOMAIN q /\ q[i + 1].kind = "disconnected" /\ i \in Nat /\ i >= 1
      BY <2>3, <2>7
    <3>2. i + 1 <= 1
      BY <1>1, <2>4, <3>1 DEF DownLast
    <3> QED
      BY <3>1, <3>2
  <2>8. ~Queued(signaling'[p], "disconnected")
    BY <2>1, <2>7 DEF Queued
  <2> QED
    BY <2>6, <2>8 DEF Known, Down
<1> QED
  BY <1>3, <1>4, <1>5 DEF Known

\* What p sends on s stays in M if what is new is.
LEMMA SentStep ==
  ASSUME Shaped, Next, NEW p \in Peers, NEW s, NEW M, Sent(p, s, M), \A m : Fresh(p, s, m) => m \in M
  PROVE Sent(p, s, M)'
<1> DEFINE o == Other(p)
<1>1. o \in Peers /\ Other(o) = p
  BY OtherPeer
<1>2. SignalingStep(o) /\ IsSeq(signaling[o])
  BY <1>1, SignalingSteps DEF Shaped
<1>3. SocketStep(p)
  BY Effects DEF Sockets
<1>4. /\ \A e \in Range(signaling[o]) : e.kind = "message" /\ e.s = s => e.m \in M
      /\ \A x \in Range(socket[p]) : x.s = s => x.m \in M
      /\ \A x \in partial[p] : x.s = s => x.m \in M
  BY DEF Sent
<1> HIDE DEF o
<1>5. \A e \in Range(signaling'[o]) : e \in Range(signaling[o]) \/ NewEntry(o, e)
  <2>1. CASE signaling'[o] = signaling[o]
    BY <2>1
  <2>2. CASE signaling[o] # <<>> /\ signaling'[o] = Tail(signaling[o])
    BY <1>2, <2>2, SeqChanges
  <2>3. ASSUME NEW e, signaling'[o] = Append(signaling[o], e), NewEntry(o, e)
        PROVE \A f \in Range(signaling'[o]) : f \in Range(signaling[o]) \/ NewEntry(o, f)
    <3>1. Range(Append(signaling[o], e)) \subseteq Range(signaling[o]) \cup {e}
      BY <1>2, SeqChanges
    <3> QED
      BY <2>3, <3>1
  <2> QED
    BY <1>2, <2>1, <2>2, <2>3 DEF SignalingStep
<1>6. ASSUME NEW e, NewEntry(o, e), e.kind = "message", e.s = s PROVE e.m \in M
  BY <1>1, <1>4, <1>6 DEF NewEntry
<1>7. \A e \in Range(signaling'[o]) : e.kind = "message" /\ e.s = s => e.m \in M
  BY <1>4, <1>5, <1>6
<1>8. /\ \A x \in Range(socket'[p]) : x.s = s => x.m \in M
      /\ \A x \in partial'[p] : x.s = s => x.m \in M
  BY <1>3, <1>4 DEF SocketStep
<1> QED
  BY <1>7, <1>8 DEF Sent, o

\* A message for s at p was sent by the other peer.
LEMMA HeadSent ==
  ASSUME Shaped, NEW p \in Peers, NEW s, NEW M, Sent(Other(p), s, M), MessageFor(p, s)
  PROVE Head(signaling[p]).m \in M
<1>1. Other(Other(p)) = p /\ IsSeq(signaling[p])
  BY OtherPeer DEF Shaped
<1>2. signaling[p] # <<>> /\ Head(signaling[p]).kind = "message" /\ Head(signaling[p]).s = s
  BY DEF MessageFor
<1>3. Head(signaling[p]) \in Range(signaling[p])
  BY <1>1, <1>2, SeqChanges
<1> QED
  BY <1>1, <1>2, <1>3 DEF Sent

\* A peer that has done nothing on a stream does nothing on it until it has its channel.
LEMMA SilentStep ==
  ASSUME StrayInv, Next, NEW p \in Peers, NEW s \in Streams, Silent(p, s),
         s \notin data_channels'[p], s \notin close_posted'[p]
  PROVE Silent(p, s)'
<1> DEFINE c == channel[p][s]
<1>1. Shaped
  BY DEF StrayInv
<1>2. /\ c.is_opened = FALSE /\ s \notin app_closed[p] /\ s \notin released[p] /\ s \notin close_posted[p]
      /\ c.tasks = <<>> /\ c.pending = <<>> /\ s \notin data_channels[p] /\ Sent(p, s, {})
  BY DEF Silent, Unopened
<1>3. \A m : ~Fresh(p, s, m)
  BY <1>2 DEF Fresh, Sent
<1>4. Sent(p, s, {})'
  BY <1>1, <1>2, <1>3, SentStep
<1>5. ChannelStep(p, s) /\ DroppedStep(p)
  BY <1>1, Effects, DroppedSteps DEF ChannelSteps
<1>6. channel'[p][s] = c
  BY <1>2, <1>5 DEF ChannelStep
<1>7. s \notin app_closed'[p] /\ s \notin released'[p]
  BY <1>2, <1>5 DEF DroppedStep
<1> QED
  BY <1>2, <1>4, <1>6, <1>7 DEF Silent, Unopened

\* A peer that has sent only OPEN sends only OPEN while it hears nothing.
LEMMA OpeningStep ==
  ASSUME StrayInv, Next, NEW p \in Peers, NEW s \in Streams, Opening(p, s), Sent(Other(p), s, {})
  PROVE Opening(p, s)'
<1> DEFINE c == channel[p][s]
           d == channel'[p][s]
<1>1. Shaped
  BY DEF StrayInv
<1>2. /\ c.is_opened = FALSE /\ s \notin app_closed[p] /\ s \notin released[p] /\ s \notin close_posted[p]
      /\ Range(c.pending) \subseteq {Open} /\ Sent(p, s, {Open})
      /\ \A t \in Range(c.tasks) : t.kind \in {"open", "close"}
  BY DEF Opening, Unopened
<1>3. IsSeq(c.tasks)
  BY <1>1 DEF Shaped
<1>4. c.tasks # <<>> => HeadIs(c, {"open", "close"})
  <2>1. c.tasks # <<>> => Head(c.tasks) \in Range(c.tasks)
    BY <1>3, SeqChanges
  <2> QED
    BY <1>2, <2>1 DEF HeadIs
<1>5. ASSUME NEW m, Fresh(p, s, m) PROVE m \in {Open}
  BY <1>2, <1>4, <1>5 DEF Fresh, Sent
<1>6. Sent(p, s, {Open})'
  BY <1>1, <1>2, <1>5, SentStep
<1>7. ChannelStep(p, s) /\ DroppedStep(p) /\ PostedStep(p)
  BY <1>1, Effects, DroppedSteps, ChannelsSteps DEF ChannelSteps
<1>8. ~MessageFor(p, s)
  BY <1>1, HeadSent
<1>9. s \notin app_closed'[p] /\ s \notin released'[p] /\ s \notin close_posted'[p]
  BY <1>2, <1>7, <1>8 DEF DroppedStep, PostedStep
<1>10. \/ d = c
       \/ /\ d.is_opened = c.is_opened /\ d.pending = c.pending
          /\ \E t : d.tasks = Append(c.tasks, t) /\ t.kind \in {"open", "close"}
       \/ /\ c.tasks # <<>> /\ d.is_opened = c.is_opened /\ d.tasks = Tail(c.tasks)
          /\ Range(d.pending) \subseteq Range(c.pending) \cup {Open}
  BY <1>2, <1>4, <1>7, <1>8 DEF ChannelStep
<1> HIDE DEF c, d
<1>11. /\ d.is_opened = FALSE /\ Range(d.pending) \subseteq {Open}
       /\ \A t \in Range(d.tasks) : t.kind \in {"open", "close"}
  <2>1. CASE d = c
    BY <1>2, <2>1
  <2>2. ASSUME d.is_opened = c.is_opened, d.pending = c.pending,
               NEW t, d.tasks = Append(c.tasks, t), t.kind \in {"open", "close"}
        PROVE /\ d.is_opened = FALSE /\ Range(d.pending) \subseteq {Open}
              /\ \A u \in Range(d.tasks) : u.kind \in {"open", "close"}
    <3>1. Range(Append(c.tasks, t)) \subseteq Range(c.tasks) \cup {t}
      BY <1>3, SeqChanges
    <3> QED
      BY <1>2, <2>2, <3>1
  <2>3. CASE /\ c.tasks # <<>> /\ d.is_opened = c.is_opened /\ d.tasks = Tail(c.tasks)
             /\ Range(d.pending) \subseteq Range(c.pending) \cup {Open}
    <3>1. Range(Tail(c.tasks)) \subseteq Range(c.tasks)
      BY <1>3, <2>3, SeqChanges
    <3> QED
      BY <1>2, <2>3, <3>1
  <2> QED
    BY <1>10, <2>1, <2>2, <2>3
<1> QED
  BY <1>6, <1>9, <1>11 DEF Opening, Unopened, d

\* A stream that p does not know, and on which nothing but OPEN of its owner comes, is not reset by p.
LEMMA NotReset ==
  ASSUME StrayInv, Next, NEW p \in Peers, NEW s \in Streams, s \notin close_posted[p],
         Sent(Other(p), s, {}) \/ (Sent(Other(p), s, {Open}) /\ Owner(s) = Other(p))
  PROVE s \notin close_posted'[p]
<1>1. Shaped /\ PostedStep(p)
  BY ChannelsSteps DEF StrayInv
<1> SUFFICES ASSUME s \in close_posted'[p] PROVE FALSE
  OBVIOUS
<1>2. MessageFor(p, s) /\ ~(Head(signaling[p]).m = Open /\ Owner(s) = Other(p))
  BY <1>1 DEF PostedStep
<1> QED
  BY <1>1, <1>2, HeadSent

\* Every step keeps the invariant of every stream.
LEMMA StreamStep ==
  ASSUME StrayInv, Next, NEW s \in Streams
  PROVE StreamInv(s)'
<1> DEFINE o == Owner(s)
           p == Other(o)
<1>1. o \in Peers /\ p \in Peers /\ Other(p) = o /\ o # p
  <2>1. "a" \in Peers
    BY DEF Peers
  <2> QED
    BY <2>1, OwnerIs, OtherPeer
<1>2. Shaped /\ StreamInv(s)
  BY DEF StrayInv
<1>3. /\ ~Known(p, s) => Silent(p, s) /\ Opening(o, s)
      /\ ~Known(o, s) => Silent(p, s) /\ Silent(o, s)
  BY <1>2 DEF StreamInv
<1>4. ASSUME NEW q \in Peers, ~Known(q, s)' PROVE ~Known(q, s) /\ s \notin data_channels'[q]
  BY <1>4, KnownStep DEF Known
<1> HIDE DEF p
<1>5. ASSUME ~Known(p, s)' PROVE Silent(p, s)' /\ Opening(o, s)'
  <2>1. Silent(p, s) /\ Opening(o, s) /\ s \notin data_channels'[p]
    BY <1>1, <1>3, <1>4, <1>5
  <2>2. s \notin close_posted[p] /\ Sent(o, s, {Open}) /\ Sent(p, s, {})
    BY <2>1 DEF Silent, Unopened, Opening
  <2>3. s \notin close_posted'[p]
    BY <1>1, <2>2, NotReset
  <2>4. Silent(p, s)'
    BY <1>1, <2>1, <2>3, SilentStep
  <2>5. Opening(o, s)'
    BY <1>1, <2>1, <2>2, OpeningStep DEF p
  <2> QED
    BY <2>4, <2>5
<1>6. ASSUME ~Known(o, s)' PROVE Silent(p, s)' /\ Silent(o, s)'
  <2>1. Silent(p, s) /\ Silent(o, s) /\ s \notin data_channels'[o]
    BY <1>1, <1>3, <1>4, <1>6
  <2>2. /\ s \notin close_posted[p] /\ s \notin close_posted[o] /\ Sent(o, s, {}) /\ Sent(p, s, {})
        /\ s \notin data_channels[p]
    BY <2>1 DEF Silent, Unopened
  <2>3. s \notin close_posted'[p] /\ s \notin close_posted'[o]
    BY <1>1, <2>2, NotReset DEF p
  <2>4. s \notin data_channels'[p]
    <3> SUFFICES ASSUME s \in data_channels'[p] PROVE FALSE
      OBVIOUS
    <3>1. ChannelsStep(p) /\ IsSeq(signaling[p])
      BY <1>1, <1>2, ChannelsSteps DEF Shaped
    <3> DEFINE e == Head(signaling[p])
    <3>2. signaling[p] # <<>> /\ e.s = s /\ (e.kind = "add" \/ e.kind = "message")
      BY <2>2, <3>1 DEF ChannelsStep
    <3>3. e \in Range(signaling[p])
      BY <3>1, <3>2, SeqChanges
    <3>4. CASE e.kind = "add"
      <4>1. Owner(e.s) = p
        BY <1>1, <1>2, <3>3, <3>4 DEF Shaped
      <4> QED
        BY <1>1, <3>2, <4>1
    <3>5. CASE e.kind = "message"
      <4>1. MessageFor(p, s)
        BY <3>2, <3>5 DEF MessageFor
      <4>2. Sent(Other(p), s, {})
        BY <1>1, <2>2
      <4> QED
        BY <1>1, <1>2, <4>1, <4>2, HeadSent
    <3> QED
      BY <3>2, <3>4, <3>5
  <2> QED
    BY <1>1, <2>1, <2>3, <2>4, SilentStep
<1> QED
  BY <1>5, <1>6 DEF StreamInv, p

\* Every step keeps the invariant.
LEMMA StrayStep ==
  ASSUME StrayInv, Next
  PROVE StrayInv'
<1>1. Shaped /\ (\A p \in Peers : DownLast(p)) /\ (\A s \in Streams : StreamInv(s)) /\ NoStrayMessages
  BY DEF StrayInv
<1>2. Shaped'
  BY <1>1, ShapedStep
<1>3. \A p \in Peers : DownLast(p)'
  BY <1>1, SignalingSteps, DownStep
<1>4. ASSUME NEW p \in Peers, NEW s \in close_posted'[p] PROVE s \in released'[p]
  <2>1. PostedStep(p) /\ DroppedStep(p) /\ close_posted[p] \subseteq released[p]
    BY <1>1, ChannelsSteps, DroppedSteps DEF NoStrayMessages
  <2>2. released[p] \subseteq released'[p]
    BY <2>1 DEF DroppedStep
  <2>3. CASE s \in close_posted[p]
    BY <2>1, <2>2, <2>3
  <2>4. CASE /\ MessageFor(p, s) /\ s \notin Alive(p) /\ s \in Streams
             /\ ~(Head(signaling[p]).m = Open /\ Owner(s) = Other(p))
    <3>1. Other(p) \in Peers /\ Other(Other(p)) = p /\ (Owner(s) = p \/ Owner(s) = Other(p))
      BY <2>4, OwnerIs, OtherPeer
    <3>2. StreamInv(s)
      BY <1>1, <2>4
    <3>3. Known(p, s)
      <4> SUFFICES ASSUME ~Known(p, s) PROVE FALSE
        OBVIOUS
      <4>1. CASE Owner(s) = p
        <5>1. Sent(Other(p), s, {})
          BY <3>2, <4>1 DEF StreamInv, Silent
        <5> QED
          BY <1>1, <2>4, <5>1, HeadSent
      <4>2. CASE Owner(s) = Other(p)
        <5>1. Sent(Other(p), s, {Open})
          BY <3>1, <3>2, <4>2 DEF StreamInv, Opening
        <5>2. Head(signaling[p]).m \in {Open}
          BY <1>1, <2>4, <5>1, HeadSent
        <5> QED
          BY <2>4, <4>2, <5>2
      <4> QED
        BY <3>1, <4>1, <4>2
    <3>4. ~Down(p)
      <4>1. signaling[p] # <<>> /\ Head(signaling[p]).kind = "message" /\ IsSeq(signaling[p])
        BY <1>1, <2>4 DEF MessageFor, Shaped
      <4>2. 1 \in DOMAIN signaling[p] /\ signaling[p][1].kind = "message"
        BY <4>1, QueueItems
      <4>3. Queued(signaling[p], "message")
        BY <4>2 DEF Queued
      <4> QED
        BY <1>1, <4>3 DEF DownLast
    <3>5. s \in data_channels[p]
      BY <3>3, <3>4 DEF Known
    <3> QED
      BY <2>2, <2>4, <3>5 DEF Alive
  <2> QED
    BY <1>4, <2>1, <2>3, <2>4 DEF PostedStep
<1>5. NoStrayMessages'
  BY <1>4 DEF NoStrayMessages
<1>6. \A s \in Streams : StreamInv(s)'
  BY StreamStep
<1> QED
  BY <1>2, <1>3, <1>5, <1>6 DEF StrayInv

\* Nothing changes.
LEMMA StrayStutter ==
  ASSUME StrayInv, UNCHANGED vars
  PROVE StrayInv'
<1>1. UNCHANGED <<signaling, data_channels, released, channel, state, partial, close_posted, socket, app_closed>>
  BY DEF vars, sctp, history
<1>2. Shaped'
  BY <1>1 DEF StrayInv, Shaped, Channels, IsFn
<1>3. ASSUME NEW p \in Peers PROVE DownLast(p)'
  BY <1>1 DEF StrayInv, DownLast, Down, Queued
<1>4. ASSUME NEW s \in Streams PROVE StreamInv(s)'
  <2>1. \A p \in Peers : Known(p, s)' <=> Known(p, s)
    BY <1>1 DEF Known, Down, Queued
  <2>2. \A p, M : Sent(p, s, M)' <=> Sent(p, s, M)
    BY <1>1 DEF Sent
  <2>3. \A p : Unopened(p, s)' <=> Unopened(p, s)
    BY <1>1 DEF Unopened
  <2>4. \A p : Silent(p, s)' <=> Silent(p, s)
    BY <1>1, <2>2, <2>3 DEF Silent
  <2>5. \A p : Opening(p, s)' <=> Opening(p, s)
    BY <1>1, <2>2, <2>3 DEF Opening
  <2>6. StreamInv(s)
    BY DEF StrayInv
  <2>7. Owner(s) \in Peers /\ Other(Owner(s)) \in Peers
    <3>1. "a" \in Peers
      BY DEF Peers
    <3> QED
      BY <3>1, OwnerIs, OtherPeer
  <2> QED
    BY <2>1, <2>4, <2>5, <2>6, <2>7 DEF StreamInv
<1>5. NoStrayMessages'
  BY <1>1 DEF StrayInv, NoStrayMessages
<1> QED
  BY <1>2, <1>3, <1>4, <1>5 DEF StrayInv

\* The peers start without channels, and silent.
LEMMA StrayInit ==
  ASSUME Init
  PROVE StrayInv
<1> DEFINE c == [is_opened |-> FALSE, transport |-> FALSE, tasks |-> <<>>, pending |-> <<>>]
<1>1. IsChannel(c) /\ c.is_opened = FALSE /\ c.tasks = <<>> /\ c.pending = <<>>
  BY DEF IsChannel, Fields
<1>2. channel = [p \in Peers |-> [s \in Streams |-> c]]
  BY DEF Init, PerChannel
<1> HIDE DEF c
<1>3. \A p \in Peers, s \in Streams : channel[p][s] = c
  BY <1>2
<1>4. Channels(channel)
  BY <1>1, <1>2 DEF Channels
<1>5. /\ IsFn(signaling) /\ IsFn(state) /\ IsFn(data_channels) /\ IsFn(released) /\ IsFn(app_closed)
      /\ IsFn(close_posted) /\ IsFn(socket) /\ IsFn(partial)
  BY DEF Init, PerPeer, IsFn
<1>6. \A p \in Peers : /\ signaling[p] = <<>> /\ state[p] = "connecting" /\ data_channels[p] = {} /\ released[p] = {}
                       /\ app_closed[p] = {} /\ close_posted[p] = {} /\ socket[p] = <<>> /\ partial[p] = {}
  BY DEF Init, PerPeer
<1>7. Range(<<>>) = {} /\ DOMAIN <<>> = {} /\ IsSeq(<<>>)
  BY EmptyHolds DEF Range
<1>8. Shaped
  BY <1>1, <1>3, <1>4, <1>5, <1>6, <1>7 DEF Shaped
<1>9. \A p \in Peers : DownLast(p)
  BY <1>6, <1>7 DEF DownLast, Down, Queued
<1>10. ASSUME NEW p \in Peers, NEW s \in Streams PROVE Silent(p, s)
  <2>1. Other(p) \in Peers
    BY OtherPeer
  <2>2. Sent(p, s, {})
    BY <1>6, <1>7, <2>1 DEF Sent
  <2>3. Unopened(p, s) /\ channel[p][s].tasks = <<>> /\ channel[p][s].pending = <<>> /\ s \notin data_channels[p]
    BY <1>1, <1>3, <1>6 DEF Unopened
  <2> QED
    BY <2>2, <2>3 DEF Silent
<1>11. ASSUME NEW p \in Peers, NEW s \in Streams PROVE Opening(p, s)
  <2>1. Silent(p, s)
    BY <1>10
  <2>2. Sent(p, s, {Open})
    BY <2>1 DEF Silent, Sent
  <2> QED
    BY <1>7, <2>1, <2>2 DEF Silent, Opening
<1>12. ASSUME NEW s \in Streams PROVE StreamInv(s)
  <2>1. Owner(s) \in Peers /\ Other(Owner(s)) \in Peers
    <3>1. "a" \in Peers
      BY DEF Peers
    <3> QED
      BY <3>1, OwnerIs, OtherPeer
  <2> QED
    BY <1>10, <1>11, <2>1 DEF StreamInv
<1>13. NoStrayMessages
  BY <1>6 DEF NoStrayMessages
<1> QED
  BY <1>8, <1>9, <1>12, <1>13 DEF StrayInv

\* A message for a stream without a channel, which has the stream reset under it
\* (OnSctpMessageReceived), arrives only after the application has dropped the channel.
THEOREM StrayOnlyWhenDropped == Spec => []NoStrayMessages
<1>1. StrayInv /\ [Next]_vars => StrayInv'
  BY StrayStep, StrayStutter
<1>2. StrayInv => NoStrayMessages
  BY DEF StrayInv
<1> QED
  BY <1>1, <1>2, StrayInit, PTL DEF Spec
=============================================================================

----------------------------- MODULE NackModule -----------------------------
(***************************************************************************)
(* NackModuleImpl (rtp/receiver/nack_module_impl.cpp) and the periodic task *)
(* of NackModule: which missing packets of a video stream are requested     *)
(* again, how often, and when the module gives up and asks for a keyframe.  *)
(*                                                                          *)
(* The module only sees sequence numbers modulo Mod.  The environment       *)
(* numbers the packets of the stream 0, 1, 2, ... and delivers them lost,   *)
(* reordered, duplicated or recovered; the history variables relate the     *)
(* module's lists to those true indexes.                                    *)
(***************************************************************************)
EXTENDS SeqNum, FiniteSets

CONSTANTS
    kMaxPacketAge,         \* 10000
    kMaxNackPacketCount,   \* 1000
    kMaxNackRetries,       \* 10
    SendNackDelay,         \* send_nack_delay_ms_
    Rtts,                  \* the values of UpdateRtt; the first one is kDefaultRttMs
    DefaultRtt,
    Starts,                \* indexes the stream may start at
    MaxIndex,              \* bound: largest packet index
    Jump,                  \* bound: how far ahead of or behind the newest a packet is
    MaxTime,               \* bound: the clock, in ms
    KeyFrames,             \* indexes of the first packets of keyframes
    ClearsAheadOfNewest    \* a frame that ends in a recovered packet newer than
                           \* newest_seq_num_ may become continuous

ASSUME NackConstants ==
    /\ {kMaxPacketAge, kMaxNackPacketCount, kMaxNackRetries, Jump, MaxIndex, MaxTime} \subseteq Nat
    /\ DefaultRtt \in Rtts
    /\ kMaxNackPacketCount < kMaxPacketAge
    /\ Jump + kMaxPacketAge < Mod \div 2
    /\ kMaxNackRetries >= 1

VARIABLES
    initialized, newest_seq_num, rtt_ms,
    nack_list,          \* missing sequence number -> NackInfo
    keyframe_list, recovered_list,
    now,
    top,                \* history: the index of newest_seq_num
    first,              \* history: the index of the first packet
    got,                \* history: indexes received or recovered
    excused,            \* history: missing indexes the module dropped on purpose
    cleared,            \* history: the largest index passed to ClearUpTo
    nacks               \* history: nacks[n] = times index n was requested

module == <<initialized, newest_seq_num, rtt_ms, nack_list, keyframe_list, recovered_list>>
vars == <<module, now, top, first, got, excused, cleared, nacks>>

Indexes == 0..MaxIndex
NotSent == -1
NackInfos == [created : 0..MaxTime, sent : (0..MaxTime) \cup {NotSent}, retries : 0..(kMaxNackRetries - 1)]

Init ==
    /\ initialized = FALSE
    /\ newest_seq_num = 0
    /\ rtt_ms = DefaultRtt
    /\ nack_list = <<>>
    /\ keyframe_list = {} /\ recovered_list = {}
    /\ now = 0
    /\ top = 0 /\ first = 0 /\ got = {} /\ excused = {} /\ cleared = 0
    /\ nacks = [n \in Indexes |-> 0]

\* The true index of a sequence number on the lists: the latest one not after n.
IndexOf(s, n) == n - ReverseDiff(Wrap(n), s)

Restricted(list, S) == [s \in S |-> list[s]]

-----------------------------------------------------------------------------
(* Mutants *)

\* A late packet is not taken off the list.
LateListKept(s) == nack_list

\* A gap starts after the first missing packet.
GapStartLate(s) == Wrap(s + 2)

\* The retry limit is checked before the increment.
ExhaustedLate(retries) == retries > kMaxNackRetries

-----------------------------------------------------------------------------
(* AddPacketsToNack *)

\* The late packet s leaves nack_list_.
LateList(s) == Restricted(nack_list, DOMAIN nack_list \ {s})

\* num new entries fit next to the entries S.
Fits(S, num) == Cardinality(S) + num <= kMaxNackPacketCount

GapStart(s) == Wrap(s + 1)

\* The missing packets of a gap, without those recovered by FEC or RTX.
NewNacks(start, num) == {Wrap(start + i) : i \in 0..(num - 1)} \ recovered_list

\* The RemovePacketsUntilKeyFrame loop goes through the keyframes, oldest first,
\* drops the entries older than the keyframe and stops at the first keyframe that
\* makes room; keyframes that were passed are dropped.
KeyFrameMakingRoom(list, keys, num) ==
    LET Making == {k \in keys : Fits(FromLowerBound(list, k), num)} IN
    IF Making = {} THEN {} ELSE {Oldest(Making)}

\* The entries that AddPacketsToNack keeps, the keyframes left, and whether it
\* succeeds, for `num` new entries before sequence number s.
MakeRoom(s, keys, num) ==
    LET young == FromLowerBound(DOMAIN nack_list, Wrap(s - kMaxPacketAge))
        K == KeyFrameMakingRoom(young, keys, num)
    IN IF Fits(young, num) THEN [list |-> young, keys |-> keys, ok |-> TRUE]
       ELSE IF K # {}
              THEN LET k == CHOOSE x \in K : TRUE
                   IN [list |-> FromLowerBound(young, k), keys |-> FromLowerBound(keys, k), ok |-> TRUE]
       ELSE [list |-> {}, keys |-> {}, ok |-> FALSE]

-----------------------------------------------------------------------------
(* NackListToSend *)

Exhausted(retries) == retries >= kMaxNackRetries

\* The TIME filter requests again what was requested at least an RTT ago.
TimeFilter(info) == info.sent # NotSent /\ now - info.sent >= rtt_ms

\* The SEQ_NUM filter requests what was never requested and is not after s.
SeqNumFilter(info, q, s) == info.sent = NotSent /\ AheadOrAt(s, q)

\* Request the entries `due` of `list`, the newest packet being n: count and stamp
\* them and drop the exhausted; `lost` are the indexes given up before.
Request(list, due, n, lost) ==
    LET stamped == [s \in DOMAIN list |->
                      IF s \in due THEN [list[s] EXCEPT !.retries = @ + 1, !.sent = now]
                                   ELSE list[s]]
        dropped == {s \in due : Exhausted(stamped[s].retries)}
    IN /\ nack_list' = Restricted(stamped, DOMAIN list \ dropped)
       /\ nacks' = [i \in Indexes |->
                      IF \E s \in due : IndexOf(s, n) = i THEN nacks[i] + 1 ELSE nacks[i]]
       /\ excused' = excused \cup lost \cup {IndexOf(s, n) : s \in dropped}

DelayPassed(info) == now - info.created >= SendNackDelay

-----------------------------------------------------------------------------
(* InsertPacket *)

\* What the receive path can deliver: a packet near the newest one, while frames
\* become continuous (ClearUpTo) at least once per half range of numbers.
MayArrive(n) ==
    /\ n >= top - Jump /\ n <= top + Jump
    /\ n >= first
    /\ n - cleared < Mod \div 2

InsertFirst(n) ==
    /\ ~initialized
    /\ n \in Starts
    /\ initialized' = TRUE
    /\ newest_seq_num' = Wrap(n)
    /\ keyframe_list' = IF n \in KeyFrames THEN {Wrap(n)} ELSE {}
    /\ top' = n /\ first' = n /\ got' = {n} /\ cleared' = n
    /\ UNCHANGED <<rtt_ms, nack_list, recovered_list, now, excused, nacks>>

\* A packet that is the newest one again, or older than it.
InsertLate(n) ==
    /\ initialized /\ MayArrive(n)
    /\ Wrap(n) = newest_seq_num \/ AheadOf(newest_seq_num, Wrap(n))
    /\ nack_list' = IF Wrap(n) = newest_seq_num THEN nack_list ELSE LateList(Wrap(n))
    /\ got' = got \cup {n}
    /\ UNCHANGED <<initialized, newest_seq_num, rtt_ms, keyframe_list, recovered_list,
                   now, top, first, excused, cleared, nacks>>

\* A newer packet joins the keyframes; keyframes that are too old leave.
KeyFramesAfter(n) ==
    FromLowerBound(keyframe_list \cup (IF n \in KeyFrames THEN {Wrap(n)} ELSE {}),
                   Wrap(n - kMaxPacketAge))

\* A newer packet recovered by FEC or RTX does not become the newest one.
InsertRecovered(n) ==
    /\ initialized /\ MayArrive(n)
    /\ AheadOf(Wrap(n), newest_seq_num)
    /\ keyframe_list' = KeyFramesAfter(n)
    /\ recovered_list' = FromLowerBound(recovered_list \cup {Wrap(n)}, Wrap(n - kMaxPacketAge))
    /\ got' = got \cup {n}
    /\ UNCHANGED <<initialized, newest_seq_num, rtt_ms, nack_list, now, top, first, excused,
                   cleared, nacks>>

\* A newer packet: the gap before it is added, and what may be requested is.
InsertNewer(n) ==
    /\ initialized /\ MayArrive(n)
    /\ AheadOf(Wrap(n), newest_seq_num)
    /\ LET s     == Wrap(n)
           start == GapStart(newest_seq_num)
           num   == ForwardDiff(start, s)
           room  == MakeRoom(s, KeyFramesAfter(n), num)
           new   == IF room.ok THEN NewNacks(start, num) ELSE {}
           list  == [q \in room.list \cup new |->
                       IF q \in new THEN [created |-> now, sent |-> NotSent, retries |-> 0]
                                    ELSE nack_list[q]]
           due   == {q \in DOMAIN list : DelayPassed(list[q]) /\ SeqNumFilter(list[q], q, s)}
           lost  == {IndexOf(q, top) : q \in DOMAIN nack_list \ room.list}
                      \cup (IF room.ok THEN {} ELSE (top + 1)..(n - 1))
       IN /\ keyframe_list' = room.keys
          /\ newest_seq_num' = s
          /\ Request(list, due, n, lost)
    /\ top' = n
    /\ got' = got \cup {n}
    /\ UNCHANGED <<initialized, rtt_ms, recovered_list, now, first, cleared>>

-----------------------------------------------------------------------------
(* The other operations *)

\* ClearUpTo, when the frame that ends in packet n has become continuous.
ClearUpTo(n) ==
    /\ initialized
    /\ n \in got /\ n > cleared
    /\ n <= top \/ ClearsAheadOfNewest
    /\ nack_list' = Restricted(nack_list, FromLowerBound(DOMAIN nack_list, Wrap(n)))
    /\ keyframe_list' = FromLowerBound(keyframe_list, Wrap(n))
    /\ recovered_list' = FromLowerBound(recovered_list, Wrap(n))
    /\ excused' = excused \cup first..(n - 1)
    /\ cleared' = n
    /\ UNCHANGED <<initialized, newest_seq_num, rtt_ms, now, top, first, got, nacks>>

UpdateRtt ==
    /\ rtt_ms' \in Rtts \ {rtt_ms}
    /\ UNCHANGED <<initialized, newest_seq_num, nack_list, keyframe_list, recovered_list,
                   now, top, first, got, excused, cleared, nacks>>

\* The repeating task: NackListOnRttPassed.
PeriodicUpdate ==
    /\ \E q \in DOMAIN nack_list : DelayPassed(nack_list[q]) /\ TimeFilter(nack_list[q])
    /\ Request(nack_list,
               {q \in DOMAIN nack_list : DelayPassed(nack_list[q]) /\ TimeFilter(nack_list[q])},
               top, {})
    /\ UNCHANGED <<initialized, newest_seq_num, rtt_ms, keyframe_list, recovered_list,
                   now, top, first, got, cleared>>

Tick ==
    /\ now < MaxTime
    /\ now' = now + 1
    /\ UNCHANGED <<module, top, first, got, excused, cleared, nacks>>

Next ==
    \/ \E n \in Indexes : \/ InsertFirst(n) \/ InsertLate(n)
                           \/ InsertRecovered(n) \/ InsertNewer(n) \/ ClearUpTo(n)
    \/ UpdateRtt
    \/ PeriodicUpdate
    \/ Tick

Spec == Init /\ [][Next]_vars

-----------------------------------------------------------------------------
(* Properties *)

\* The state is well typed; no entry that has used up its retries stays on the list.
TypeOK ==
    /\ initialized \in BOOLEAN
    /\ newest_seq_num \in SeqNums
    /\ rtt_ms \in Rtts
    /\ DOMAIN nack_list \subseteq SeqNums
    /\ \A s \in DOMAIN nack_list : nack_list[s] \in NackInfos
    /\ keyframe_list \subseteq SeqNums
    /\ recovered_list \subseteq SeqNums
    /\ now \in 0..MaxTime
    /\ {top, first, cleared} \subseteq Indexes
    /\ got \subseteq Indexes /\ excused \subseteq Int
    /\ nacks \in [Indexes -> Nat]

\* A packet that has arrived, late or recovered ("Don't send nack for packets
\* recovered by FEC or RTX"), is not on the list of packets to request again.
NoNackForReceived ==
    \A s \in DOMAIN nack_list : IndexOf(s, top) \notin got

\* Every packet between the first and the newest one has arrived, is still on the
\* list, or was dropped from it for a reason the module has: age, overflow,
\* retries, or ClearUpTo.
NoSilentLoss ==
    initialized =>
      \A n \in first..top : n \in got \/ n \in excused
                             \/ (Wrap(n) \in DOMAIN nack_list /\ IndexOf(Wrap(n), top) = n)

\* What the module asks for is bounded: the list never exceeds kMaxNackPacketCount,
\* whatever gap arrives, and no packet is requested more than kMaxNackRetries times over
\* its life, on the arrival path and on the timer path together.
NackBudget ==
    /\ Cardinality(DOMAIN nack_list) <= kMaxNackPacketCount
    /\ \A n \in Indexes : nacks[n] <= kMaxNackRetries
=============================================================================

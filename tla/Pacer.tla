-------------------------------- MODULE Pacer --------------------------------
(***************************************************************************)
(* PacingController driven by TaskQueuePacedSender: when the pacer wakes    *)
(* up, what it sends then, and how debts and the congestion window hold     *)
(* packets back.  Probing is disabled (SetProbingEnabled(false)) and large  *)
(* queues are not drained faster (drain_large_queue = false); the packet    *)
(* queue hands out padding, then audio, then video.                         *)
(*                                                                          *)
(* Everything runs on the pacer's task queue.  A posted closure runs to its *)
(* end: pc walks through MaybeProcessPackets and ProcessPackets, and only   *)
(* at pc = "idle" does the next closure or a timer start.  The media        *)
(* bitrate is one byte per ms.                                              *)
(***************************************************************************)
EXTENDS Integers, Sequences, SequencesExt, FiniteSetsExt

CONSTANTS
    Interval,        \* kCongestedPacketInterval = kPausedProcessInterval, in ms
    HoldBack,        \* the holdback window, in ms
    kMaxElapsedTime, \* in ms
    DebtCap,         \* media_bitrate_ * kMaxDebtInTime, in bytes
    PaddingRates,    \* values of padding_bitrate_: 0 or 1
    CanPad,          \* GeneratePadding returns a packet
    AudioSize, VideoSize, PaddingSize,
    account_for_audio, send_padding_if_silent,
    Windows,         \* congestion window sizes; 0 means none
    MaxChanges,      \* bound: calls of Pause, Resume and the setters
    MaxPackets,      \* bound: packets enqueued
    MaxTime          \* bound: the clock

ASSUME PacerConstants ==
    /\ Interval \in Nat /\ HoldBack \in Nat /\ HoldBack < Interval
    /\ PaddingRates \subseteq {0, 1} /\ CanPad \in BOOLEAN /\ account_for_audio \in BOOLEAN
    /\ send_padding_if_silent \in BOOLEAN
    /\ Windows \subseteq Nat

VARIABLES
    \* PacingController
    paused, media_debt, padding_debt, last_process_time, last_send_time,
    packet_counter, congestion_window_size, inflight_bytes, padding_bitrate,
    audio,           \* enqueue times of the audio packets in the queue
    video,           \* enqueue times of the video packets in the queue
    padding,         \* padding packets in the queue
    \* TaskQueuePacedSender
    is_started, next_scheduled_process_time,
    tasks,           \* delayed tasks in the order they were posted: [due, arg]
    \* the running closure
    pc, arg, prev_process_time, target_send_time,
    now,
    bucket,          \* history: bytes sent and not yet covered by time passed
    quiet_since,     \* history: when the pacer last sent, opened or closed
    changes          \* counter for the bound

controller == <<paused, media_debt, padding_debt, last_process_time, last_send_time,
                packet_counter, congestion_window_size, inflight_bytes, padding_bitrate>>
queue == <<audio, video, padding>>
sender == <<is_started, next_scheduled_process_time, tasks>>
locals == <<arg, prev_process_time, target_send_time>>
vars == <<controller, queue, sender, pc, locals, now, bucket, quiet_since, changes>>

MinusInfinity == -1

Init ==
    /\ paused = FALSE /\ media_debt = 0 /\ padding_debt = 0
    /\ last_process_time = 0 /\ last_send_time = 0
    /\ packet_counter = 0 /\ congestion_window_size = 0 /\ inflight_bytes = 0
    /\ padding_bitrate \in PaddingRates
    /\ audio = <<>> /\ video = <<>> /\ padding = 0
    /\ is_started = FALSE /\ next_scheduled_process_time = MinusInfinity /\ tasks = <<>>
    /\ pc = "idle" /\ arg = MinusInfinity /\ prev_process_time = 0 /\ target_send_time = 0
    /\ now = 0 /\ bucket = 0 /\ quiet_since = 0 /\ changes = 0

Monus(a, b) == IF a > b THEN a - b ELSE 0
Empty == audio = <<>> /\ video = <<>> /\ padding = 0
CongestedBy(window, inflight) == window > 0 /\ inflight >= window
IsCongested == CongestedBy(congestion_window_size, inflight_bytes)
LeadingAudio == padding = 0 /\ audio # <<>>

-----------------------------------------------------------------------------
(* Time and debt *)

NextSendTime ==
    LET heartbeat == last_send_time + Interval
        Drain == IF padding_bitrate = 0 THEN media_debt ELSE Max({media_debt, padding_debt})
    IN IF paused THEN heartbeat
       ELSE IF LeadingAudio THEN Head(audio)
       ELSE IF IsCongested \/ packet_counter = 0 THEN heartbeat
       ELSE IF ~Empty THEN Min({heartbeat, last_process_time + media_debt})
       ELSE IF padding_bitrate > 0 THEN Min({heartbeat, last_process_time + Drain})
       ELSE (IF send_padding_if_silent THEN last_send_time ELSE last_process_time) + Interval

\* ReduceDebt
MediaDebtAfter(elapsed) == Monus(media_debt, elapsed)
PaddingDebtAfter(elapsed) == Monus(padding_debt, padding_bitrate * elapsed)

\* UpdateProcessTime and the ReduceDebt that follows it.
AdvanceProcessTime(at) ==
    LET elapsed == IF at < last_process_time THEN 0 ELSE Min({at - last_process_time, kMaxElapsedTime})
    IN /\ last_process_time' = Max({at, last_process_time})
       /\ media_debt' = MediaDebtAfter(elapsed)
       /\ padding_debt' = PaddingDebtAfter(elapsed)

\* Mutant: no heartbeat in congestion.
HeartbeatNotCongested ==
    (send_padding_if_silent \/ paused \/ packet_counter = 0) /\ now - last_send_time >= Interval

IsTimeToSendHeartbeat ==
    /\ send_padding_if_silent \/ paused \/ IsCongested \/ packet_counter = 0
    /\ now - last_send_time >= Interval

\* Who uses the budget: audio only if it is accounted for.
Accounted(kind) == kind # "audio" \/ account_for_audio
Size(kind) == CASE kind = "audio" -> AudioSize [] kind = "video" -> VideoSize [] OTHER -> PaddingSize

\* AddDebt, on the debts as they are after the time up to the send is paid.
AddDebt(bytes) ==
    /\ inflight_bytes' = inflight_bytes + bytes
    /\ media_debt' = Min({media_debt + bytes, DebtCap})
    /\ padding_debt' = Min({padding_debt + bytes, padding_bitrate * DebtCap})
    /\ bucket' = bucket + bytes

-----------------------------------------------------------------------------
(* The closures posted to the pacer's queue.  All but Pause end in           *)
(* RescheduleProcess.                                                        *)

Reschedule == pc' = "maybe" /\ arg' = MinusInfinity /\ UNCHANGED <<prev_process_time, target_send_time>>

EnsureStarted ==
    /\ pc = "idle" /\ ~is_started
    /\ is_started' = TRUE
    /\ Reschedule
    /\ UNCHANGED <<controller, queue, next_scheduled_process_time, tasks, now, bucket>>

Pause ==
    /\ pc = "idle" /\ ~paused
    /\ paused' = TRUE
    /\ UNCHANGED <<media_debt, padding_debt, last_process_time, last_send_time, packet_counter,
                   congestion_window_size, inflight_bytes, queue, padding_bitrate, sender, pc, locals, now, bucket>>

Resume ==
    /\ pc = "idle" /\ paused
    /\ paused' = FALSE
    /\ Reschedule
    /\ UNCHANGED <<media_debt, padding_debt, last_process_time, last_send_time, packet_counter,
                   congestion_window_size, inflight_bytes, queue, padding_bitrate, sender, now, bucket>>

\* Leaving congestion accounts for the time that has passed.
CongestionChange(window, inflight) ==
    /\ congestion_window_size' = window
    /\ inflight_bytes' = inflight
    /\ IF IsCongested /\ ~CongestedBy(window, inflight)
       THEN AdvanceProcessTime(now)
       ELSE UNCHANGED <<media_debt, padding_debt, last_process_time>>
    /\ Reschedule
    /\ UNCHANGED <<paused, last_send_time, packet_counter, queue, padding_bitrate, sender, now, bucket>>

SetCongestionWindow ==
    /\ pc = "idle"
    /\ \E window \in Windows \ {congestion_window_size} : CongestionChange(window, inflight_bytes)

\* Feedback: some of what was in flight has arrived or is given up.
OnInflightBytes ==
    /\ pc = "idle" /\ Windows # {0}
    /\ \E inflight \in {0, inflight_bytes \div 2} :
          inflight < inflight_bytes /\ CongestionChange(congestion_window_size, inflight)

SetPacingBitrates ==
    /\ pc = "idle"
    /\ padding_bitrate' \in PaddingRates \ {padding_bitrate}
    /\ Reschedule
    /\ UNCHANGED <<paused, media_debt, padding_debt, last_process_time, last_send_time, packet_counter,
                   congestion_window_size, inflight_bytes, queue, sender, now, bucket>>

\* EnqueuePacketInternal: the first packet after silence moves the process
\* time to the planned send time or to now, forwards or backwards.
FastForward ==
    IF ~Empty THEN UNCHANGED <<media_debt, padding_debt, last_process_time>>
    ELSE LET target == Min({now, NextSendTime})
         IN IF target > last_process_time THEN AdvanceProcessTime(target)
            ELSE last_process_time' = target /\ UNCHANGED <<media_debt, padding_debt>>

EnqueuePackets(kind) ==
    /\ pc = "idle" /\ packet_counter < MaxPackets
    /\ FastForward
    /\ audio' = IF kind = "audio" THEN Append(audio, now) ELSE audio
    /\ video' = IF kind = "video" THEN Append(video, now) ELSE video
    /\ packet_counter' = packet_counter + 1
    /\ Reschedule
    /\ UNCHANGED <<paused, last_send_time, congestion_window_size, inflight_bytes, padding,
                   padding_bitrate, sender, now, bucket>>

-----------------------------------------------------------------------------
(* MaybeProcessPackets *)

IsNextTask(i) ==
    \A j \in DOMAIN tasks : tasks[i].due < tasks[j].due \/ (tasks[i].due = tasks[j].due /\ i <= j)

\* The earliest delayed task is due.
RunTask ==
    /\ pc = "idle"
    /\ \E i \in DOMAIN tasks :
          /\ tasks[i].due <= now /\ IsNextTask(i)
          /\ arg' = tasks[i].arg
          /\ tasks' = RemoveAt(tasks, i)
    /\ pc' = "maybe"
    /\ UNCHANGED <<controller, queue, is_started, next_scheduled_process_time,
                   prev_process_time, target_send_time, now, bucket>>

\* A call nobody scheduled runs when it is time and no earlier wakeup is due.
ProcessUnscheduled(next) ==
    now >= next /\ (next_scheduled_process_time = MinusInfinity \/ next < next_scheduled_process_time)

MaybeProcessPackets ==
    /\ pc = "maybe"
    /\ LET scheduled == next_scheduled_process_time = arg
       IN IF ~is_started THEN pc' = "idle" /\ UNCHANGED next_scheduled_process_time
          ELSE /\ next_scheduled_process_time' =
                      IF scheduled THEN MinusInfinity ELSE next_scheduled_process_time
               /\ pc' = IF scheduled \/ ProcessUnscheduled(NextSendTime) THEN "process" ELSE "schedule"
    /\ UNCHANGED <<controller, queue, is_started, tasks, locals, now, bucket>>

\* Mutant: an earlier send time never moves the wakeup.
NeedsWakeupOnlyIfNone(next) == next_scheduled_process_time = MinusInfinity
NeedsWakeup(next) ==
    \/ next_scheduled_process_time = MinusInfinity
    \/ next <= next_scheduled_process_time - HoldBack

Schedule ==
    /\ pc = "schedule"
    /\ LET next == NextSendTime
       IN IF NeedsWakeup(next)
          THEN /\ next_scheduled_process_time' = next
               /\ tasks' = Append(tasks, [due |-> now + Max({next - now, HoldBack}), arg |-> next])
          ELSE UNCHANGED <<next_scheduled_process_time, tasks>>
    /\ pc' = "idle" /\ arg' = MinusInfinity /\ prev_process_time' = 0 /\ target_send_time' = 0
    /\ UNCHANGED <<controller, queue, is_started, now, bucket>>

-----------------------------------------------------------------------------
(* ProcessPackets *)

\* Too early: only account for the time that has passed.
ProcessTooEarly ==
    /\ pc = "process" /\ now < NextSendTime
    /\ AdvanceProcessTime(now)
    /\ pc' = "schedule"
    /\ UNCHANGED <<paused, last_send_time, packet_counter, congestion_window_size, inflight_bytes,
                   queue, padding_bitrate, sender, locals, now, bucket>>

ProcessStart ==
    /\ pc = "process" /\ now >= NextSendTime
    /\ LET overrun == Monus(last_process_time, NextSendTime)
       IN media_debt' = MediaDebtAfter(overrun) /\ padding_debt' = PaddingDebtAfter(overrun)
    /\ target_send_time' = Max({NextSendTime, last_process_time})
    /\ prev_process_time' = last_process_time
    /\ last_process_time' = now
    /\ pc' = "heartbeat"
    /\ UNCHANGED <<paused, last_send_time, packet_counter, congestion_window_size, inflight_bytes,
                   queue, padding_bitrate, sender, arg, now, bucket>>

\* The heartbeat, OnPaddingSent, and the return when paused.
SendHeartbeat ==
    /\ pc = "heartbeat"
    /\ IF IsTimeToSendHeartbeat
       THEN /\ last_send_time' = now
            /\ IF packet_counter > 0 /\ CanPad THEN AddDebt(PaddingSize)
               ELSE UNCHANGED <<inflight_bytes, media_debt, padding_debt, bucket>>
       ELSE UNCHANGED <<last_send_time, inflight_bytes, media_debt, padding_debt, bucket>>
    /\ pc' = IF paused THEN "schedule" ELSE "loop"
    /\ UNCHANGED <<paused, last_process_time, packet_counter, congestion_window_size,
                   queue, padding_bitrate, sender, locals, now>>

\* The time up to the next target pays for debt.
PayUpToTarget ==
    /\ pc = "loop"
    /\ LET elapsed == Monus(target_send_time, prev_process_time)
       IN media_debt' = MediaDebtAfter(elapsed) /\ padding_debt' = PaddingDebtAfter(elapsed)
    /\ prev_process_time' = Max({prev_process_time, target_send_time})
    /\ pc' = "send"
    /\ UNCHANGED <<paused, last_process_time, last_send_time, packet_counter, congestion_window_size,
                   inflight_bytes, queue, padding_bitrate, sender, arg, target_send_time, now, bucket>>

\* Mutants: audio waits for the window and the debt too; nothing waits for the debt.
MaySendPacedAudio ==
    ~Empty /\ ~IsCongested /\ (now <= target_send_time => now + media_debt <= target_send_time)
MaySendIgnoringDebt == ~Empty /\ (LeadingAudio \/ ~IsCongested)

\* NextPacketToSend: audio passes; the rest waits for the window, and for the
\* debt unless the call is late.
MaySend ==
    /\ ~Empty
    /\ \/ LeadingAudio
       \/ ~IsCongested /\ (now <= target_send_time => now + media_debt <= target_send_time)

Leading == IF padding > 0 THEN "padding" ELSE IF audio # <<>> THEN "audio" ELSE "video"

\* Pop, SendPacket and OnMediaSent.
SendPacket ==
    /\ pc = "send" /\ MaySend
    /\ padding' = IF Leading = "padding" THEN padding - 1 ELSE padding
    /\ audio' = IF Leading = "audio" THEN Tail(audio) ELSE audio
    /\ video' = IF Leading = "video" THEN Tail(video) ELSE video
    /\ IF Accounted(Leading) THEN AddDebt(Size(Leading))
       ELSE UNCHANGED <<inflight_bytes, media_debt, padding_debt, bucket>>
    /\ last_send_time' = target_send_time
    /\ last_process_time' = target_send_time
    /\ pc' = "retarget"
    /\ UNCHANGED <<paused, packet_counter, congestion_window_size, padding_bitrate, sender, locals, now>>

Retarget ==
    /\ pc = "retarget"
    /\ target_send_time' = Min({now, NextSendTime})
    /\ pc' = "loop"
    /\ UNCHANGED <<controller, queue, sender, arg, prev_process_time, now, bucket>>

\* PaddingSizeToAdd > 0
NeedsPadding ==
    /\ Empty /\ ~IsCongested /\ packet_counter > 0
    /\ padding_bitrate > 0 /\ padding_debt = 0

AddPadding ==
    /\ pc = "send" /\ ~MaySend /\ NeedsPadding /\ CanPad
    /\ FastForward
    /\ padding' = padding + 1
    /\ packet_counter' = packet_counter + 1
    /\ pc' = "loop"
    /\ UNCHANGED <<paused, last_send_time, congestion_window_size, inflight_bytes, audio, video,
                   padding_bitrate, sender, locals, now, bucket>>

ProcessEnd ==
    /\ pc = "send" /\ ~MaySend /\ ~(NeedsPadding /\ CanPad)
    /\ last_process_time' = Max({last_process_time, prev_process_time})
    /\ pc' = "schedule"
    /\ UNCHANGED <<paused, media_debt, padding_debt, last_send_time, packet_counter,
                   congestion_window_size, inflight_bytes, queue, padding_bitrate, sender, locals, now, bucket>>

ProcessPackets ==
    \/ ProcessTooEarly \/ ProcessStart \/ SendHeartbeat \/ PayUpToTarget
    \/ SendPacket \/ Retarget \/ AddPadding \/ ProcessEnd

-----------------------------------------------------------------------------
Open == is_started /\ ~paused /\ ~IsCongested

(* Time passes between closures; a due timer runs first.  The bucket leaks   *)
(* one byte per ms; time in which the pacer may not send counts as budget    *)
(* for later, time in which it may but has nothing to send does not.         *)
Tick ==
    /\ pc = "idle" /\ now < MaxTime
    /\ \A i \in DOMAIN tasks : tasks[i].due > now
    /\ now' = now + 1
    /\ bucket' = IF Open THEN Max({bucket - 1, Min({bucket, 0})}) ELSE bucket - 1
    /\ UNCHANGED <<controller, queue, sender, pc, locals>>

Emits ==
    \/ pc = "send" /\ MaySend
    \/ pc = "heartbeat" /\ IsTimeToSendHeartbeat

Next ==
    /\ \/ /\ Pause \/ Resume \/ SetCongestionWindow \/ SetPacingBitrates
          /\ changes < MaxChanges /\ changes' = changes + 1
       \/ /\ \/ EnsureStarted \/ OnInflightBytes
             \/ \E kind \in {"audio", "video"} : EnqueuePackets(kind)
             \/ RunTask \/ MaybeProcessPackets \/ Schedule \/ ProcessPackets \/ Tick
          /\ UNCHANGED changes
    /\ quiet_since' = IF Emits \/ Open' # Open THEN now ELSE quiet_since

Spec == Init /\ [][Next]_vars

-----------------------------------------------------------------------------
(* Properties *)

TypeOK ==
    /\ paused \in BOOLEAN /\ is_started \in BOOLEAN
    /\ media_debt \in 0..DebtCap /\ padding_debt \in 0..DebtCap
    /\ last_process_time \in 0..now /\ last_send_time \in 0..now
    /\ packet_counter \in Nat /\ congestion_window_size \in Windows /\ inflight_bytes \in Nat
    /\ padding_bitrate \in PaddingRates
    /\ audio \in Seq(0..now) /\ video \in Seq(0..now) /\ padding \in 0..1
    /\ next_scheduled_process_time \in {MinusInfinity} \cup Nat
    /\ tasks \in Seq([due : Nat, arg : Nat])
    /\ pc \in {"idle", "maybe", "process", "heartbeat", "loop", "send", "retarget", "schedule"}
    /\ now \in 0..MaxTime /\ changes \in 0..MaxChanges /\ bucket \in Int /\ quiet_since \in 0..now

AtRest == pc = "idle" /\ is_started

\* Between closures of a running pacer that is not paused, a wakeup is
\* scheduled, at most one holdback window after the next packet may go.
WakesInTime ==
    AtRest /\ ~paused =>
        \E i \in DOMAIN tasks :
            /\ tasks[i].arg = next_scheduled_process_time
            /\ tasks[i].due <= Max({now, NextSendTime}) + HoldBack

\* Audio leaves within one holdback window of its enqueueing (or of Resume),
\* whatever the congestion window and the debt say.
AudioPrompt ==
    AtRest /\ ~paused /\ LeadingAudio => now <= Max({Head(audio), quiet_since}) + HoldBack

\* The pacer is never silent for longer than an interval: while it may send and has
\* media, that goes out, and paused or congested it still sends a heartbeat, so that
\* feedback keeps coming back.
NeverSilent ==
    AtRest =>
        IF Open
        THEN \A enqueued \in Range(audio) \cup Range(video) :
                 now <= Max({enqueued, quiet_since}) + Interval + HoldBack
        ELSE packet_counter > 0 => now <= quiet_since + Interval + HoldBack

\* What has been sent is never ahead of the bitrate by more than the largest
\* packet, the holdback window that a call may be late, and the heartbeats.
PacedRate == bucket <= VideoSize + HoldBack + PaddingSize
=============================================================================

---------------------------- MODULE FrameBuffer -----------------------------
(***************************************************************************)
(* FrameBuffer (rtp/receiver/video/jitter/frame_buffer*.cpp) with its      *)
(* DecodedFramesHistory and the RepeatingTask it waits with.  Frames come  *)
(* in any order on the receiving thread; the decoder asks for the next one *)
(* on the decode queue and is answered by a delayed task, which a new      *)
(* continuous frame restarts.  A step is one closure of the decode queue   *)
(* or one call under lock_.  How long a frame waits for its render time is *)
(* Timing's choice (external).  NextFrame is a closure of its own: called  *)
(* from inside the callback it would fail the assertion on decode_task_.   *)
(***************************************************************************)
EXTENDS Integers, Sequences, FiniteSets

CONSTANTS
    Stream,         \* the frames that may arrive: [id, ts, key, refs]
    MaxBuffered,    \* kMaxFramesBuffered
    Window,         \* kMaxFramesHistory
    ClearsInWait,   \* may the buffer be cleared while the decoder waits for a frame?
    MaxWait,        \* the decoder's max_wait_time_ms
    MaxTime,        \* bound on the clock
    MaxFrames       \* bound on arrivals

ASSUME FrameBufferAssumption ==
    /\ Window \in Nat \ {0} /\ MaxWait \in Nat \ {0}
    /\ Stream \subseteq [id : Nat, ts : Nat, key : BOOLEAN, refs : SUBSET Nat]
    /\ \A f \in Stream : IsFiniteSet(f.refs)

VARIABLES
    infos,          \* frame_infos_: from ids to what FrameInfo holds
    continuous,     \* last_continuous_frame_id_, or None
    history,        \* decoded_frames_history_
    next,           \* the id frame_to_decode_ points to, or None
    waiting,        \* NextFrame's arguments while its callback is pending
    task,           \* decode_task_
    queue,          \* closures posted to the decode queue
    now,
    arrived,        \* number of frames that have come
    decoded         \* history: the frames given to the decoder since the last clearing

vars == <<infos, continuous, history, next, waiting, task, queue, now, arrived, decoded>>

None == -1
NoFrame == [id |-> None, ts |-> 0, key |-> FALSE, refs |-> {}]
NoTask == [alive |-> FALSE, due |-> None]
NoWait == [pending |-> FALSE, deadline |-> 0, keyframe |-> FALSE]

EmptyHistory == [last |-> None, ts |-> 0, buffer |-> [i \in 0..Window - 1 |-> FALSE]]
EmptyInfo == [frame |-> NoFrame, missing_continuous |-> 0, missing_decodable |-> 0, dependents |-> <<>>]

Init ==
    /\ infos = <<>> /\ continuous = None /\ history = EmptyHistory /\ next = None
    /\ waiting = NoWait /\ task = NoTask /\ queue = <<>>
    /\ now = 0 /\ arrived = 0 /\ decoded = <<>>

-----------------------------------------------------------------------------
(* DecodedFramesHistory: a ring of Window flags behind the last frame.      *)

Index(id) == id % Window

\* Mutant: the flags of the frames that were skipped keep their old values.
KeepsSkipped(h, f) ==
    [last |-> f.id, ts |-> f.ts, buffer |-> [h.buffer EXCEPT ![Index(f.id)] = TRUE]]

\* InsertFrame clears the flags of the ids between the last frame and the new one.
HistoryInsert(h, f) ==
    LET from == Index(h.last)
        to == Index(f.id)
        skipped == IF h.last = None THEN {}
                   ELSE IF f.id - h.last >= Window THEN 0..Window - 1
                   ELSE IF to > from THEN from + 1..to - 1
                   ELSE (from + 1..Window - 1) \cup 0..to - 1
    IN  [last |-> f.id, ts |-> f.ts,
         buffer |-> [i \in 0..Window - 1 |-> i = to \/ (h.buffer[i] /\ i \notin skipped)]]

WasDecoded(h, id) ==
    h.last # None /\ id > h.last - Window /\ id <= h.last /\ h.buffer[Index(id)]

-----------------------------------------------------------------------------
(* InsertFrame.  The handler works on a record of the members it changes.   *)

Buffer == [infos |-> infos, continuous |-> continuous, history |-> history, next |-> next]
Cleared == [infos |-> <<>>, continuous |-> None, history |-> EmptyHistory, next |-> None]

Has(b, id) == id \in DOMAIN b.infos
Put(b, id, info) ==
    [b EXCEPT !.infos = [i \in DOMAIN b.infos \cup {id} |-> IF i = id THEN info ELSE b.infos[i]]]
Entry(b, id) == IF Has(b, id) THEN b.infos[id] ELSE EmptyInfo

ValidReferences(f) == IF f.key THEN f.refs = {} ELSE \A r \in f.refs : r < f.id

\* The references of f that are not decoded, and those of them that can never be.
Unfulfilled(b, f) == {r \in f.refs : b.history.last = None \/ r > b.history.last}
Undecodable(b, f) == {r \in f.refs \ Unfulfilled(b, f) : ~WasDecoded(b.history, r)}

\* EmplaceFrameInfo: a new entry for f and, where a reference has none, an empty one.
\* An empty entry counts as continuous for the frames that refer to it afterwards.
EmplaceFrameInfo(b, f) ==
    LET refs == Unfulfilled(b, f)
        waits == {r \in refs : ~(Has(b, r) /\ b.infos[r].missing_continuous = 0)}
        info == [Entry(b, f.id) EXCEPT !.frame = f, !.missing_continuous = Cardinality(waits),
                                       !.missing_decodable = Cardinality(refs)]
        all == DOMAIN b.infos \cup refs \cup {f.id}
    IN  [b EXCEPT !.infos = [i \in all |->
            IF i = f.id THEN info
            ELSE IF i \in refs THEN [Entry(b, i) EXCEPT !.dependents = Append(@, f.id)]
            ELSE b.infos[i]]]

\* PropagateContinuity from frame id: a breadth-first walk over the dependents.  The
\* counters are unsigned: one that drops below zero is no longer zero.
Visit(s) ==
    LET id == Head(s.todo)
        deps == SelectSeq(s.b.infos[id].dependents, LAMBDA d : Has(s.b, d))
        down == [i \in DOMAIN s.b.infos |->
                    IF \E k \in 1..Len(deps) : deps[k] = i
                    THEN [s.b.infos[i] EXCEPT !.missing_continuous = @ - 1] ELSE s.b.infos[i]]
        become == SelectSeq(deps, LAMBDA d : down[d].missing_continuous = 0)
    IN  [b |-> [s.b EXCEPT !.infos = down,
                    !.continuous = IF @ < s.b.infos[id].frame.id THEN s.b.infos[id].frame.id ELSE @],
         todo |-> Tail(s.todo) \o become]

PropagateContinuity(b, id) ==
    LET steps == Cardinality(DOMAIN b.infos)
        walk[n \in 0..steps] ==
            IF n = 0 THEN [b |-> b, todo |-> <<id>>]
            ELSE IF walk[n - 1].todo = <<>> THEN walk[n - 1] ELSE Visit(walk[n - 1])
    IN  walk[steps].b

\* A key frame clears the buffer when it is full, or when its id jumps back.
Full == Cardinality(DOMAIN infos) >= MaxBuffered
Old(f) == history.last # None /\ f.id <= history.last
Clears(f) == ValidReferences(f) /\ f.key /\ (Full \/ (Old(f) /\ f.ts > history.ts))

\* The buffer after a frame is inserted, and whether it was continuous.
Inserted(f) ==
    LET b == IF Clears(f) THEN Cleared ELSE Buffer
        e == EmplaceFrameInfo(b, f)
    IN  IF ~ValidReferences(f) \/ (~Clears(f) /\ (Full \/ Old(f)))
        THEN [b |-> Buffer, continuous |-> FALSE]
        ELSE IF Has(b, f.id) /\ b.infos[f.id].frame # NoFrame THEN [b |-> b, continuous |-> FALSE]
        ELSE IF Undecodable(b, f) # {} THEN [b |-> Put(b, f.id, Entry(b, f.id)), continuous |-> FALSE]
        ELSE IF e.infos[f.id].missing_continuous = 0
             THEN [b |-> PropagateContinuity(e, f.id), continuous |-> TRUE]
        ELSE [b |-> e, continuous |-> FALSE]

Becomes(b) ==
    /\ infos' = b.infos /\ continuous' = b.continuous
    /\ history' = b.history /\ next' = b.next

InsertFrame ==
    \E f \in Stream :
        /\ arrived < MaxFrames /\ arrived' = arrived + 1
        /\ Clears(f) => ClearsInWait \/ ~waiting.pending
        /\ Becomes(Inserted(f).b)
        /\ queue' = IF Inserted(f).continuous THEN Append(queue, [op |-> "restart"]) ELSE queue
        /\ decoded' = IF Clears(f) THEN <<>> ELSE decoded
        /\ UNCHANGED <<waiting, task, now>>

Clear ==
    /\ ClearsInWait \/ ~waiting.pending
    /\ Becomes(Cleared) /\ decoded' = <<>>
    /\ UNCHANGED <<waiting, task, queue, now, arrived>>

-----------------------------------------------------------------------------
(* The decode queue.                                                        *)

\* The frames FindNextFrameToDecode considers.
Decodable(id, keyframe) ==
    /\ id <= continuous /\ infos[id].frame # NoFrame
    /\ infos[id].missing_continuous = 0 /\ infos[id].missing_decodable = 0
    /\ keyframe => infos[id].frame.key
    /\ history.last # None => history.ts <= infos[id].frame.ts

\* FindNextFrameToDecode chooses the first of them that is not late, or else the last, and
\* the time to wait for it, at most until the deadline: which one and how long is up to
\* the render times.
FindNextFrameToDecode(w) ==
    LET found == {id \in DOMAIN infos : Decodable(id, w.keyframe)}
        left == IF w.deadline > now THEN w.deadline - now ELSE 0
    IN  IF found = {} THEN {[id |-> None, wait |-> left]}
        ELSE [id : found, wait : 0..left]

\* A task that is stopped leaves its first closure on the queue, where it does nothing.
Stopped(q) == [k \in DOMAIN q |-> IF q[k].op = "start" THEN [op |-> "stopped"] ELSE q[k]]

\* StartWaitForNextFrameToDecode: the new task replaces the one that was stopped; its first
\* closure goes to the end of the queue.
StartWaitForNextFrameToDecode(w, q) ==
    \E found \in FindNextFrameToDecode(w) :
        /\ next' = found.id
        /\ task' = [alive |-> TRUE, due |-> None]
        /\ queue' = Append(Stopped(q), [op |-> "start", delay |-> found.wait])

NextFrame ==
    \E keyframe \in BOOLEAN :
        /\ ~waiting.pending /\ ~task.alive /\ now + MaxWait <= MaxTime
        /\ waiting' = [pending |-> TRUE, deadline |-> now + MaxWait, keyframe |-> keyframe]
        /\ StartWaitForNextFrameToDecode(waiting', queue)
        /\ UNCHANGED <<infos, continuous, history, now, arrived, decoded>>

\* The closure that InsertFrame posts.
Restart ==
    /\ queue # <<>> /\ Head(queue).op = "restart"
    /\ IF task.alive THEN StartWaitForNextFrameToDecode(waiting, Tail(queue))
       ELSE queue' = Tail(queue) /\ UNCHANGED <<next, task>>
    /\ UNCHANGED <<infos, continuous, history, waiting, now, arrived, decoded>>

\* PropagateDecodability and the rest of GetNextFrameToDecode: everything up to the frame
\* leaves the buffer.
GetNextFrameToDecode ==
    LET info == infos[next]
        depends(i) == \E k \in DOMAIN info.dependents : info.dependents[k] = i
    IN  /\ infos' = [i \in {j \in DOMAIN infos : j > next} |->
                IF depends(i) /\ infos[i].missing_decodable > 0
                THEN [infos[i] EXCEPT !.missing_decodable = @ - 1] ELSE infos[i]]
        /\ history' = HistoryInsert(history, info.frame)
        /\ decoded' = Append(decoded, info.frame)

\* Mutant: at the deadline itself the task looks once more, with no time left to wait.
LooksAgainAtDeadline ==
    IF next # None \/ now > waiting.deadline
    THEN /\ IF next = None THEN UNCHANGED <<infos, history, decoded>> ELSE GetNextFrameToDecode
         /\ waiting' = NoWait /\ task' = NoTask /\ UNCHANGED next
    ELSE /\ \E found \in FindNextFrameToDecode(waiting) :
                /\ next' = found.id
                /\ task' = IF found.wait > 0 THEN [alive |-> TRUE, due |-> now + found.wait] ELSE NoTask
         /\ UNCHANGED <<infos, history, waiting, decoded>>

\* The task's closure: it delivers the frame it waited for, waits again, or reports a
\* timeout.  RepeatingTask stops when the closure returns no positive delay.
ExecuteTask ==
    IF next # None \/ now >= waiting.deadline
    THEN /\ IF next = None THEN UNCHANGED <<infos, history, decoded>> ELSE GetNextFrameToDecode
         /\ waiting' = NoWait /\ task' = NoTask /\ UNCHANGED next
    ELSE /\ \E found \in FindNextFrameToDecode(waiting) :
                /\ next' = found.id
                /\ task' = IF found.wait > 0 THEN [alive |-> TRUE, due |-> now + found.wait] ELSE NoTask
         /\ UNCHANGED <<infos, history, waiting, decoded>>

\* RepeatingTask::Start's closure runs the task or schedules it.
StartTask ==
    /\ queue # <<>> /\ Head(queue).op = "start" /\ queue' = Tail(queue)
    /\ IF Head(queue).delay <= 0 THEN ExecuteTask
       ELSE /\ task' = [task EXCEPT !.due = now + Head(queue).delay]
            /\ UNCHANGED <<infos, history, next, waiting, decoded>>
    /\ UNCHANGED <<continuous, now, arrived>>

\* The closure of a task that was stopped: its safety flag is not alive.
StoppedTask ==
    /\ queue # <<>> /\ Head(queue).op = "stopped" /\ queue' = Tail(queue)
    /\ UNCHANGED <<infos, continuous, history, next, waiting, task, now, arrived, decoded>>

MaybeExecuteTask ==
    /\ task.alive /\ task.due # None /\ now >= task.due
    /\ ExecuteTask /\ UNCHANGED <<continuous, queue, now, arrived>>

DecodeQueue == Restart \/ StartTask \/ StoppedTask \/ MaybeExecuteTask

\* Time does not pass the moment the task is due: the decode queue is not starved.
Tick ==
    /\ IF task.alive /\ task.due # None THEN now < task.due ELSE now < MaxTime
    /\ now' = now + 1
    /\ UNCHANGED <<infos, continuous, history, next, waiting, task, queue, arrived, decoded>>

Next == InsertFrame \/ Clear \/ NextFrame \/ DecodeQueue \/ Tick

Spec == Init /\ [][Next]_vars

\* The decode queue runs its closures and time goes on.
FairSpec == Spec /\ WF_vars(DecodeQueue) /\ WF_vars(Tick)

-----------------------------------------------------------------------------
(* Properties.                                                              *)

\* A frame reaches the decoder after every frame it refers to, in the order of the ids,
\* and at most once, whatever the order of arrival, late frames that are skipped and the
\* width of the history's ring.
DecodesAfterReferences ==
    \A i \in DOMAIN decoded :
        /\ \A r \in decoded[i].refs : \E j \in 1..i - 1 : decoded[j].id = r
        /\ \A j \in 1..i - 1 : decoded[j].id < decoded[i].id

\* Every NextFrame is answered, with a frame or with a timeout, although each continuous
\* frame stops and restarts the task that will answer.
NextFrameAnswered == waiting.pending ~> ~waiting.pending

=============================================================================

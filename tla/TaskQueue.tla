----------------------------- MODULE TaskQueue -----------------------------
(***************************************************************************)
(* One task queue of rtc/base/task_utils (TaskQueueBoost): one thread that  *)
(* runs an io_context, a strand that orders the posted closures, deadline   *)
(* timers for delayed closures, and the blocking Invoke that every other    *)
(* component uses to cross threads.  Invoke posts a closure and waits on    *)
(* event_, a single auto-reset Event that all invokers of the queue share.  *)
(*                                                                          *)
(* A closure is an id; what it computes is left out, but a running closure  *)
(* may use the queue again (post, post delayed, invoke inline).             *)
(***************************************************************************)
EXTENDS Integers, Sequences

CONSTANTS
    Callers,     \* threads that use the queue and are not the queue's thread
    Invokers,    \* those of them that call Invoke
    MaxTasks,    \* bound: closures created in a behaviour
    MaxDelay,    \* bound: the largest delay passed to PostDelayed, in ms
    MaxTime      \* bound: the clock, in ms

ASSUME InvokersAssumption == Invokers \subseteq Callers
ASSUME BoundsAssumption == MaxTasks \in Nat /\ MaxDelay \in Nat /\ MaxTime \in Nat
ASSUME QueueThreadAssumption == "queue" \notin Callers

VARIABLES
    queue,        \* closures in the strand, oldest first
    timers,       \* closures waiting for a deadline_timer
    cur,          \* what the queue's thread is doing
    event,        \* event_.stop_waiting_
    pc,           \* pc[c]: whether caller c is blocked in event_.WaitForever
    mine,         \* mine[c]: the closure of c's last Invoke, 0 before the first
    now,          \* the clock
    guard,        \* work_guard_ keeps ioc_.run() from returning
    lifecycle,    \* "running", "closing" (in Delete), "exited" (thread), "deleted"
    created,      \* history: number of closures created; their ids are 1..created
    calls,        \* history: calls[id] = how and when closure id was submitted
    ran,          \* history: ran[id] = when closure id was started, or Never
    order,        \* history: posted and invoked closures in the order they started
    done,         \* history: closures whose handler has returned
    returned      \* history: closures whose Invoke has returned to its caller

vars == <<queue, timers, cur, event, pc, mine, now, guard, lifecycle, created, calls,
          ran, order, done, returned>>

Ids == 1..MaxTasks
Never == -1
Threads == Callers \cup {"queue"}
Kinds == {"task", "invoke", "delayed"}

\* A closure in the strand.  "delayed" is the wrapper that PostDelayed posts
\* when it is called from another thread; "expired" is the closure of such a
\* wrapper, posted again because its delay had passed when the wrapper ran.
Items == [id : Ids, kind : Kinds \cup {"expired"}, caller : Threads]

\* The queue's thread: idle, in a closure's handler, or between the handler and
\* the event_.Set() of an invoked closure.
Idle == [phase |-> "idle", id |-> 0, kind |-> "task", caller |-> "queue"]
Working == [phase : {"handler", "signal"}, id : Ids,
            kind : {"task", "invoke", "expired"}, caller : Threads]

Calls == [kind : Kinds, delay : 0..MaxDelay, posted : 0..MaxTime]

Init ==
    /\ queue = <<>>
    /\ timers = {}
    /\ cur = Idle
    /\ event = FALSE
    /\ pc = [c \in Callers |-> "ready"]
    /\ mine = [c \in Callers |-> 0]
    /\ now = 0
    /\ guard = TRUE
    /\ lifecycle = "running"
    /\ created = 0
    /\ calls = [id \in Ids |-> [kind |-> "task", delay |-> 0, posted |-> 0]]
    /\ ran = [id \in Ids |-> Never]
    /\ order = <<>>
    /\ done = {}
    /\ returned = {}

-----------------------------------------------------------------------------
(* Mutants: plausible slips in the operations below, each of which one of the *)
(* properties at the end must notice.                                         *)

\* The strand is a stack.
PostItemFront(id, kind, caller) ==
    queue' = <<[id |-> id, kind |-> kind, caller |-> caller]>> \o queue

\* event_ is a manual-reset Event.
InvokeReturnNoReset(c) ==
    /\ pc[c] = "waiting"
    /\ event
    /\ pc' = [pc EXCEPT ![c] = "ready"]
    /\ returned' = returned \cup {mine[c]}
    /\ UNCHANGED <<queue, timers, cur, event, mine, now, guard, lifecycle, created, calls, ran, order, done>>

\* The wrapper measures the elapsed time the wrong way round.
RunDelayedWrapperSwapped ==
    /\ cur = Idle
    /\ queue # <<>>
    /\ Head(queue).kind = "delayed"
    /\ LET id == Head(queue).id
       IN timers' = timers \cup {[id |-> id, deadline |-> 2 * now - calls[id].posted]}
    /\ queue' = Tail(queue)
    /\ UNCHANGED <<cur, event, pc, mine, now, guard, lifecycle, created, calls, ran, order, done, returned>>

\* The timer is not taken out of the timer queue.
RunTimerTwice ==
    /\ cur = Idle
    /\ \E t \in timers :
          /\ t.deadline <= now
          /\ cur' = [phase |-> "handler", id |-> t.id, kind |-> "expired", caller |-> "queue"]
          /\ ran' = [ran EXCEPT ![t.id] = now]
    /\ UNCHANGED <<queue, timers, event, pc, mine, now, guard, lifecycle, created, calls, order, done, returned>>

\* The closure of an Invoke forgets event_.Set().
HandlerReturnNoSignal ==
    /\ cur.phase = "handler"
    /\ done' = done \cup {cur.id}
    /\ cur' = Idle
    /\ UNCHANGED <<queue, timers, event, pc, mine, now, guard, lifecycle, created, calls, ran, order, returned>>

\* Delete stops the io_context instead of draining its timers.
ThreadExitWithTimers ==
    /\ lifecycle = "closing"
    /\ ~guard
    /\ cur = Idle /\ queue = <<>>
    /\ lifecycle' = "exited"
    /\ UNCHANGED <<queue, timers, cur, event, pc, mine, now, guard, created, calls, ran, order, done, returned>>

-----------------------------------------------------------------------------
(* Submitting closures *)

\* A thread creates the next closure and submits it as `kind` with `delay`.  The
\* bounds stop submissions, so that the clock can reach every deadline.
Submit(kind, delay) ==
    /\ created < MaxTasks
    /\ now + delay <= MaxTime
    /\ created' = created + 1
    /\ calls' = [calls EXCEPT ![created + 1] =
                   [kind |-> kind, delay |-> delay, posted |-> now]]

\* boost::asio::post(strand_, ...)
PostItem(id, kind, caller) ==
    queue' = Append(queue, [id |-> id, kind |-> kind, caller |-> caller])

\* ScheduleTaskAfter: a deadline_timer `delay` ms from now.
ScheduleTaskAfter(id, delay) ==
    timers' = timers \cup {[id |-> id, deadline |-> now + delay]}

\* A caller may use the queue while it holds a pointer to it and is not blocked.
MayCall(c) == lifecycle = "running" /\ pc[c] = "ready"

Post(c) ==
    /\ MayCall(c)
    /\ Submit("task", 0)
    /\ PostItem(created + 1, "task", c)
    /\ UNCHANGED <<timers, cur, event, pc, mine, now, guard, lifecycle, ran, order, done, returned>>

\* PostDelayed from another thread posts a wrapper that does the scheduling.
PostDelayed(c) ==
    /\ MayCall(c)
    /\ \E delay \in 0..MaxDelay :
          /\ Submit("delayed", delay)
          /\ PostItem(created + 1, "delayed", c)
    /\ UNCHANGED <<timers, cur, event, pc, mine, now, guard, lifecycle, ran, order, done, returned>>

\* Invoke from another thread: post the closure, then block on event_.
Invoke(c) ==
    /\ MayCall(c)
    /\ Submit("invoke", 0)
    /\ PostItem(created + 1, "invoke", c)
    /\ pc' = [pc EXCEPT ![c] = "waiting"]
    /\ mine' = [mine EXCEPT ![c] = created + 1]
    /\ UNCHANGED <<timers, cur, event, now, guard, lifecycle, ran, order, done, returned>>

\* event_.WaitForever returns: stop_waiting_ is set, and is reset on the way out.
InvokeReturn(c) ==
    /\ pc[c] = "waiting"
    /\ event
    /\ event' = FALSE
    /\ pc' = [pc EXCEPT ![c] = "ready"]
    /\ returned' = returned \cup {mine[c]}
    /\ UNCHANGED <<queue, timers, cur, mine, now, guard, lifecycle, created, calls, ran, order, done>>

-----------------------------------------------------------------------------
(* The queue's thread *)

\* The thread takes the oldest closure of the strand and enters its handler.
RunPosted ==
    /\ cur = Idle
    /\ queue # <<>>
    /\ Head(queue).kind # "delayed"
    /\ queue' = Tail(queue)
    /\ cur' = [phase |-> "handler", id |-> Head(queue).id, kind |-> Head(queue).kind,
               caller |-> Head(queue).caller]
    /\ ran' = [ran EXCEPT ![Head(queue).id] = now]
    /\ order' = IF Head(queue).kind = "expired" THEN order
                                                 ELSE Append(order, Head(queue).id)
    /\ UNCHANGED <<timers, event, pc, mine, now, guard, lifecycle, created, calls, done, returned>>

\* The wrapper of a delayed closure: schedule it for what is left of its delay,
\* or post it to the end of the strand if nothing is left.
RunDelayedWrapper ==
    /\ cur = Idle
    /\ queue # <<>>
    /\ Head(queue).kind = "delayed"
    /\ LET id      == Head(queue).id
           elapsed == now - calls[id].posted
       IN IF calls[id].delay > elapsed
            THEN /\ ScheduleTaskAfter(id, calls[id].delay - elapsed)
                 /\ queue' = Tail(queue)
            ELSE /\ queue' = Append(Tail(queue),
                                    [id |-> id, kind |-> "expired", caller |-> Head(queue).caller])
                 /\ timers' = timers
    /\ UNCHANGED <<cur, event, pc, mine, now, guard, lifecycle, created, calls, ran, order, done, returned>>

\* The io_context runs the handler of an expired timer, earliest deadline first.
RunTimer ==
    /\ cur = Idle
    /\ \E t \in timers :
          /\ t.deadline <= now
          /\ \A u \in timers : t.deadline <= u.deadline
          /\ timers' = timers \ {t}
          /\ cur' = [phase |-> "handler", id |-> t.id, kind |-> "expired", caller |-> "queue"]
          /\ ran' = [ran EXCEPT ![t.id] = now]
    /\ UNCHANGED <<queue, event, pc, mine, now, guard, lifecycle, created, calls, order, done, returned>>

\* The running handler posts a closure to its own queue.
HandlerPost ==
    /\ cur.phase = "handler"
    /\ Submit("task", 0)
    /\ PostItem(created + 1, "task", "queue")
    /\ UNCHANGED <<timers, cur, event, pc, mine, now, guard, lifecycle, ran, order, done, returned>>

\* The running handler calls PostDelayed: the thread is current, so a positive
\* delay starts the timer at once and a zero delay is a Post.
HandlerPostDelayed ==
    /\ cur.phase = "handler"
    /\ \E delay \in 0..MaxDelay :
          /\ Submit("delayed", delay)
          /\ IF delay > 0
               THEN ScheduleTaskAfter(created + 1, delay) /\ queue' = queue
               ELSE PostItem(created + 1, "expired", "queue") /\ timers' = timers
    /\ UNCHANGED <<cur, event, pc, mine, now, guard, lifecycle, ran, order, done, returned>>

\* The running handler calls Invoke: IsCurrent(), so the closure runs inline and
\* event_ is not touched.
HandlerInvoke ==
    /\ cur.phase = "handler"
    /\ Submit("invoke", 0)
    /\ ran' = [ran EXCEPT ![created + 1] = now]
    /\ done' = done \cup {created + 1}
    /\ returned' = returned \cup {created + 1}
    /\ UNCHANGED <<queue, timers, cur, event, pc, mine, now, guard, lifecycle, order>>

\* The handler returns; the closure of an Invoke still has to signal event_.
HandlerReturn ==
    /\ cur.phase = "handler"
    /\ done' = done \cup {cur.id}
    /\ cur' = IF cur.kind = "invoke" THEN [cur EXCEPT !.phase = "signal"] ELSE Idle
    /\ UNCHANGED <<queue, timers, event, pc, mine, now, guard, lifecycle, created, calls, ran, order, returned>>

\* event_.Set()
SignalInvoker ==
    /\ cur.phase = "signal"
    /\ event' = TRUE
    /\ cur' = Idle
    /\ UNCHANGED <<queue, timers, pc, mine, now, guard, lifecycle, created, calls, ran, order, done, returned>>

-----------------------------------------------------------------------------
(* Destruction *)

\* Delete(), by the thread that owns the queue, when no other thread is inside it.
\* It resets the work guard and joins the thread.
DeleteBegin ==
    /\ lifecycle = "running"
    /\ \A c \in Callers : pc[c] = "ready"
    /\ guard' = FALSE
    /\ lifecycle' = "closing"
    /\ UNCHANGED <<queue, timers, cur, event, pc, mine, now, created, calls, ran, order, done, returned>>

\* ioc_.run() returns once it has no guard and nothing left to run or to wait for.
ThreadExit ==
    /\ lifecycle = "closing"
    /\ ~guard
    /\ cur = Idle /\ queue = <<>> /\ timers = {}
    /\ lifecycle' = "exited"
    /\ UNCHANGED <<queue, timers, cur, event, pc, mine, now, guard, created, calls, ran, order, done, returned>>

\* join() returns and the queue deletes itself.
DeleteReturn ==
    /\ lifecycle = "exited"
    /\ lifecycle' = "deleted"
    /\ UNCHANGED <<queue, timers, cur, event, pc, mine, now, guard, created, calls, ran, order, done, returned>>

-----------------------------------------------------------------------------
Tick ==
    /\ now < MaxTime
    /\ now' = now + 1
    /\ UNCHANGED <<queue, timers, cur, event, pc, mine, guard, lifecycle, created, calls, ran, order, done, returned>>

QueueThread ==
    \/ RunPosted \/ RunDelayedWrapper \/ RunTimer
    \/ HandlerReturn \/ SignalInvoker \/ ThreadExit

Next ==
    \/ \E c \in Callers : Post(c) \/ PostDelayed(c) \/ InvokeReturn(c)
    \/ \E c \in Invokers : Invoke(c)
    \/ HandlerPost \/ HandlerPostDelayed \/ HandlerInvoke
    \/ QueueThread
    \/ DeleteBegin \/ DeleteReturn
    \/ Tick

\* The operating system schedules the queue's thread, the threads blocked in
\* event_ or in join(), and time passes.  Nothing forces a caller to make a call.
Fairness ==
    /\ WF_vars(QueueThread)
    /\ \A c \in Callers : WF_vars(InvokeReturn(c))
    /\ WF_vars(DeleteReturn)
    /\ WF_vars(Tick)

Spec == Init /\ [][Next]_vars
FairSpec == Spec /\ Fairness

-----------------------------------------------------------------------------
(* Properties *)

TypeOK ==
    /\ queue \in Seq(Items)
    /\ timers \subseteq [id : Ids, deadline : Nat]
    /\ cur \in Working \cup {Idle}
    /\ event \in BOOLEAN
    /\ pc \in [Callers -> {"ready", "waiting"}]
    /\ mine \in [Callers -> Ids \cup {0}]
    /\ \A c \in Callers : pc[c] = "waiting" => mine[c] \in Ids
    /\ now \in 0..MaxTime
    /\ guard \in BOOLEAN
    /\ lifecycle \in {"running", "closing", "exited", "deleted"}
    /\ created \in 0..MaxTasks
    /\ calls \in [Ids -> Calls]
    /\ ran \in [Ids -> 0..MaxTime \cup {Never}]
    /\ order \in Seq(Ids)
    /\ done \subseteq Ids
    /\ returned \subseteq Ids

\* Invoke "blocks the current thread until execution is complete"
\* (task_queue_impl.hpp): when Invoke has returned, its handler has returned.
InvokeBlocksUntilComplete == returned \subseteq done

\* "Tasks are executed in FIFO order" (task_queue_impl.hpp): posted and invoked
\* closures start in the order they were submitted, whatever thread they came
\* from and however they interleave with delayed ones.
PostedInOrder ==
    \A i, j \in 1..Len(order) : i < j => order[i] < order[j]

\* PostDelayed: a delayed closure never starts before its delay has passed, on
\* the direct path, through the wrapper, and when the wrapper itself was late.
NeverEarly ==
    \A id \in Ids : ran[id] # Never => ran[id] >= calls[id].posted + calls[id].delay

\* Delete: "On return ensures no task are running and no new tasks are able to
\* start": the join drains the strand and the timers, so every closure that was
\* accepted has run, including those that handlers submitted while it drained.
DeleteDrains ==
    lifecycle = "deleted" => done = 1..created /\ cur = Idle

\* A closure runs at most once: it is in one place of the queue at a time, and in
\* none after it has started.
RunsOnce ==
    LET InStrand == {queue[i].id : i \in 1..Len(queue)}
        InTimers == {t.id : t \in timers}
    IN /\ \A i, j \in 1..Len(queue) : queue[i].id = queue[j].id => i = j
       /\ InStrand \cap InTimers = {}
       /\ \A id \in InStrand \cup InTimers : ran[id] = Never

\* Whoever waits for the queue is released: every Invoke returns, and the join of Delete
\* ends, although handlers go on submitting closures and the shared event is reset by
\* each of its waiters.
WaitersReleased ==
    /\ \A c \in Callers : pc[c] = "waiting" ~> pc[c] = "ready"
    /\ lifecycle = "closing" ~> lifecycle = "deleted"
=============================================================================

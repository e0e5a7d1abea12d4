-------------------------- MODULE TaskQueueProofs --------------------------
(***************************************************************************)
(* Proofs about TaskQueue, for every set of callers and every bound: types, *)
(* the delays and the one run of closures, Invoke, the order of posted      *)
(* closures, and that Delete drains the queue.                              *)
(***************************************************************************)
EXTENDS TaskQueue, TLAPS

-----------------------------------------------------------------------------
(* Type correctness *)

\* Submit creates the next id and a well-typed record of the call.
LEMMA SubmitType ==
  ASSUME TypeOK, NEW kind \in Kinds, NEW delay \in 0..MaxDelay, Submit(kind, delay)
  PROVE /\ created + 1 \in Ids
        /\ created' \in 0..MaxTasks
        /\ calls' \in [Ids -> Calls]
<1>1. created + 1 \in Ids /\ created' \in 0..MaxTasks
  BY BoundsAssumption DEF TypeOK, Submit, Ids
<1>2. [kind |-> kind, delay |-> delay, posted |-> now] \in Calls
  BY DEF TypeOK, Calls
<1>3. calls' \in [Ids -> Calls]
  BY <1>1, <1>2 DEF TypeOK, Submit
<1> QED
  BY <1>1, <1>3

\* Posting a well-typed item keeps the strand a sequence of items.
LEMMA PostItemType ==
  ASSUME TypeOK, NEW id \in Ids, NEW kind \in Kinds \cup {"expired"}, NEW c \in Threads,
         PostItem(id, kind, c)
  PROVE queue' \in Seq(Items)
  BY DEF TypeOK, PostItem, Items

\* The head of a non-empty strand is an item, and what follows it a strand.
LEMMA HeadType ==
  ASSUME TypeOK, queue # <<>>
  PROVE Head(queue) \in Items /\ Tail(queue) \in Seq(Items)
  BY DEF TypeOK

\* A timer is started for a closure id with a natural deadline.
LEMMA ScheduleType ==
  ASSUME TypeOK, NEW id \in Ids, NEW delay \in Nat, ScheduleTaskAfter(id, delay)
  PROVE timers' \subseteq [id : Ids, deadline : Nat]
<1>1. [id |-> id, deadline |-> now + delay] \in [id : Ids, deadline : Nat]
  BY DEF TypeOK
<1> QED
  BY <1>1 DEF TypeOK, ScheduleTaskAfter

\* Every step keeps the types of the queue's state: TaskQueueBoost's members, the
\* Event, and the callers' program counters.
LEMMA TypeStep == TypeOK /\ [Next]_vars => TypeOK'
<1> SUFFICES ASSUME TypeOK, [Next]_vars PROVE TypeOK'
  OBVIOUS
<1> USE BoundsAssumption, InvokersAssumption
<1>1. ASSUME NEW c \in Callers, Post(c) PROVE TypeOK'
  <2>1. Submit("task", 0) /\ PostItem(created + 1, "task", c)
    BY <1>1 DEF Post
  <2>2. created + 1 \in Ids /\ created' \in 0..MaxTasks /\ calls' \in [Ids -> Calls]
    BY <2>1, SubmitType DEF Kinds
  <2>3. queue' \in Seq(Items)
    BY <2>1, <2>2, PostItemType DEF Kinds, Threads
  <2> QED
    BY <1>1, <2>2, <2>3 DEF TypeOK, Post
<1>2. ASSUME NEW c \in Callers, PostDelayed(c) PROVE TypeOK'
  <2>1. PICK delay \in 0..MaxDelay :
          Submit("delayed", delay) /\ PostItem(created + 1, "delayed", c)
    BY <1>2 DEF PostDelayed
  <2>2. created + 1 \in Ids /\ created' \in 0..MaxTasks /\ calls' \in [Ids -> Calls]
    BY <2>1, SubmitType DEF Kinds
  <2>3. queue' \in Seq(Items)
    BY <2>1, <2>2, PostItemType DEF Kinds, Threads
  <2> QED
    BY <1>2, <2>2, <2>3 DEF TypeOK, PostDelayed
<1>3. ASSUME NEW c \in Invokers, Invoke(c) PROVE TypeOK'
  <2>1. Submit("invoke", 0) /\ PostItem(created + 1, "invoke", c)
    BY <1>3 DEF Invoke
  <2>2. created + 1 \in Ids /\ created' \in 0..MaxTasks /\ calls' \in [Ids -> Calls]
    BY <2>1, SubmitType DEF Kinds
  <2>3. queue' \in Seq(Items)
    BY <2>1, <2>2, PostItemType DEF Kinds, Threads
  <2>4. /\ pc' \in [Callers -> {"ready", "waiting"}]
        /\ mine' \in [Callers -> Ids \cup {0}]
        /\ \A d \in Callers : pc'[d] = "waiting" => mine'[d] \in Ids
    BY <1>3, <2>2 DEF TypeOK, Invoke
  <2> QED
    BY <1>3, <2>2, <2>3, <2>4 DEF TypeOK, Invoke
<1>4. ASSUME NEW c \in Callers, InvokeReturn(c) PROVE TypeOK'
  <2>1. mine[c] \in Ids /\ pc' \in [Callers -> {"ready", "waiting"}]
    BY <1>4 DEF TypeOK, InvokeReturn
  <2> QED
    BY <1>4, <2>1 DEF TypeOK, InvokeReturn
<1>5. CASE HandlerPost
  <2>1. Submit("task", 0) /\ PostItem(created + 1, "task", "queue")
    BY <1>5 DEF HandlerPost
  <2>2. created + 1 \in Ids /\ created' \in 0..MaxTasks /\ calls' \in [Ids -> Calls]
    BY <2>1, SubmitType DEF Kinds
  <2>3. queue' \in Seq(Items)
    BY <2>1, <2>2, PostItemType DEF Kinds, Threads
  <2> QED
    BY <1>5, <2>2, <2>3 DEF TypeOK, HandlerPost
<1>6. CASE HandlerPostDelayed
  <2>1. PICK delay \in 0..MaxDelay :
          /\ Submit("delayed", delay)
          /\ IF delay > 0
               THEN ScheduleTaskAfter(created + 1, delay) /\ queue' = queue
               ELSE PostItem(created + 1, "expired", "queue") /\ timers' = timers
    BY <1>6 DEF HandlerPostDelayed
  <2>2. created + 1 \in Ids /\ created' \in 0..MaxTasks /\ calls' \in [Ids -> Calls]
    BY <2>1, SubmitType DEF Kinds
  <2>3. queue' \in Seq(Items) /\ timers' \subseteq [id : Ids, deadline : Nat]
    <3>1. CASE delay > 0
      BY <2>1, <2>2, <3>1, ScheduleType DEF TypeOK
    <3>2. CASE ~(delay > 0)
      BY <2>1, <2>2, <3>2, PostItemType DEF TypeOK, Threads
    <3> QED
      BY <3>1, <3>2
  <2> QED
    BY <1>6, <2>2, <2>3 DEF TypeOK, HandlerPostDelayed
<1>7. CASE HandlerInvoke
  <2>1. created + 1 \in Ids /\ created' \in 0..MaxTasks /\ calls' \in [Ids -> Calls]
    BY <1>7, SubmitType DEF HandlerInvoke, Kinds
  <2>2. ran' \in [Ids -> 0..MaxTime \cup {Never}]
    BY <1>7, <2>1 DEF TypeOK, HandlerInvoke
  <2> QED
    BY <1>7, <2>1, <2>2 DEF TypeOK, HandlerInvoke
<1>8. CASE RunPosted
  <2>1. Head(queue) \in Items /\ Tail(queue) \in Seq(Items) /\ Head(queue).kind # "delayed"
    BY <1>8, HeadType DEF RunPosted
  <2>2. cur' \in Working
    BY <1>8, <2>1 DEF RunPosted, Working, Items, Kinds
  <2>3. ran' \in [Ids -> 0..MaxTime \cup {Never}] /\ order' \in Seq(Ids)
    BY <1>8, <2>1 DEF TypeOK, RunPosted, Items
  <2> QED
    BY <1>8, <2>1, <2>2, <2>3 DEF TypeOK, RunPosted
<1>9. CASE RunDelayedWrapper
  <2>1. Head(queue) \in Items /\ Tail(queue) \in Seq(Items)
    BY <1>9, HeadType DEF RunDelayedWrapper
  <2> DEFINE id == Head(queue).id
             elapsed == now - calls[id].posted
  <2>2. id \in Ids /\ Head(queue).caller \in Threads
    BY <2>1 DEF Items
  <2>3. calls[id].delay \in Nat /\ calls[id].posted \in Nat /\ now \in Nat
    BY <2>2 DEF TypeOK, Calls
  <2>4. queue' \in Seq(Items) /\ timers' \subseteq [id : Ids, deadline : Nat]
    <3>1. CASE calls[id].delay > elapsed
      <4>1. ScheduleTaskAfter(id, calls[id].delay - elapsed) /\ queue' = Tail(queue)
        BY <1>9, <3>1 DEF RunDelayedWrapper
      <4>2. calls[id].delay - elapsed \in Nat
        BY <2>3, <3>1
      <4> QED
        BY <2>1, <2>2, <4>1, <4>2, ScheduleType
    <3>2. CASE ~(calls[id].delay > elapsed)
      <4>1. [id |-> id, kind |-> "expired", caller |-> Head(queue).caller] \in Items
        BY <2>2 DEF Items
      <4>2. /\ queue' = Append(Tail(queue), [id |-> id, kind |-> "expired",
                                             caller |-> Head(queue).caller])
            /\ timers' = timers
        BY <1>9, <3>2 DEF RunDelayedWrapper
      <4>3. queue' \in Seq(Items)
        BY <2>1, <4>1, <4>2
      <4> QED
        BY <4>2, <4>3 DEF TypeOK
    <3> QED
      BY <3>1, <3>2
  <2> QED
    BY <1>9, <2>4 DEF TypeOK, RunDelayedWrapper
<1>10. CASE RunTimer
  <2>1. PICK t \in timers :
          /\ timers' = timers \ {t}
          /\ cur' = [phase |-> "handler", id |-> t.id, kind |-> "expired", caller |-> "queue"]
          /\ ran' = [ran EXCEPT ![t.id] = now]
    BY <1>10 DEF RunTimer
  <2>2. t.id \in Ids
    BY DEF TypeOK
  <2>3. cur' \in Working
    BY <2>1, <2>2 DEF Working, Threads
  <2>4. ran' \in [Ids -> 0..MaxTime \cup {Never}]
    BY <2>1, <2>2 DEF TypeOK
  <2> QED
    BY <1>10, <2>1, <2>3, <2>4 DEF TypeOK, RunTimer
<1>11. CASE HandlerReturn
  <2>1. cur \in Working
    BY <1>11 DEF HandlerReturn, TypeOK, Idle
  <2>2. cur' \in Working \cup {Idle} /\ cur.id \in Ids
    BY <1>11, <2>1 DEF HandlerReturn, Working
  <2> QED
    BY <1>11, <2>2 DEF TypeOK, HandlerReturn
<1>12. CASE SignalInvoker
  BY <1>12 DEF TypeOK, SignalInvoker
<1>13. CASE ThreadExit \/ DeleteBegin \/ DeleteReturn
  BY <1>13 DEF TypeOK, ThreadExit, DeleteBegin, DeleteReturn
<1>14. CASE Tick
  BY <1>14 DEF TypeOK, Tick
<1>15. CASE UNCHANGED vars
  BY <1>15 DEF TypeOK, vars
<1> QED
  BY <1>1, <1>2, <1>3, <1>4, <1>5, <1>6, <1>7, <1>8, <1>9, <1>10, <1>11, <1>12,
     <1>13, <1>14, <1>15 DEF Next, QueueThread

\* The initial state of a task queue is well typed.
LEMMA TypeInit == Init => TypeOK
<1> SUFFICES ASSUME Init PROVE TypeOK
  OBVIOUS
<1>1. calls \in [Ids -> Calls]
  BY BoundsAssumption DEF Init, Calls, Kinds
<1>2. queue \in Seq(Items) /\ order \in Seq(Ids)
  BY DEF Init
<1>3. ran \in [Ids -> 0..MaxTime \cup {Never}]
  BY DEF Init
<1>4. /\ pc \in [Callers -> {"ready", "waiting"}]
      /\ mine \in [Callers -> Ids \cup {0}]
      /\ \A c \in Callers : pc[c] = "waiting" => mine[c] \in Ids
  BY DEF Init
<1>5. now \in 0..MaxTime /\ created \in 0..MaxTasks
  BY BoundsAssumption DEF Init
<1>6. timers = {} /\ cur = Idle /\ event = FALSE /\ guard = TRUE /\ lifecycle = "running"
      /\ done = {} /\ returned = {}
  BY DEF Init
<1> QED
  BY <1>1, <1>2, <1>3, <1>4, <1>5, <1>6 DEF TypeOK

\* The type invariant of the task queue holds for every number of threads,
\* closures and milliseconds.
THEOREM TypeCorrect == Spec => []TypeOK
  BY TypeInit, TypeStep, PTL DEF Spec

-----------------------------------------------------------------------------
(* Sequences *)

\* What Append leaves at each index.
LEMMA AppendAt ==
  ASSUME NEW S, NEW s \in Seq(S), NEW e \in S
  PROVE /\ Len(Append(s, e)) = Len(s) + 1
        /\ \A i \in 1..Len(s) : Append(s, e)[i] = s[i]
        /\ Append(s, e)[Len(s) + 1] = e
  OBVIOUS

\* What Tail leaves at each index.
LEMMA TailAt ==
  ASSUME NEW S, NEW s \in Seq(S), s # <<>>
  PROVE /\ Len(s) \in Nat \ {0}
        /\ Len(Tail(s)) = Len(s) - 1
        /\ \A i \in 1..(Len(s) - 1) : Tail(s)[i] = s[i + 1]
        /\ Head(s) = s[1]
  OBVIOUS

\* An index is the last one or one before it.
LEMMA LastOrBefore ==
  ASSUME NEW n \in Nat \ {0}
  PROVE \A i \in 1..n : i \in 1..(n - 1) \/ i = n
  OBVIOUS

-----------------------------------------------------------------------------
(* Delays and single execution                                               *)
(*                                                                           *)
(* NeverEarly and RunsOnce are not inductive: they need to know that ids are *)
(* fresh, that a closure in the strand or on a timer carries enough of its   *)
(* delay, and that a timer is the only one of its closure.                   *)

\* Ids in use are ids that were created.
Known ==
    /\ \A i \in 1..Len(queue) : queue[i].id <= created
    /\ \A t \in timers : t.id <= created
    /\ \A id \in Ids : ran[id] # Never => id <= created

\* What is left of the delay of a pending closure.
Delays ==
    /\ \A id \in Ids : id <= created => calls[id].posted <= now
    /\ \A i \in 1..Len(queue) :
          /\ queue[i].kind \in {"task", "invoke"} => calls[queue[i].id].delay = 0
          /\ queue[i].kind = "expired" =>
                calls[queue[i].id].posted + calls[queue[i].id].delay <= now
    /\ \A t \in timers : calls[t.id].posted + calls[t.id].delay <= t.deadline
    /\ NeverEarly

\* A pending closure is in one place and has not started.
Places ==
    /\ \A i, j \in 1..Len(queue) : queue[i].id = queue[j].id => i = j
    /\ \A t, u \in timers : t.id = u.id => t = u
    /\ \A i \in 1..Len(queue), t \in timers : queue[i].id # t.id
    /\ \A i \in 1..Len(queue) : ran[queue[i].id] = Never
    /\ \A t \in timers : ran[t.id] = Never

PendingInv == TypeOK /\ Known /\ Delays /\ Places

\* The strand holds items.
LEMMA QueueItems ==
  ASSUME TypeOK
  PROVE /\ Len(queue) \in Nat
        /\ \A i \in 1..Len(queue) : queue[i] \in Items /\ queue[i].id \in Ids
<1>1. \A i \in 1..Len(queue) : queue[i] \in Items
  BY DEF TypeOK
<1> QED
  BY <1>1 DEF Items, TypeOK

\* Appending the item of a fresh closure to the strand.
LEMMA PendingAppend ==
  ASSUME PendingInv,
         NEW kind \in Kinds, NEW delay \in 0..MaxDelay, Submit(kind, delay),
         NEW ikind \in Kinds \cup {"expired"}, NEW c \in Threads,
         PostItem(created + 1, ikind, c),
         ikind # "delayed" => delay = 0,
         UNCHANGED <<timers, ran, now>>
  PROVE Known' /\ Delays' /\ Places'
<1>0. TypeOK /\ Known /\ Delays /\ Places
  BY DEF PendingInv
<1> USE <1>0, BoundsAssumption
<1> DEFINE e == [id |-> created + 1, kind |-> ikind, caller |-> c]
<1>1. created + 1 \in Ids /\ created \in Nat /\ created' = created + 1
  <2>1. created + 1 \in Ids
    BY SubmitType
  <2> QED
    BY <2>1 DEF Submit, TypeOK
<1>2. /\ e \in Items
      /\ queue' = Append(queue, e)
  BY <1>1 DEF Items, PostItem
<1>3. /\ Len(queue') = Len(queue) + 1 /\ Len(queue) \in Nat
      /\ \A i \in 1..Len(queue) : queue'[i] = queue[i]
      /\ queue'[Len(queue) + 1] = e
  BY <1>2, AppendAt DEF TypeOK
<1>4. \A i \in 1..Len(queue') : i \in 1..Len(queue) \/ (i = Len(queue) + 1 /\ queue'[i] = e)
  <2>1. \A i \in 1..(Len(queue) + 1) : i \in 1..Len(queue) \/ i = Len(queue) + 1
    BY <1>3
  <2> QED
    BY <1>3, <2>1
<1>5. \A i \in 1..Len(queue) : queue[i].id \in Ids /\ queue[i].id <= created
  BY QueueItems DEF Known
<1>6. \A t \in timers : t.id \in Ids /\ t.id <= created /\ t.deadline \in Nat
  BY DEF TypeOK, Known
<1>7. /\ calls'[created + 1] = [kind |-> kind, delay |-> delay, posted |-> now]
      /\ \A id \in Ids : id <= created => calls'[id] = calls[id]
  BY <1>1 DEF Submit, TypeOK
<1>8. ran[created + 1] = Never
  <2>1. ~(created + 1 <= created)
    BY <1>1
  <2> QED
    BY <1>1, <2>1 DEF Known
<1>9. now \in Nat /\ delay \in Nat /\ \A id \in Ids : id \in Nat
  BY DEF TypeOK, Ids
<1>10. Known'
  <2>1. \A i \in 1..Len(queue') : queue'[i].id <= created'
    BY <1>1, <1>3, <1>4, <1>5, <1>9
  <2>2. \A t \in timers' : t.id <= created'
    BY <1>1, <1>6, <1>9
  <2> QED
    BY <2>1, <2>2, <1>1, <1>9 DEF Known
<1>11. NeverEarly'
  BY <1>1, <1>7, <1>8, <1>9 DEF NeverEarly, Delays, Known
<1>12. Delays'
  <2>1. \A id \in Ids : id <= created' => calls'[id].posted <= now'
    BY <1>1, <1>7, <1>9 DEF Delays
  <2>2. \A i \in 1..Len(queue') :
          /\ queue'[i].kind \in {"task", "invoke"} => calls'[queue'[i].id].delay = 0
          /\ queue'[i].kind = "expired" =>
                calls'[queue'[i].id].posted + calls'[queue'[i].id].delay <= now'
    BY <1>3, <1>4, <1>5, <1>7, <1>9 DEF Delays
  <2>3. \A t \in timers' : calls'[t.id].posted + calls'[t.id].delay <= t.deadline
    BY <1>6, <1>7 DEF Delays
  <2> QED
    BY <2>1, <2>2, <2>3, <1>11 DEF Delays
<1>13. Places'
  <2>1. \A i, j \in 1..Len(queue') : queue'[i].id = queue'[j].id => i = j
    BY <1>1, <1>3, <1>4, <1>5, <1>9 DEF Places
  <2>2. \A i \in 1..Len(queue'), t \in timers' : queue'[i].id # t.id
    BY <1>1, <1>3, <1>4, <1>5, <1>6, <1>9 DEF Places
  <2>3. \A i \in 1..Len(queue') : ran'[queue'[i].id] = Never
    BY <1>3, <1>4, <1>8 DEF Places
  <2> QED
    BY <2>1, <2>2, <2>3 DEF Places
<1> QED
  BY <1>10, <1>12, <1>13

\* Starting a timer for a fresh closure.
LEMMA PendingTimer ==
  ASSUME PendingInv,
         NEW kind \in Kinds, NEW delay \in 0..MaxDelay, Submit(kind, delay),
         ScheduleTaskAfter(created + 1, delay),
         UNCHANGED <<queue, ran, now>>
  PROVE Known' /\ Delays' /\ Places'
<1>0. TypeOK /\ Known /\ Delays /\ Places
  BY DEF PendingInv
<1> USE <1>0, BoundsAssumption
<1> DEFINE e == [id |-> created + 1, deadline |-> now + delay]
<1>1. created + 1 \in Ids /\ created \in Nat /\ created' = created + 1
  <2>1. created + 1 \in Ids
    BY SubmitType
  <2> QED
    BY <2>1 DEF Submit, TypeOK
<1>2. timers' = timers \cup {e}
  BY DEF ScheduleTaskAfter
<1>3. \A i \in 1..Len(queue) : queue[i].id \in Ids /\ queue[i].id <= created
  BY QueueItems DEF Known
<1>4. \A t \in timers : t.id \in Ids /\ t.id <= created
  BY DEF TypeOK, Known
<1>5. /\ calls'[created + 1] = [kind |-> kind, delay |-> delay, posted |-> now]
      /\ \A id \in Ids : id <= created => calls'[id] = calls[id]
  BY <1>1 DEF Submit, TypeOK
<1>6. ran[created + 1] = Never
  <2>1. ~(created + 1 <= created)
    BY <1>1
  <2> QED
    BY <1>1, <2>1 DEF Known
<1>7. now \in Nat /\ delay \in Nat /\ \A id \in Ids : id \in Nat
  BY DEF TypeOK, Ids
<1>8. Known'
  BY <1>1, <1>2, <1>3, <1>4, <1>7 DEF Known
<1>9. NeverEarly'
  BY <1>1, <1>5, <1>6, <1>7 DEF NeverEarly, Delays, Known
<1>10. Delays'
  <2>1. \A id \in Ids : id <= created' => calls'[id].posted <= now'
    BY <1>1, <1>5, <1>7 DEF Delays
  <2>2. \A i \in 1..Len(queue) :
          /\ queue[i].kind \in {"task", "invoke"} => calls'[queue[i].id].delay = 0
          /\ queue[i].kind = "expired" =>
                calls'[queue[i].id].posted + calls'[queue[i].id].delay <= now'
    BY <1>3, <1>5 DEF Delays
  <2>3. \A t \in timers' : calls'[t.id].posted + calls'[t.id].delay <= t.deadline
    BY <1>2, <1>4, <1>5, <1>7 DEF Delays
  <2> QED
    BY <2>1, <2>2, <2>3, <1>9 DEF Delays
<1>11. Places'
  <2>1. \A t, u \in timers' : t.id = u.id => t = u
    BY <1>1, <1>2, <1>4, <1>7 DEF Places
  <2>2. \A i \in 1..Len(queue), t \in timers' : queue[i].id # t.id
    BY <1>1, <1>2, <1>3, <1>7 DEF Places
  <2> QED
    BY <2>1, <2>2, <1>2, <1>6 DEF Places
<1> QED
  BY <1>8, <1>10, <1>11

\* The thread takes the oldest closure of the strand.
LEMMA PendingRunPosted ==
  ASSUME PendingInv, RunPosted
  PROVE Known' /\ Delays' /\ Places'
<1>0. TypeOK /\ Known /\ Delays /\ Places
  BY DEF PendingInv
<1> USE <1>0, BoundsAssumption
<1> DEFINE h == queue[1]
<1>1. /\ queue' = Tail(queue) /\ queue # <<>> /\ queue \in Seq(Items)
      /\ timers' = timers /\ now' = now /\ created' = created /\ calls' = calls
  BY DEF RunPosted, TypeOK
<1>2. /\ Len(queue) \in Nat \ {0} /\ Len(queue') = Len(queue) - 1
      /\ \A i \in 1..(Len(queue) - 1) : queue'[i] = queue[i + 1]
      /\ Head(queue) = h
  BY <1>1, TailAt
<1>3. \A i \in 1..Len(queue') : i + 1 \in 1..Len(queue) /\ i + 1 # 1 /\ queue'[i] = queue[i + 1]
  <2>1. \A i \in 1..(Len(queue) - 1) : i + 1 \in 1..Len(queue) /\ i + 1 # 1
    BY <1>2
  <2> QED
    BY <1>2, <2>1
<1>4. 1 \in 1..Len(queue) /\ h \in Items /\ h.id \in Ids
  BY <1>2, QueueItems
<1>5. ran' = [ran EXCEPT ![h.id] = now] /\ h.kind # "delayed" /\ h.id <= created
  BY <1>2, <1>4 DEF RunPosted, Known
<1>6. /\ ran'[h.id] = now
      /\ \A id \in Ids : id # h.id => ran'[id] = ran[id]
  BY <1>4, <1>5 DEF TypeOK
<1>7. calls[h.id].posted + calls[h.id].delay <= now
  <2>1. calls[h.id].posted <= now /\ calls[h.id].posted \in Nat /\ now \in Nat
    BY <1>4, <1>5 DEF Delays, TypeOK, Calls
  <2>2. CASE h.kind \in {"task", "invoke"}
    BY <1>4, <2>1, <2>2 DEF Delays
  <2>3. CASE h.kind = "expired"
    BY <1>4, <2>3 DEF Delays
  <2> QED
    BY <1>4, <1>5, <2>2, <2>3 DEF Items, Kinds
<1>8. \A i \in 1..Len(queue) : queue[i].id \in Ids
  BY QueueItems
<1>9. \A t \in timers : t.id \in Ids
  BY DEF TypeOK
<1>10. Known'
  BY <1>1, <1>3, <1>5, <1>6 DEF Known
<1>11. NeverEarly'
  BY <1>1, <1>6, <1>7 DEF NeverEarly, Delays
<1>12. Delays'
  BY <1>1, <1>3, <1>11 DEF Delays
<1>13. Places'
  <2>1. \A i, j \in 1..Len(queue') : queue'[i].id = queue'[j].id => i = j
    <3> SUFFICES ASSUME NEW i \in 1..Len(queue'), NEW j \in 1..Len(queue'),
                        queue'[i].id = queue'[j].id
                 PROVE i = j
      OBVIOUS
    <3>1. i + 1 = j + 1
      BY <1>3 DEF Places
    <3> QED
      BY <3>1, <1>2
  <2>2. \A i \in 1..Len(queue') : ran'[queue'[i].id] = Never
    <3> SUFFICES ASSUME NEW i \in 1..Len(queue') PROVE ran'[queue'[i].id] = Never
      OBVIOUS
    <3>1. queue'[i].id # h.id /\ queue'[i].id \in Ids
      BY <1>3, <1>4, <1>8 DEF Places
    <3> QED
      BY <3>1, <1>3, <1>6 DEF Places
  <2>3. \A t \in timers : ran'[t.id] = Never
    BY <1>4, <1>6, <1>9 DEF Places
  <2>4. \A i \in 1..Len(queue'), t \in timers : queue'[i].id # t.id
    BY <1>3 DEF Places
  <2>5. \A t, u \in timers : t.id = u.id => t = u
    BY DEF Places
  <2> QED
    BY <2>1, <2>2, <2>3, <2>4, <2>5, <1>1 DEF Places
<1> QED
  BY <1>10, <1>12, <1>13

\* The io_context runs an expired timer.
LEMMA PendingRunTimer ==
  ASSUME PendingInv, RunTimer
  PROVE Known' /\ Delays' /\ Places'
<1>0. TypeOK /\ Known /\ Delays /\ Places
  BY DEF PendingInv
<1> USE <1>0, BoundsAssumption
<1>1. PICK t \in timers : t.deadline <= now /\ timers' = timers \ {t}
                          /\ ran' = [ran EXCEPT ![t.id] = now]
  BY DEF RunTimer
<1>2. queue' = queue /\ now' = now /\ created' = created /\ calls' = calls
  BY DEF RunTimer
<1>3. t.id \in Ids /\ t.id <= created /\ t.deadline \in Nat /\ now \in Nat
  BY DEF TypeOK, Known
<1>4. ran'[t.id] = now /\ \A id \in Ids : id # t.id => ran'[id] = ran[id]
  BY <1>1, <1>3 DEF TypeOK
<1>5. calls[t.id].posted \in Nat /\ calls[t.id].delay \in Nat
  BY <1>3 DEF TypeOK, Calls
<1>6. calls[t.id].posted + calls[t.id].delay <= now
  BY <1>1, <1>3, <1>5 DEF Delays
<1>7. \A i \in 1..Len(queue) : queue[i].id \in Ids
  BY QueueItems
<1>8. \A u \in timers : u.id \in Ids
  BY DEF TypeOK
<1>9. Known'
  BY <1>1, <1>2, <1>3, <1>4 DEF Known
<1>10. NeverEarly'
  BY <1>2, <1>4, <1>6 DEF NeverEarly, Delays
<1>11. Delays'
  BY <1>1, <1>2, <1>10 DEF Delays
<1>12. Places'
  BY <1>1, <1>2, <1>4, <1>7, <1>8 DEF Places
<1> QED
  BY <1>9, <1>11, <1>12

\* The wrapper of a delayed closure moves it to a timer or to the end of the strand.
LEMMA PendingWrapper ==
  ASSUME PendingInv, RunDelayedWrapper
  PROVE Known' /\ Delays' /\ Places'
<1>0. TypeOK /\ Known /\ Delays /\ Places
  BY DEF PendingInv
<1> USE <1>0, BoundsAssumption
<1> DEFINE h == queue[1]
           elapsed == now - calls[h.id].posted
           e == [id |-> h.id, kind |-> "expired", caller |-> h.caller]
           t0 == [id |-> h.id, deadline |-> now + (calls[h.id].delay - elapsed)]
<1>1. /\ queue # <<>> /\ queue \in Seq(Items)
      /\ now' = now /\ created' = created /\ calls' = calls /\ ran' = ran
  BY DEF RunDelayedWrapper, TypeOK
<1>2. /\ Len(queue) \in Nat \ {0} /\ Len(Tail(queue)) = Len(queue) - 1
      /\ \A i \in 1..(Len(queue) - 1) : Tail(queue)[i] = queue[i + 1]
      /\ Head(queue) = h
  BY <1>1, TailAt
<1>3. \A i \in 1..(Len(queue) - 1) : i + 1 \in 1..Len(queue) /\ i + 1 # 1
  BY <1>2
<1>4. 1 \in 1..Len(queue) /\ h \in Items /\ h.id \in Ids /\ h.id <= created
  BY <1>2, QueueItems DEF Known
<1>5. calls[h.id].posted \in Nat /\ calls[h.id].delay \in Nat /\ now \in Nat
  BY <1>4 DEF TypeOK, Calls
<1>6. CASE calls[h.id].delay > elapsed
  <2>1. queue' = Tail(queue) /\ timers' = timers \cup {t0}
    BY <1>2, <1>6 DEF RunDelayedWrapper, ScheduleTaskAfter
  <2>2. \A i \in 1..Len(queue') : i + 1 \in 1..Len(queue) /\ i + 1 # 1 /\ queue'[i] = queue[i + 1]
    BY <1>2, <1>3, <2>1
  <2>3. Known'
    BY <1>1, <1>4, <2>1, <2>2 DEF Known
  <2>4. calls[h.id].posted + calls[h.id].delay <= t0.deadline
    BY <1>5
  <2>5. Delays'
    BY <1>1, <2>1, <2>2, <2>4 DEF Delays, NeverEarly
  <2>6. \A i, j \in 1..Len(queue') : queue'[i].id = queue'[j].id => i = j
    <3> SUFFICES ASSUME NEW i \in 1..Len(queue'), NEW j \in 1..Len(queue'),
                        queue'[i].id = queue'[j].id
                 PROVE i = j
      OBVIOUS
    <3>1. i + 1 = j + 1
      BY <2>2 DEF Places
    <3> QED
      BY <3>1, <1>2, <2>1
  <2>7. \A i \in 1..Len(queue') : queue'[i].id # h.id
    BY <2>2, <1>4 DEF Places
  <2>8. \A t, u \in timers' : t.id = u.id => t = u
    BY <2>1, <1>4 DEF Places
  <2>9. \A i \in 1..Len(queue'), t \in timers' : queue'[i].id # t.id
    BY <2>1, <2>2, <2>7 DEF Places
  <2>10. /\ \A i \in 1..Len(queue') : ran'[queue'[i].id] = Never
         /\ \A t \in timers' : ran'[t.id] = Never
    BY <1>1, <1>4, <2>1, <2>2 DEF Places
  <2>11. Places'
    BY <2>6, <2>8, <2>9, <2>10 DEF Places
  <2> QED
    BY <2>3, <2>5, <2>11
<1>7. CASE ~(calls[h.id].delay > elapsed)
  <2>1. queue' = Append(Tail(queue), e) /\ timers' = timers
    BY <1>2, <1>7 DEF RunDelayedWrapper
  <2>2. Tail(queue) \in Seq(Items) /\ e \in Items
    BY <1>1, <1>4 DEF Items
  <2>3. /\ Len(queue') = Len(queue)
        /\ \A i \in 1..(Len(queue) - 1) : queue'[i] = queue[i + 1]
        /\ queue'[Len(queue)] = e
    BY <1>2, <2>1, <2>2, AppendAt
  <2>4. \A i \in 1..Len(queue') :
          \/ i \in 1..(Len(queue) - 1) /\ i + 1 \in 1..Len(queue) /\ i + 1 # 1 /\ queue'[i] = queue[i + 1]
          \/ i = Len(queue) /\ queue'[i] = e
    <3>1. \A i \in 1..Len(queue) : i \in 1..(Len(queue) - 1) \/ i = Len(queue)
      BY <1>2, LastOrBefore
    <3> QED
      BY <1>3, <2>3, <3>1
  <2>5. Known'
    BY <1>1, <1>4, <2>1, <2>4 DEF Known
  <2>6. calls[h.id].posted + calls[h.id].delay <= now
    BY <1>5, <1>7
  <2>7. Delays'
    BY <1>1, <2>1, <2>4, <2>6 DEF Delays, NeverEarly
  <2>8. \A i \in 1..(Len(queue) - 1) : queue[i + 1].id # h.id
    BY <1>3, <1>4 DEF Places
  <2>9. \A i, j \in 1..Len(queue') : queue'[i].id = queue'[j].id => i = j
    <3> SUFFICES ASSUME NEW i \in 1..Len(queue'), NEW j \in 1..Len(queue'),
                        queue'[i].id = queue'[j].id
                 PROVE i = j
      OBVIOUS
    <3>0. ASSUME NEW k \in 1..Len(queue'), k # Len(queue) PROVE queue'[k].id # h.id
      <4>1. k \in 1..(Len(queue) - 1) /\ queue'[k] = queue[k + 1]
        BY <2>4, <3>0
      <4> QED
        BY <4>1, <2>8
    <3>1. CASE i = Len(queue) \/ j = Len(queue)
      <4>1. queue'[Len(queue)].id = h.id
        BY <2>3
      <4> QED
        BY <3>0, <3>1, <4>1
    <3>2. CASE i # Len(queue) /\ j # Len(queue)
      <4>1. i + 1 = j + 1
        BY <2>4, <3>2 DEF Places
      <4> QED
        BY <4>1, <1>2, <2>3
    <3> QED
      BY <3>1, <3>2
  <2>10. \A i \in 1..Len(queue'), t \in timers' : queue'[i].id # t.id
    BY <1>4, <2>1, <2>4 DEF Places
  <2>11. \A i \in 1..Len(queue') : ran'[queue'[i].id] = Never
    BY <1>1, <1>4, <2>4 DEF Places
  <2>12. Places'
    BY <1>1, <2>1, <2>9, <2>10, <2>11 DEF Places
  <2> QED
    BY <2>5, <2>7, <2>12
<1> QED
  BY <1>6, <1>7

\* An inline Invoke runs a fresh closure with no delay.
LEMMA PendingHandlerInvoke ==
  ASSUME PendingInv, HandlerInvoke
  PROVE Known' /\ Delays' /\ Places'
<1>0. TypeOK /\ Known /\ Delays /\ Places
  BY DEF PendingInv
<1> USE <1>0, BoundsAssumption
<1>1. created + 1 \in Ids /\ created \in Nat /\ created' = created + 1
  <2>1. created + 1 \in Ids
    BY SubmitType DEF HandlerInvoke, Kinds
  <2> QED
    BY <2>1 DEF HandlerInvoke, Submit, TypeOK
<1>2. queue' = queue /\ timers' = timers /\ now' = now
  BY DEF HandlerInvoke
<1>3. /\ calls'[created + 1] = [kind |-> "invoke", delay |-> 0, posted |-> now]
      /\ \A id \in Ids : id <= created => calls'[id] = calls[id]
  BY <1>1 DEF HandlerInvoke, Submit, TypeOK
<1>4. /\ ran'[created + 1] = now
      /\ \A id \in Ids : id <= created => ran'[id] = ran[id]
      /\ \A id \in Ids : id # created + 1 => ran'[id] = ran[id]
  BY <1>1 DEF HandlerInvoke, TypeOK
<1>5. \A i \in 1..Len(queue) : queue[i].id \in Ids /\ queue[i].id <= created
  BY QueueItems DEF Known
<1>6. \A t \in timers : t.id \in Ids /\ t.id <= created
  BY DEF TypeOK, Known
<1>7. now \in Nat /\ \A id \in Ids : id \in Nat
  BY DEF TypeOK, Ids
<1>8. Known'
  BY <1>1, <1>2, <1>4, <1>5, <1>6, <1>7 DEF Known
<1>9. NeverEarly'
  BY <1>1, <1>2, <1>3, <1>4, <1>7 DEF NeverEarly, Delays, Known
<1>10. \A id \in Ids : id <= created' => calls'[id].posted <= now
  BY <1>1, <1>3, <1>7 DEF Delays
<1>11. Delays'
  BY <1>2, <1>3, <1>5, <1>6, <1>9, <1>10 DEF Delays
<1>12. Places'
  BY <1>2, <1>4, <1>5, <1>6 DEF Places
<1> QED
  BY <1>8, <1>11, <1>12

\* Steps that leave the closures where they are.
LEMMA PendingKept ==
  ASSUME PendingInv, UNCHANGED <<queue, timers, created, calls, ran>>, now' \in Nat, now' >= now
  PROVE Known' /\ Delays' /\ Places'
<1>0. TypeOK /\ Known /\ Delays /\ Places
  BY DEF PendingInv
<1>1. now \in Nat /\ \A id \in Ids : calls[id].posted \in Nat /\ calls[id].delay \in Nat
  BY <1>0 DEF TypeOK, Calls
<1>2. Known' /\ Places' /\ NeverEarly'
  BY <1>0 DEF Known, Places, NeverEarly, Delays
<1>3. \A id \in Ids : id <= created => calls[id].posted <= now'
  BY <1>0, <1>1 DEF Delays
<1>4. \A i \in 1..Len(queue) : queue[i].kind = "expired" =>
                calls[queue[i].id].posted + calls[queue[i].id].delay <= now'
  BY <1>0, <1>1, QueueItems DEF Delays
<1>5. Delays'
  BY <1>0, <1>2, <1>3, <1>4 DEF Delays
<1> QED
  BY <1>2, <1>5

\* Every step keeps the invariant of pending closures.
LEMMA PendingStep == PendingInv /\ [Next]_vars => PendingInv'
<1> SUFFICES ASSUME PendingInv, [Next]_vars PROVE Known' /\ Delays' /\ Places'
  BY TypeStep DEF PendingInv
<1>0. TypeOK /\ now \in Nat
  BY DEF PendingInv, TypeOK
<1> USE BoundsAssumption, InvokersAssumption
<1>1. ASSUME NEW c \in Callers, Post(c) PROVE Known' /\ Delays' /\ Places'
  BY <1>1, PendingAppend DEF Post, Kinds, Threads
<1>2. ASSUME NEW c \in Callers, PostDelayed(c) PROVE Known' /\ Delays' /\ Places'
  BY <1>2, PendingAppend DEF PostDelayed, Kinds, Threads
<1>3. ASSUME NEW c \in Invokers, Invoke(c) PROVE Known' /\ Delays' /\ Places'
  BY <1>3, PendingAppend DEF Invoke, Kinds, Threads
<1>4. CASE HandlerPost
  BY <1>4, PendingAppend DEF HandlerPost, Kinds, Threads
<1>5. CASE HandlerPostDelayed
  <2>1. PICK delay \in 0..MaxDelay :
          /\ Submit("delayed", delay)
          /\ IF delay > 0
               THEN ScheduleTaskAfter(created + 1, delay) /\ queue' = queue
               ELSE PostItem(created + 1, "expired", "queue") /\ timers' = timers
    BY <1>5 DEF HandlerPostDelayed
  <2>2. ran' = ran /\ now' = now
    BY <1>5 DEF HandlerPostDelayed
  <2>3. CASE delay > 0
    BY <2>1, <2>2, <2>3, PendingTimer DEF Kinds
  <2>4. CASE ~(delay > 0)
    <3>1. delay = 0
      BY <2>4
    <3> QED
      BY <2>1, <2>2, <2>4, <3>1, PendingAppend DEF Kinds, Threads
  <2> QED
    BY <2>3, <2>4
<1>6. CASE HandlerInvoke
  BY <1>6, PendingHandlerInvoke
<1>7. CASE RunPosted
  BY <1>7, PendingRunPosted
<1>8. CASE RunDelayedWrapper
  BY <1>8, PendingWrapper
<1>9. CASE RunTimer
  BY <1>9, PendingRunTimer
<1>10. CASE \/ HandlerReturn \/ SignalInvoker \/ ThreadExit \/ DeleteBegin \/ DeleteReturn
            \/ (\E c \in Callers : InvokeReturn(c)) \/ UNCHANGED vars
  <2>1. UNCHANGED <<queue, timers, created, calls, ran, now>>
    BY <1>10 DEF HandlerReturn, SignalInvoker, ThreadExit, DeleteBegin, DeleteReturn,
                 InvokeReturn, vars
  <2> QED
    BY <1>0, <2>1, PendingKept
<1>11. CASE Tick
  BY <1>0, <1>11, PendingKept DEF Tick
<1> QED
  BY <1>1, <1>2, <1>3, <1>4, <1>5, <1>6, <1>7, <1>8, <1>9, <1>10, <1>11
     DEF Next, QueueThread

\* PendingInv holds initially: nothing is pending.
LEMMA PendingInit == Init => PendingInv
<1> SUFFICES ASSUME Init PROVE PendingInv
  OBVIOUS
<1>1. Len(queue) = 0 /\ timers = {} /\ created = 0 /\ \A id \in Ids : ran[id] = Never
  BY DEF Init
<1>2. 1..Len(queue) = {} /\ \A id \in Ids : ~(id <= created)
  BY <1>1 DEF Ids
<1> QED
  BY <1>1, <1>2, TypeInit DEF PendingInv, Known, Delays, NeverEarly, Places

\* PostDelayed never runs a closure before its delay has passed, whichever of its
\* paths the closure takes.
THEOREM DelaySafe == Spec => []NeverEarly
<1>1. PendingInv => NeverEarly
  BY DEF PendingInv, Delays
<1> QED
  BY <1>1, PendingInit, PendingStep, PTL DEF Spec

\* A closure is never in two places of the queue, and never pending once started.
THEOREM RunsOnceSafe == Spec => []RunsOnce
<1>1. PendingInv => RunsOnce
  BY DEF PendingInv, Places, RunsOnce
<1> QED
  BY <1>1, PendingInit, PendingStep, PTL DEF Spec

-----------------------------------------------------------------------------
(* Invoke with one invoker                                                   *)
(*                                                                           *)
(* With a single invoking thread the shared event_ is sound: the event can   *)
(* be set only while that thread waits, after its closure has returned, and  *)
(* when no other invoked closure is pending or running.                      *)

OneInvoker == \A a, b \in Invokers : a = b

\* Thread c is blocked in the Invoke of closure id.
Waits(c, id) == c \in Invokers /\ pc[c] = "waiting" /\ mine[c] = id

EventInv ==
    event => /\ \E c \in Invokers : pc[c] = "waiting"
             /\ \A c \in Invokers : mine[c] \in done
             /\ cur.kind # "invoke"
             /\ \A i \in 1..Len(queue) : queue[i].kind # "invoke"

CurInv ==
    /\ cur.kind = "invoke" => cur.phase # "idle" /\ Waits(cur.caller, cur.id)
    /\ cur.phase # "idle" => ran[cur.id] # Never
    /\ cur.phase = "signal" => cur.kind = "invoke" /\ cur.id \in done

StrandInv ==
    \A i \in 1..Len(queue) : queue[i].kind = "invoke" => Waits(queue[i].caller, queue[i].id)

WaitInv == \A c \in Callers : pc[c] = "waiting" => c \in Invokers

InvokeInv ==
    /\ PendingInv
    /\ StrandInv
    /\ WaitInv
    /\ CurInv
    /\ EventInv
    /\ returned \subseteq done

\* Appending a closure that is not an Invoke.
LEMMA InvokeAppend ==
  ASSUME InvokeInv, NEW e \in Items, e.kind # "invoke", queue' = Append(queue, e),
         UNCHANGED <<cur, event, pc, mine, ran, done, returned>>
  PROVE StrandInv' /\ WaitInv' /\ CurInv' /\ EventInv' /\ returned' \subseteq done'
<1>1. TypeOK
  BY DEF InvokeInv, PendingInv
<1>2. /\ Len(queue') = Len(queue) + 1 /\ Len(queue) \in Nat
      /\ \A i \in 1..Len(queue) : queue'[i] = queue[i]
      /\ queue'[Len(queue) + 1] = e
  BY <1>1, AppendAt DEF TypeOK
<1>3. \A i \in 1..Len(queue') : i \in 1..Len(queue) \/ queue'[i] = e
  <2>1. \A i \in 1..(Len(queue) + 1) : i \in 1..Len(queue) \/ i = Len(queue) + 1
    BY <1>2
  <2> QED
    BY <1>2, <2>1
<1>4. \A i \in 1..Len(queue') : queue'[i].kind = "invoke" => i \in 1..Len(queue) /\ queue'[i] = queue[i]
  BY <1>2, <1>3
<1> QED
  BY <1>4 DEF InvokeInv, StrandInv, WaitInv, CurInv, EventInv, Waits

\* Every step keeps InvokeInv when one thread invokes.
LEMMA InvokeStep ==
  ASSUME OneInvoker
  PROVE InvokeInv /\ [Next]_vars => InvokeInv'
<1> SUFFICES ASSUME InvokeInv, [Next]_vars PROVE InvokeInv'
  OBVIOUS
<1> USE BoundsAssumption, InvokersAssumption
<1>a. PendingInv' /\ PendingInv /\ TypeOK /\ TypeOK' /\ Known /\ Places
  BY PendingStep DEF InvokeInv, PendingInv
<1>b. now \in Nat /\ now # Never /\ cur \in Working \cup {Idle} /\ ran \in [Ids -> 0..MaxTime \cup {Never}]
  BY <1>a DEF TypeOK, Never
<1>1. ASSUME NEW c \in Callers, Post(c) PROVE InvokeInv'
  <2>1. [id |-> created + 1, kind |-> "task", caller |-> c] \in Items
    BY <1>a, <1>1, SubmitType DEF Post, Items, Kinds, Threads
  <2>2. StrandInv' /\ WaitInv' /\ CurInv' /\ EventInv' /\ returned' \subseteq done'
    BY <1>1, <2>1, InvokeAppend DEF Post, PostItem
  <2> QED
    BY <1>a, <2>2 DEF InvokeInv
<1>2. ASSUME NEW c \in Callers, PostDelayed(c) PROVE InvokeInv'
  <2>1. [id |-> created + 1, kind |-> "delayed", caller |-> c] \in Items
    BY <1>a, <1>2, SubmitType DEF PostDelayed, Items, Kinds, Threads
  <2>2. StrandInv' /\ WaitInv' /\ CurInv' /\ EventInv' /\ returned' \subseteq done'
    BY <1>2, <2>1, InvokeAppend DEF PostDelayed, PostItem
  <2> QED
    BY <1>a, <2>2 DEF InvokeInv
<1>3. ASSUME NEW c \in Invokers, Invoke(c) PROVE InvokeInv'
  <2> DEFINE e == [id |-> created + 1, kind |-> "invoke", caller |-> c]
  <2>1. e \in Items /\ created + 1 \in Ids
    BY <1>a, <1>3, SubmitType DEF Invoke, Items, Kinds, Threads
  <2>2. /\ queue' = Append(queue, e) /\ pc[c] = "ready"
        /\ pc' = [pc EXCEPT ![c] = "waiting"] /\ mine' = [mine EXCEPT ![c] = created + 1]
        /\ UNCHANGED <<cur, event, ran, done, returned>>
    BY <1>3 DEF Invoke, MayCall, PostItem
  <2>3. \A d \in Invokers : d = c
    BY DEF OneInvoker
  <2>4. /\ ~event /\ cur.kind # "invoke"
        /\ \A i \in 1..Len(queue) : queue[i].kind # "invoke"
    BY <2>2, <2>3 DEF InvokeInv, StrandInv, WaitInv, EventInv, CurInv, Waits
  <2>5. pc'[c] = "waiting" /\ mine'[c] = created + 1 /\ \A d \in Callers : d # c => pc'[d] = pc[d]
    BY <1>a, <2>2 DEF TypeOK
  <2>6. /\ Len(queue') = Len(queue) + 1 /\ Len(queue) \in Nat
        /\ \A i \in 1..Len(queue) : queue'[i] = queue[i]
        /\ queue'[Len(queue) + 1] = e
    BY <1>a, <2>1, <2>2, AppendAt DEF TypeOK
  <2>7. \A i \in 1..Len(queue') : queue'[i].kind = "invoke" => queue'[i] = e
    <3>1. \A i \in 1..(Len(queue) + 1) : i \in 1..Len(queue) \/ i = Len(queue) + 1
      BY <2>6
    <3> QED
      BY <2>4, <2>6, <3>1
  <2>8. StrandInv'
    BY <2>5, <2>7 DEF StrandInv, Waits
  <2>9. WaitInv'
    BY <2>5 DEF InvokeInv, WaitInv
  <2>10. CurInv' /\ EventInv'
    BY <2>2, <2>4 DEF InvokeInv, StrandInv, WaitInv, CurInv, EventInv
  <2> QED
    BY <1>a, <2>2, <2>8, <2>9, <2>10 DEF InvokeInv
<1>4. ASSUME NEW c \in Callers, InvokeReturn(c) PROVE InvokeInv'
  <2>1. /\ c \in Invokers /\ mine[c] \in done /\ cur.kind # "invoke"
        /\ \A i \in 1..Len(queue) : queue[i].kind # "invoke"
    BY <1>4 DEF InvokeReturn, InvokeInv, StrandInv, WaitInv, EventInv
  <2>2. \A d \in Callers : pc'[d] = "waiting" => pc[d] = "waiting"
    BY <1>a, <1>4 DEF InvokeReturn, TypeOK
  <2> QED
    BY <1>a, <1>4, <2>1, <2>2 DEF InvokeReturn, InvokeInv, StrandInv, WaitInv, CurInv, EventInv
<1>5. CASE HandlerPost
  <2>1. [id |-> created + 1, kind |-> "task", caller |-> "queue"] \in Items
    BY <1>a, <1>5, SubmitType DEF HandlerPost, Items, Kinds, Threads
  <2>2. StrandInv' /\ WaitInv' /\ CurInv' /\ EventInv' /\ returned' \subseteq done'
    BY <1>5, <2>1, InvokeAppend DEF HandlerPost, PostItem
  <2> QED
    BY <1>a, <2>2 DEF InvokeInv
<1>6. CASE HandlerPostDelayed
  <2>1. PICK delay \in 0..MaxDelay :
          /\ Submit("delayed", delay)
          /\ IF delay > 0
               THEN ScheduleTaskAfter(created + 1, delay) /\ queue' = queue
               ELSE PostItem(created + 1, "expired", "queue") /\ timers' = timers
    BY <1>6 DEF HandlerPostDelayed
  <2>2. UNCHANGED <<cur, event, pc, mine, ran, done, returned>>
    BY <1>6 DEF HandlerPostDelayed
  <2>3. CASE delay > 0
    BY <1>a, <2>1, <2>2, <2>3 DEF InvokeInv, StrandInv, WaitInv, CurInv, EventInv, Waits
  <2>4. CASE ~(delay > 0)
    <3>1. [id |-> created + 1, kind |-> "expired", caller |-> "queue"] \in Items
      BY <1>a, <2>1, SubmitType DEF Items, Kinds, Threads
    <3>2. StrandInv' /\ WaitInv' /\ CurInv' /\ EventInv' /\ returned' \subseteq done'
      BY <2>1, <2>2, <2>4, <3>1, InvokeAppend DEF PostItem
    <3> QED
      BY <1>a, <3>2 DEF InvokeInv
  <2> QED
    BY <2>3, <2>4
<1>7. CASE HandlerInvoke
  <2>1. cur.phase # "idle" => ran'[cur.id] # Never
    <3> HAVE cur.phase # "idle"
    <3>1. cur.id \in Ids /\ ran[cur.id] # Never
      BY <1>b DEF Idle, Working, InvokeInv, CurInv
    <3> QED
      BY <3>1, <1>7, <1>b DEF HandlerInvoke
  <2>2. CurInv'
    BY <1>7, <2>1 DEF HandlerInvoke, InvokeInv, StrandInv, WaitInv, CurInv, Waits
  <2> QED
    BY <1>a, <1>7, <2>2 DEF HandlerInvoke, InvokeInv, StrandInv, WaitInv, EventInv, Waits
<1>8. CASE RunPosted
  <2> DEFINE h == queue[1]
  <2>1. /\ Len(queue) \in Nat \ {0} /\ Len(queue') = Len(queue) - 1
        /\ \A i \in 1..(Len(queue) - 1) : queue'[i] = queue[i + 1]
        /\ Head(queue) = h
    BY <1>8, <1>a, TailAt DEF RunPosted, TypeOK
  <2>2. \A i \in 1..Len(queue') : i + 1 \in 1..Len(queue) /\ queue'[i] = queue[i + 1]
    <3>1. \A i \in 1..(Len(queue) - 1) : i + 1 \in 1..Len(queue)
      BY <2>1
    <3> QED
      BY <2>1, <3>1
  <2>3. 1 \in 1..Len(queue) /\ h.id \in Ids
    BY <1>a, <2>1, QueueItems
  <2>4. /\ cur' = [phase |-> "handler", id |-> h.id, kind |-> h.kind, caller |-> h.caller]
        /\ ran' = [ran EXCEPT ![h.id] = now]
        /\ UNCHANGED <<event, pc, mine, done, returned>>
    BY <1>8, <2>1 DEF RunPosted
  <2>5. ran'[h.id] # Never
    BY <1>b, <2>3, <2>4
  <2>6. h.kind = "invoke" => Waits(h.caller, h.id)
    BY <2>3 DEF InvokeInv, StrandInv
  <2>7. CurInv'
    BY <2>4, <2>5, <2>6 DEF CurInv, Waits
  <2>8. EventInv'
    BY <2>2, <2>3, <2>4 DEF InvokeInv, StrandInv, WaitInv, EventInv
  <2>9. StrandInv'
    BY <2>2, <2>4 DEF InvokeInv, StrandInv, WaitInv, Waits
  <2> QED
    BY <1>a, <2>4, <2>7, <2>8, <2>9 DEF InvokeInv, WaitInv
<1>9. CASE RunDelayedWrapper
  <2> DEFINE h == queue[1]
             e == [id |-> h.id, kind |-> "expired", caller |-> h.caller]
  <2>1. /\ Len(queue) \in Nat \ {0} /\ Len(Tail(queue)) = Len(queue) - 1
        /\ \A i \in 1..(Len(queue) - 1) : Tail(queue)[i] = queue[i + 1]
        /\ Head(queue) = h
    BY <1>9, <1>a, TailAt DEF RunDelayedWrapper, TypeOK
  <2>2. e \in Items /\ Tail(queue) \in Seq(Items)
    BY <1>a, <1>9, <2>1, HeadType DEF RunDelayedWrapper, Items
  <2>3. UNCHANGED <<cur, event, pc, mine, ran, done, returned>>
    BY <1>9 DEF RunDelayedWrapper
  <2>4. queue' = Tail(queue) \/ queue' = Append(Tail(queue), e)
    BY <1>9, <2>1 DEF RunDelayedWrapper
  <2>5. \A i \in 1..Len(Tail(queue)) : i + 1 \in 1..Len(queue) /\ Tail(queue)[i] = queue[i + 1]
    <3>1. \A i \in 1..(Len(queue) - 1) : i + 1 \in 1..Len(queue)
      BY <2>1
    <3> QED
      BY <2>1, <3>1
  <2>6. \A i \in 1..Len(queue') : queue'[i].kind = "invoke" =>
                                    \E j \in 1..Len(queue) : queue'[i] = queue[j]
    <3>1. CASE queue' = Tail(queue)
      BY <2>5, <3>1
    <3>2. CASE queue' = Append(Tail(queue), e)
      <4>1. /\ Len(queue') = Len(Tail(queue)) + 1
            /\ \A i \in 1..Len(Tail(queue)) : queue'[i] = Tail(queue)[i]
            /\ queue'[Len(Tail(queue)) + 1] = e
        BY <2>2, <3>2, AppendAt
      <4>2. Len(Tail(queue)) \in Nat
        BY <2>1
      <4>3. \A i \in 1..(Len(Tail(queue)) + 1) : i \in 1..Len(Tail(queue)) \/ i = Len(Tail(queue)) + 1
        BY <4>2
      <4> QED
        BY <2>5, <4>1, <4>3
    <3> QED
      BY <2>4, <3>1, <3>2
  <2> QED
    BY <1>a, <2>3, <2>6 DEF InvokeInv, StrandInv, WaitInv, CurInv, EventInv, Waits
<1>10. CASE RunTimer
  <2>1. PICK t \in timers :
          /\ cur' = [phase |-> "handler", id |-> t.id, kind |-> "expired", caller |-> "queue"]
          /\ ran' = [ran EXCEPT ![t.id] = now]
    BY <1>10 DEF RunTimer
  <2>2. t.id \in Ids
    BY <1>a DEF TypeOK
  <2>3. ran'[t.id] # Never
    BY <1>b, <2>1, <2>2
  <2>4. CurInv'
    BY <2>1, <2>3 DEF CurInv
  <2> QED
    BY <1>a, <1>10, <2>1, <2>4 DEF RunTimer, InvokeInv, StrandInv, WaitInv, EventInv, Waits
<1>11. CASE HandlerReturn
  <2>1. cur' = IF cur.kind = "invoke" THEN [cur EXCEPT !.phase = "signal"] ELSE Idle
    BY <1>11 DEF HandlerReturn
  <2>2. cur \in Working
    BY <1>b, <1>11 DEF HandlerReturn, Idle
  <2>3. CASE cur.kind = "invoke"
    <3>1. cur'.kind = "invoke" /\ cur'.caller = cur.caller /\ cur'.id = cur.id /\ cur'.phase = "signal"
      BY <2>1, <2>2, <2>3 DEF Working
    <3>2. CurInv'
      BY <1>11, <2>3, <3>1 DEF HandlerReturn, InvokeInv, StrandInv, WaitInv, CurInv, Waits
    <3> QED
      BY <1>a, <1>11, <2>3, <3>1, <3>2 DEF HandlerReturn, InvokeInv, StrandInv, WaitInv, EventInv, Waits
  <2>4. CASE cur.kind # "invoke"
    <3>1. CurInv'
      BY <2>1, <2>4 DEF CurInv, Idle
    <3> QED
      BY <1>a, <1>11, <2>1, <2>4, <3>1 DEF HandlerReturn, InvokeInv, StrandInv, WaitInv, EventInv, Waits, Idle
  <2> QED
    BY <2>3, <2>4
<1>12. CASE SignalInvoker
  <2>1. /\ Waits(cur.caller, cur.id) /\ cur.id \in done /\ ran[cur.id] # Never
        /\ cur' = Idle /\ event' = TRUE
        /\ UNCHANGED <<queue, pc, mine, ran, done, returned>>
    BY <1>12 DEF SignalInvoker, InvokeInv, CurInv
  <2>2. \A c \in Invokers : mine[c] \in done /\ mine[c] = cur.id
    BY <2>1 DEF Waits, OneInvoker
  <2>3. \A i \in 1..Len(queue) : queue[i].kind # "invoke"
    BY <1>a, <2>1, <2>2 DEF InvokeInv, StrandInv, WaitInv, Waits, Places
  <2>4. EventInv'
    BY <2>1, <2>2, <2>3 DEF EventInv, Waits, Idle
  <2>5. CurInv'
    BY <2>1 DEF CurInv, Idle
  <2> QED
    BY <1>a, <2>1, <2>4, <2>5 DEF InvokeInv, StrandInv, WaitInv, Waits
<1>13. CASE ThreadExit \/ DeleteBegin \/ DeleteReturn \/ Tick \/ UNCHANGED vars
  <2>1. UNCHANGED <<queue, cur, event, pc, mine, ran, done, returned>>
    BY <1>13 DEF ThreadExit, DeleteBegin, DeleteReturn, Tick, vars
  <2> QED
    BY <1>a, <2>1 DEF InvokeInv, StrandInv, WaitInv, CurInv, EventInv, Waits
<1> QED
  BY <1>1, <1>2, <1>3, <1>4, <1>5, <1>6, <1>7, <1>8, <1>9, <1>10, <1>11, <1>12, <1>13
     DEF Next, QueueThread

\* With one invoking thread, Invoke returns only after its handler has returned.
THEOREM InvokeSafe == OneInvoker => (Spec => []InvokeBlocksUntilComplete)
<1> SUFFICES ASSUME OneInvoker PROVE Spec => []InvokeBlocksUntilComplete
  OBVIOUS
<1>1. Init => InvokeInv
  <2> SUFFICES ASSUME Init PROVE InvokeInv
    OBVIOUS
  <2>1. 1..Len(queue) = {} /\ cur = Idle /\ event = FALSE /\ returned = {}
    BY DEF Init
  <2>2. \A c \in Callers : pc[c] # "waiting"
    BY DEF Init
  <2> QED
    BY <2>1, <2>2, PendingInit DEF InvokeInv, StrandInv, WaitInv, CurInv, EventInv, Idle
<1>2. InvokeInv => InvokeBlocksUntilComplete
  BY DEF InvokeInv, InvokeBlocksUntilComplete
<1>3. InvokeInv /\ [Next]_vars => InvokeInv'
  BY InvokeStep
<1> QED
  BY <1>1, <1>2, <1>3, PTL DEF Spec

-----------------------------------------------------------------------------
(* FIFO order                                                                *)
(*                                                                           *)
(* PostedInOrder speaks of closures that have started; to be inductive it    *)
(* needs the order of those that have not: along the strand the ids of       *)
(* posted and invoked closures grow, and all of them are above the ids that  *)
(* have started.                                                             *)

\* A closure that keeps its place in the strand: not a wrapper, and not a delayed
\* closure posted again.
Direct(item) == item.kind \in {"task", "invoke"}

StrandOrdered ==
    \A i, j \in 1..Len(queue) :
        i < j /\ Direct(queue[i]) /\ Direct(queue[j]) => queue[i].id < queue[j].id

StartedBefore ==
    \A k \in 1..Len(order) :
        /\ order[k] <= created
        /\ \A i \in 1..Len(queue) : Direct(queue[i]) => order[k] < queue[i].id

OrderInv == StrandOrdered /\ StartedBefore /\ PostedInOrder

\* A strand that keeps the direct items of an earlier one, in their order, is ordered.
LEMMA OrderKept ==
  ASSUME OrderInv, NEW d \in {0, 1},
         \A i \in 1..Len(queue') : Direct(queue'[i]) =>
             i + d \in 1..Len(queue) /\ queue'[i] = queue[i + d],
         Len(queue) \in Nat, Len(queue') \in Nat,
         order' = order, created \in Nat, created' \in Nat, created' >= created,
         order \in Seq(Ids)
  PROVE OrderInv'
<1>0. Len(order) \in Nat /\ \A k \in 1..Len(order) : order[k] \in Nat
  <2>1. \A k \in 1..Len(order) : order[k] \in Ids
    OBVIOUS
  <2> QED
    BY <2>1 DEF Ids
<1>1. StrandOrdered'
  <2> SUFFICES ASSUME NEW i \in 1..Len(queue'), NEW j \in 1..Len(queue'),
                      i < j, Direct(queue'[i]), Direct(queue'[j])
               PROVE queue'[i].id < queue'[j].id
    BY DEF StrandOrdered
  <2>1. i + d < j + d
    OBVIOUS
  <2>2. i + d \in 1..Len(queue) /\ j + d \in 1..Len(queue) /\ queue'[i] = queue[i + d] /\ queue'[j] = queue[j + d]
    OBVIOUS
  <2> QED
    BY <2>1, <2>2 DEF OrderInv, StrandOrdered
<1>2. StartedBefore'
  <2> SUFFICES ASSUME NEW k \in 1..Len(order)
               PROVE /\ order[k] <= created'
                     /\ \A i \in 1..Len(queue') : Direct(queue'[i]) => order[k] < queue'[i].id
    BY DEF StartedBefore
  <2>1. order[k] <= created'
    BY <1>0 DEF OrderInv, StartedBefore
  <2> QED
    BY <2>1 DEF OrderInv, StartedBefore
<1> QED
  BY <1>1, <1>2 DEF OrderInv, PostedInOrder

\* A fresh closure goes to the end of the strand.
LEMMA OrderAppend ==
  ASSUME TypeOK, Known, OrderInv,
         NEW kind \in Kinds, NEW delay \in 0..MaxDelay, Submit(kind, delay),
         NEW ikind \in Kinds \cup {"expired"}, NEW c \in Threads,
         PostItem(created + 1, ikind, c), order' = order
  PROVE OrderInv'
<1> USE BoundsAssumption
<1> DEFINE e == [id |-> created + 1, kind |-> ikind, caller |-> c]
           n == Len(queue)
<1>1. created + 1 \in Ids /\ created \in Nat /\ created' = created + 1
  <2>1. created + 1 \in Ids
    BY SubmitType
  <2> QED
    BY <2>1 DEF Submit, TypeOK
<1>2. e \in Items /\ queue' = Append(queue, e)
  BY <1>1 DEF Items, PostItem
<1>3. /\ Len(queue') = n + 1 /\ n \in Nat
      /\ \A i \in 1..n : queue'[i] = queue[i]
      /\ queue'[n + 1] = e
  BY <1>2, AppendAt DEF TypeOK
<1>4. \A i \in 1..Len(queue') : i \in 1..n \/ (i = n + 1 /\ queue'[i] = e)
  BY <1>3
<1>5. \A i \in 1..n : queue[i].id \in Nat /\ queue[i].id <= created
  BY QueueItems DEF Known, Ids
<1>6. \A k \in 1..Len(order) : order[k] \in Nat /\ order[k] <= created
  <2>1. \A k \in 1..Len(order) : order[k] \in Ids
    BY DEF TypeOK
  <2> QED
    BY <2>1 DEF OrderInv, StartedBefore, Ids
<1>7. StrandOrdered'
  <2> SUFFICES ASSUME NEW i \in 1..Len(queue'), NEW j \in 1..Len(queue'),
                      i < j, Direct(queue'[i]), Direct(queue'[j])
               PROVE queue'[i].id < queue'[j].id
    BY DEF StrandOrdered
  <2>1. i \in 1..n
    BY <1>3
  <2>2. CASE j = n + 1
    BY <2>1, <2>2, <1>1, <1>3, <1>5
  <2>3. CASE j # n + 1
    BY <2>1, <2>3, <1>3, <1>4 DEF OrderInv, StrandOrdered
  <2> QED
    BY <2>2, <2>3
<1>8. StartedBefore'
  <2> SUFFICES ASSUME NEW k \in 1..Len(order)
               PROVE /\ order[k] <= created'
                     /\ \A i \in 1..Len(queue') : Direct(queue'[i]) => order[k] < queue'[i].id
    BY DEF StartedBefore
  <2>1. order[k] <= created' /\ order[k] < e.id
    BY <1>1, <1>6
  <2>2. \A i \in 1..n : Direct(queue[i]) => order[k] < queue[i].id
    BY DEF OrderInv, StartedBefore
  <2> QED
    BY <2>1, <2>2, <1>3, <1>4
<1> QED
  BY <1>7, <1>8 DEF OrderInv, PostedInOrder

\* The head of the strand starts: it is below every direct closure behind it and
\* above every closure that has started.
LEMMA OrderRunPosted ==
  ASSUME TypeOK, Known, OrderInv, RunPosted
  PROVE OrderInv'
<1> DEFINE h == queue[1]
<1>1. /\ Len(queue) \in Nat \ {0} /\ Len(queue') = Len(queue) - 1
      /\ \A i \in 1..(Len(queue) - 1) : queue'[i] = queue[i + 1]
      /\ Head(queue) = h
  BY TailAt DEF RunPosted, TypeOK
<1>2. \A i \in 1..Len(queue') : i + 1 \in 1..Len(queue) /\ 1 < i + 1 /\ queue'[i] = queue[i + 1]
  BY <1>1
<1>3. 1 \in 1..Len(queue) /\ h.id \in Ids /\ h.id <= created /\ h \in Items
  BY <1>1, QueueItems DEF Known
<1>4. created \in Nat /\ created' = created /\ order \in Seq(Ids)
  BY DEF TypeOK, RunPosted
<1>5. CASE h.kind = "expired"
  <2>1. order' = order
    BY <1>1, <1>5 DEF RunPosted
  <2> QED
    BY <2>1, <1>1, <1>2, <1>4, OrderKept
<1>6. CASE h.kind # "expired"
  <2>1. Direct(h) /\ order' = Append(order, h.id)
    BY <1>1, <1>3, <1>6 DEF RunPosted, Direct, Items, Kinds
  <2>2. /\ Len(order') = Len(order) + 1 /\ Len(order) \in Nat
        /\ \A k \in 1..Len(order) : order'[k] = order[k]
        /\ order'[Len(order) + 1] = h.id
    BY <2>1, <1>3, <1>4, AppendAt
  <2>3. \A k \in 1..Len(order') : k \in 1..Len(order) \/ (k = Len(order) + 1 /\ order'[k] = h.id)
    BY <2>2
  <2>4. StrandOrdered'
    <3> SUFFICES ASSUME NEW i \in 1..Len(queue'), NEW j \in 1..Len(queue'),
                        i < j, Direct(queue'[i]), Direct(queue'[j])
                 PROVE queue'[i].id < queue'[j].id
      BY DEF StrandOrdered
    <3>1. i + 1 < j + 1
      BY <1>1
    <3> QED
      BY <3>1, <1>2 DEF OrderInv, StrandOrdered
  <2>5. StartedBefore'
    <3> SUFFICES ASSUME NEW k \in 1..Len(order')
                 PROVE /\ order'[k] <= created
                       /\ \A i \in 1..Len(queue') : Direct(queue'[i]) => order'[k] < queue'[i].id
      BY <1>4 DEF StartedBefore
    <3>1. CASE k \in 1..Len(order)
      BY <3>1, <2>2, <1>2 DEF OrderInv, StartedBefore
    <3>2. CASE order'[k] = h.id
      BY <3>2, <2>1, <1>2, <1>3 DEF OrderInv, StrandOrdered
    <3> QED
      BY <3>1, <3>2, <2>3
  <2>6. PostedInOrder'
    <3> SUFFICES ASSUME NEW k \in 1..Len(order'), NEW l \in 1..Len(order'), k < l
                 PROVE order'[k] < order'[l]
      BY DEF PostedInOrder
    <3>1. k \in 1..Len(order)
      BY <2>2
    <3>2. CASE l = Len(order) + 1
      BY <3>1, <3>2, <2>1, <2>2, <1>3 DEF OrderInv, StartedBefore
    <3>3. CASE l # Len(order) + 1
      BY <3>1, <3>3, <2>2, <2>3 DEF OrderInv, PostedInOrder
    <3> QED
      BY <3>2, <3>3
  <2> QED
    BY <2>4, <2>5, <2>6 DEF OrderInv
<1> QED
  BY <1>5, <1>6

\* The wrapper leaves the strand, and its closure may come back as an expired one.
LEMMA OrderWrapper ==
  ASSUME TypeOK, OrderInv, RunDelayedWrapper
  PROVE OrderInv'
<1> DEFINE h == queue[1]
           e == [id |-> h.id, kind |-> "expired", caller |-> h.caller]
           n == Len(Tail(queue))
<1>1. /\ Len(queue) \in Nat \ {0} /\ n = Len(queue) - 1
      /\ \A i \in 1..(Len(queue) - 1) : Tail(queue)[i] = queue[i + 1]
      /\ Head(queue) = h
  BY TailAt DEF RunDelayedWrapper, TypeOK
<1>2. e \in Items /\ Tail(queue) \in Seq(Items)
  BY <1>1, HeadType DEF RunDelayedWrapper, Items
<1>3. queue' = Tail(queue) \/ queue' = Append(Tail(queue), e)
  BY <1>1 DEF RunDelayedWrapper
<1>4. n \in Nat /\ \A i \in 1..n : i + 1 \in 1..Len(queue) /\ Tail(queue)[i] = queue[i + 1]
  BY <1>1
<1>5. /\ Len(queue') \in Nat
      /\ \A i \in 1..Len(queue') : Direct(queue'[i]) =>
             i + 1 \in 1..Len(queue) /\ queue'[i] = queue[i + 1]
  <2>1. CASE queue' = Tail(queue)
    BY <2>1, <1>4
  <2>2. CASE queue' = Append(Tail(queue), e)
    <3>1. /\ Len(queue') = n + 1
          /\ \A i \in 1..n : queue'[i] = Tail(queue)[i]
          /\ queue'[n + 1] = e
      BY <2>2, <1>2, AppendAt
    <3>2. ~Direct(e)
      BY DEF Direct
    <3>3. \A i \in 1..(n + 1) : i \in 1..n \/ i = n + 1
      BY <1>4
    <3> QED
      BY <3>1, <3>2, <3>3, <1>4
  <2> QED
    BY <1>3, <2>1, <2>2
<1>6. order' = order /\ created' = created /\ created \in Nat /\ order \in Seq(Ids)
  BY DEF RunDelayedWrapper, TypeOK
<1> QED
  BY <1>1, <1>5, <1>6, OrderKept

\* Every step keeps the order of the strand.
LEMMA OrderStep == PendingInv /\ OrderInv /\ [Next]_vars => OrderInv'
<1> SUFFICES ASSUME PendingInv, OrderInv, [Next]_vars PROVE OrderInv'
  OBVIOUS
<1>0. TypeOK /\ Known /\ created \in Nat /\ order \in Seq(Ids) /\ Len(queue) \in Nat
  BY DEF PendingInv, TypeOK
<1> USE BoundsAssumption, InvokersAssumption
<1>1. ASSUME NEW c \in Callers, Post(c) PROVE OrderInv'
  BY <1>0, <1>1, OrderAppend DEF Post, Kinds, Threads
<1>2. ASSUME NEW c \in Callers, PostDelayed(c) PROVE OrderInv'
  BY <1>0, <1>2, OrderAppend DEF PostDelayed, Kinds, Threads
<1>3. ASSUME NEW c \in Invokers, Invoke(c) PROVE OrderInv'
  BY <1>0, <1>3, OrderAppend DEF Invoke, Kinds, Threads
<1>4. CASE HandlerPost
  BY <1>0, <1>4, OrderAppend DEF HandlerPost, Kinds, Threads
<1>5. CASE HandlerPostDelayed
  <2>1. PICK delay \in 0..MaxDelay :
          /\ Submit("delayed", delay)
          /\ IF delay > 0
               THEN ScheduleTaskAfter(created + 1, delay) /\ queue' = queue
               ELSE PostItem(created + 1, "expired", "queue") /\ timers' = timers
    BY <1>5 DEF HandlerPostDelayed
  <2>2. order' = order
    BY <1>5 DEF HandlerPostDelayed
  <2>3. CASE delay > 0
    <3>1. queue' = queue /\ created' = created + 1
      BY <2>1, <2>3 DEF Submit
    <3> QED
      BY <1>0, <2>2, <3>1, OrderKept
  <2>4. CASE ~(delay > 0)
    BY <1>0, <2>1, <2>2, <2>4, OrderAppend DEF Kinds, Threads
  <2> QED
    BY <2>3, <2>4
<1>6. CASE RunPosted
  BY <1>0, <1>6, OrderRunPosted
<1>7. CASE RunDelayedWrapper
  BY <1>0, <1>7, OrderWrapper
<1>8. CASE \/ HandlerInvoke \/ RunTimer \/ HandlerReturn \/ SignalInvoker \/ ThreadExit
           \/ DeleteBegin \/ DeleteReturn \/ (\E c \in Callers : InvokeReturn(c)) \/ Tick
           \/ UNCHANGED vars
  <2>1. queue' = queue /\ order' = order /\ (created' = created \/ created' = created + 1)
    BY <1>8 DEF HandlerInvoke, Submit, RunTimer, HandlerReturn, SignalInvoker, ThreadExit,
                DeleteBegin, DeleteReturn, InvokeReturn, Tick, vars
  <2> QED
    BY <1>0, <2>1, OrderKept
<1> QED
  BY <1>1, <1>2, <1>3, <1>4, <1>5, <1>6, <1>7, <1>8 DEF Next, QueueThread

\* Tasks are executed in FIFO order: posted and invoked closures start in the order
\* they were submitted, for every number of threads and closures.
THEOREM FifoSafe == Spec => []PostedInOrder
<1>1. Init => OrderInv
  <2> SUFFICES ASSUME Init PROVE OrderInv
    OBVIOUS
  <2>1. 1..Len(queue) = {} /\ 1..Len(order) = {}
    BY DEF Init
  <2> QED
    BY <2>1 DEF OrderInv, StrandOrdered, StartedBefore, PostedInOrder
<1>2. OrderInv => PostedInOrder
  BY DEF OrderInv
<1> QED
  BY <1>1, <1>2, PendingInit, PendingStep, OrderStep, PTL DEF Spec

-----------------------------------------------------------------------------
(* Delete drains the queue                                                   *)
(*                                                                           *)
(* DeleteDrains holds only in the last state of a queue; the invariant says  *)
(* in every state where a closure that has been created is: in the strand,   *)
(* on a timer, running, or done.                                             *)

InStrand(id) == \E i \in 1..Len(queue) : queue[i].id = id
OnTimer(id) == \E t \in timers : t.id = id
Running(id) == cur.phase = "handler" /\ cur.id = id

Accounted ==
    \A id \in Ids : id <= created => id \in done \/ Running(id) \/ InStrand(id) \/ OnTimer(id)

\* What has finished or runs was created.
Finished ==
    /\ \A id \in done : id <= created
    /\ cur.phase = "handler" => cur.id <= created

\* Once the thread has exited nothing is left, and nobody can submit any more.
Exited == lifecycle \in {"exited", "deleted"} => queue = <<>> /\ timers = {} /\ cur = Idle

DrainInv == Accounted /\ Finished /\ Exited

\* A fresh closure is accounted for where it was put.
LEMMA DrainSubmit ==
  ASSUME TypeOK, DrainInv,
         NEW kind \in Kinds, NEW delay \in 0..MaxDelay, Submit(kind, delay),
         lifecycle = "running" \/ cur.phase = "handler",
         UNCHANGED <<cur, lifecycle>>,
         done \subseteq done', \A id \in done' : id \in done \/ id = created + 1,
         \A id \in Ids : InStrand(id) => InStrand(id)',
         \A id \in Ids : OnTimer(id) => OnTimer(id)',
         NEW n \in Ids, n = created + 1, n \in done' \/ InStrand(n)' \/ OnTimer(n)'
  PROVE DrainInv'
<1> USE BoundsAssumption
<1>1. created + 1 \in Ids /\ created \in Nat /\ created' = created + 1
  <2>1. created + 1 \in Ids
    BY SubmitType
  <2> QED
    BY <2>1 DEF Submit, TypeOK
<1>2. \A id \in Ids : id \in Nat
  BY DEF Ids
<1>3. Accounted'
  <2> SUFFICES ASSUME NEW id \in Ids, id <= created'
               PROVE id \in done' \/ Running(id)' \/ InStrand(id)' \/ OnTimer(id)'
    BY DEF Accounted
  <2>1. id <= created \/ id = created + 1
    BY <1>1, <1>2
  <2>2. CASE id <= created
    <3>1. id \in done \/ Running(id) \/ InStrand(id) \/ OnTimer(id)
      BY <2>2 DEF DrainInv, Accounted
    <3>2. Running(id) => Running(id)'
      BY DEF Running
    <3> QED
      BY <3>1, <3>2
  <2>3. CASE id = created + 1
    BY <2>3, <1>1
  <2> QED
    BY <2>1, <2>2, <2>3
<1>4. Finished'
  <2>1. \A id \in done : id \in Nat
    BY <1>2 DEF TypeOK
  <2>2. \A id \in done' : id <= created'
    BY <2>1, <1>1 DEF DrainInv, Finished
  <2>3. cur.phase = "handler" => cur.id \in Ids
    BY DEF TypeOK, Idle, Working
  <2>4. cur.phase = "handler" => cur.id <= created'
    <3> HAVE cur.phase = "handler"
    <3>1. cur.id <= created
      BY DEF DrainInv, Finished
    <3>2. cur.id \in Nat
      BY <2>3, <1>2
    <3> QED
      BY <3>1, <3>2, <1>1
  <2> QED
    BY <2>2, <2>4 DEF Finished
<1>5. ~(lifecycle \in {"exited", "deleted"})
  BY DEF DrainInv, Exited, Idle
<1>6. Exited'
  BY <1>5 DEF Exited
<1> QED
  BY <1>3, <1>4, <1>6 DEF DrainInv

\* A post adds an item to the strand and keeps the others.
LEMMA DrainPost ==
  ASSUME TypeOK, NEW kind \in Kinds, NEW delay \in 0..MaxDelay, Submit(kind, delay),
         NEW ikind \in Kinds \cup {"expired"}, NEW c \in Threads,
         PostItem(created + 1, ikind, c), NEW n \in Ids, n = created + 1
  PROVE /\ \A id \in Ids : InStrand(id) => InStrand(id)'
        /\ InStrand(n)'
<1> DEFINE e == [id |-> created + 1, kind |-> ikind, caller |-> c]
<1>1. e \in Items /\ queue' = Append(queue, e)
  BY SubmitType DEF Items, PostItem
<1>2. /\ Len(queue') = Len(queue) + 1 /\ Len(queue) \in Nat
      /\ \A i \in 1..Len(queue) : queue'[i] = queue[i]
      /\ queue'[Len(queue) + 1] = e
  BY <1>1, AppendAt DEF TypeOK
<1>3. Len(queue) + 1 \in 1..Len(queue') /\ \A i \in 1..Len(queue) : i \in 1..Len(queue')
  BY <1>2
<1> QED
  BY <1>2, <1>3 DEF InStrand

\* Every step keeps account of the closures.
LEMMA DrainStep == PendingInv /\ DrainInv /\ [Next]_vars => DrainInv'
<1> SUFFICES ASSUME PendingInv, DrainInv, [Next]_vars PROVE DrainInv'
  OBVIOUS
<1>0. TypeOK /\ Known /\ created \in Nat /\ Len(queue) \in Nat
  BY DEF PendingInv, TypeOK
<1> USE BoundsAssumption, InvokersAssumption
<1>1. ASSUME NEW c \in Callers, Post(c) PROVE DrainInv'
  <2>1. Submit("task", 0) /\ PostItem(created + 1, "task", c) /\ lifecycle = "running"
    BY <1>1 DEF Post, MayCall
  <2>2. UNCHANGED <<cur, lifecycle, done, timers>>
    BY <1>1 DEF Post
  <2>n. PICK n \in Ids : n = created + 1
    BY <1>0, <2>1, SubmitType DEF Kinds
  <2>3. (\A id \in Ids : InStrand(id) => InStrand(id)') /\ InStrand(n)'
    BY <1>0, <2>1, <2>n, DrainPost DEF Kinds, Threads
  <2>4. \A id \in Ids : OnTimer(id) => OnTimer(id)'
    BY <2>2 DEF OnTimer
  <2> QED
    BY <1>0, <2>1, <2>2, <2>3, <2>4, <2>n, DrainSubmit DEF Kinds
<1>2. ASSUME NEW c \in Callers, PostDelayed(c) PROVE DrainInv'
  <2>1. PICK delay \in 0..MaxDelay :
          Submit("delayed", delay) /\ PostItem(created + 1, "delayed", c) /\ lifecycle = "running"
    BY <1>2 DEF PostDelayed, MayCall
  <2>2. UNCHANGED <<cur, lifecycle, done, timers>>
    BY <1>2 DEF PostDelayed
  <2>n. PICK n \in Ids : n = created + 1
    BY <1>0, <2>1, SubmitType DEF Kinds
  <2>3. (\A id \in Ids : InStrand(id) => InStrand(id)') /\ InStrand(n)'
    BY <1>0, <2>1, <2>n, DrainPost DEF Kinds, Threads
  <2>4. \A id \in Ids : OnTimer(id) => OnTimer(id)'
    BY <2>2 DEF OnTimer
  <2> QED
    BY <1>0, <2>1, <2>2, <2>3, <2>4, <2>n, DrainSubmit DEF Kinds
<1>3. ASSUME NEW c \in Invokers, Invoke(c) PROVE DrainInv'
  <2>1. Submit("invoke", 0) /\ PostItem(created + 1, "invoke", c) /\ lifecycle = "running"
    BY <1>3 DEF Invoke, MayCall
  <2>2. UNCHANGED <<cur, lifecycle, done, timers>>
    BY <1>3 DEF Invoke
  <2>n. PICK n \in Ids : n = created + 1
    BY <1>0, <2>1, SubmitType DEF Kinds
  <2>3. (\A id \in Ids : InStrand(id) => InStrand(id)') /\ InStrand(n)'
    BY <1>0, <2>1, <2>n, DrainPost DEF Kinds, Threads
  <2>4. \A id \in Ids : OnTimer(id) => OnTimer(id)'
    BY <2>2 DEF OnTimer
  <2> QED
    BY <1>0, <2>1, <2>2, <2>3, <2>4, <2>n, DrainSubmit DEF Kinds
<1>4. CASE HandlerPost
  <2>1. Submit("task", 0) /\ PostItem(created + 1, "task", "queue") /\ cur.phase = "handler"
    BY <1>4 DEF HandlerPost
  <2>2. UNCHANGED <<cur, lifecycle, done, timers>>
    BY <1>4 DEF HandlerPost
  <2>n. PICK n \in Ids : n = created + 1
    BY <1>0, <2>1, SubmitType DEF Kinds
  <2>3. (\A id \in Ids : InStrand(id) => InStrand(id)') /\ InStrand(n)'
    BY <1>0, <2>1, <2>n, DrainPost DEF Kinds, Threads
  <2>4. \A id \in Ids : OnTimer(id) => OnTimer(id)'
    BY <2>2 DEF OnTimer
  <2> QED
    BY <1>0, <2>1, <2>2, <2>3, <2>4, <2>n, DrainSubmit DEF Kinds
<1>5. CASE HandlerPostDelayed
  <2>1. PICK delay \in 0..MaxDelay :
          /\ Submit("delayed", delay)
          /\ IF delay > 0
               THEN ScheduleTaskAfter(created + 1, delay) /\ queue' = queue
               ELSE PostItem(created + 1, "expired", "queue") /\ timers' = timers
    BY <1>5 DEF HandlerPostDelayed
  <2>2. cur.phase = "handler" /\ UNCHANGED <<cur, lifecycle, done>>
    BY <1>5 DEF HandlerPostDelayed
  <2>n. PICK n \in Ids : n = created + 1
    BY <1>0, <2>1, SubmitType DEF Kinds
  <2>3. CASE delay > 0
    <3>1. queue' = queue /\ timers' = timers \cup {[id |-> created + 1, deadline |-> now + delay]}
      BY <2>1, <2>3 DEF ScheduleTaskAfter
    <3>2. /\ \A id \in Ids : InStrand(id) => InStrand(id)'
          /\ \A id \in Ids : OnTimer(id) => OnTimer(id)'
      BY <3>1 DEF InStrand, OnTimer
    <3>3. [id |-> created + 1, deadline |-> now + delay].id = n
      BY <2>n
    <3>4. OnTimer(n)'
      BY <3>1, <3>3 DEF OnTimer
    <3> QED
      BY <1>0, <2>1, <2>2, <3>2, <3>4, <2>n, DrainSubmit DEF Kinds
  <2>4. CASE ~(delay > 0)
    <3>1. PostItem(created + 1, "expired", "queue") /\ timers' = timers
      BY <2>1, <2>4
    <3>2. (\A id \in Ids : InStrand(id) => InStrand(id)') /\ InStrand(n)'
      BY <1>0, <2>1, <3>1, <2>n, DrainPost DEF Kinds, Threads
    <3>3. \A id \in Ids : OnTimer(id) => OnTimer(id)'
      BY <3>1 DEF OnTimer
    <3> QED
      BY <1>0, <2>1, <2>2, <3>2, <3>3, <2>n, DrainSubmit DEF Kinds
  <2> QED
    BY <2>3, <2>4
<1>6. CASE HandlerInvoke
  <2>1. /\ Submit("invoke", 0) /\ cur.phase = "handler" /\ done' = done \cup {created + 1}
        /\ UNCHANGED <<cur, lifecycle, queue, timers>>
    BY <1>6 DEF HandlerInvoke
  <2>n. PICK n \in Ids : n = created + 1
    BY <1>0, <2>1, SubmitType DEF Kinds
  <2>2. /\ \A id \in Ids : InStrand(id) => InStrand(id)'
        /\ \A id \in Ids : OnTimer(id) => OnTimer(id)'
    BY <2>1 DEF InStrand, OnTimer
  <2> QED
    BY <1>0, <2>1, <2>2, <2>n, DrainSubmit DEF Kinds
<1>7. CASE RunPosted
  <2> DEFINE h == queue[1]
  <2>1. /\ Len(queue) \in Nat \ {0} /\ Len(queue') = Len(queue) - 1
        /\ \A i \in 1..(Len(queue) - 1) : queue'[i] = queue[i + 1]
        /\ Head(queue) = h
    BY <1>0, <1>7, TailAt DEF RunPosted, TypeOK
  <2>2. /\ UNCHANGED <<timers, created, done, lifecycle>> /\ queue # <<>>
        /\ cur'.phase = "handler" /\ cur'.id = h.id /\ cur = Idle
    BY <1>7, <2>1 DEF RunPosted
  <2>3. 1 \in 1..Len(queue) /\ h.id <= created
    BY <1>0, <2>1 DEF Known
  <2>4. \A id \in Ids : InStrand(id) => InStrand(id)' \/ Running(id)'
    <3> SUFFICES ASSUME NEW id \in Ids, NEW i \in 1..Len(queue), queue[i].id = id
                 PROVE InStrand(id)' \/ Running(id)'
      BY DEF InStrand
    <3>1. CASE i = 1
      BY <3>1, <2>2 DEF Running
    <3>2. CASE i # 1
      <4>1. i - 1 \in 1..(Len(queue) - 1) /\ (i - 1) + 1 = i
        BY <3>2, <2>1
      <4>2. queue'[i - 1] = queue[i]
        BY <4>1, <2>1
      <4> QED
        BY <4>1, <4>2, <2>1 DEF InStrand
    <3> QED
      BY <3>1, <3>2
  <2>5. Accounted'
    BY <2>2, <2>4 DEF DrainInv, Accounted, OnTimer, Running, Idle
  <2>6. Finished' /\ Exited'
    BY <2>2, <2>3 DEF DrainInv, Finished, Exited
  <2> QED
    BY <2>5, <2>6 DEF DrainInv
<1>8. CASE RunDelayedWrapper
  <2> DEFINE h == queue[1]
             e == [id |-> h.id, kind |-> "expired", caller |-> h.caller]
             n == Len(Tail(queue))
             t0 == [id |-> h.id,
                    deadline |-> now + (calls[h.id].delay - (now - calls[h.id].posted))]
  <2>1. /\ Len(queue) \in Nat \ {0} /\ n = Len(queue) - 1
        /\ \A i \in 1..(Len(queue) - 1) : Tail(queue)[i] = queue[i + 1]
        /\ Head(queue) = h
    BY <1>0, <1>8, TailAt DEF RunDelayedWrapper, TypeOK
  <2>2. e \in Items /\ Tail(queue) \in Seq(Items) /\ n \in Nat
    BY <1>0, <1>8, <2>1, HeadType DEF RunDelayedWrapper, Items
  <2>3. UNCHANGED <<created, done, lifecycle, cur>> /\ queue # <<>>
    BY <1>8 DEF RunDelayedWrapper
  <2>4. \/ /\ queue' = Tail(queue)
           /\ timers' = timers \cup {t0}
        \/ queue' = Append(Tail(queue), e) /\ timers' = timers
    BY <1>8, <2>1 DEF RunDelayedWrapper, ScheduleTaskAfter
  <2>5. \A i \in 1..n : i \in 1..Len(queue') /\ queue'[i] = Tail(queue)[i]
    <3>1. Len(Append(Tail(queue), e)) = n + 1 /\ \A i \in 1..n : Append(Tail(queue), e)[i] = Tail(queue)[i]
      BY <2>2, AppendAt
    <3> QED
      BY <2>2, <2>4, <3>1
  <2>h. PICK g \in Ids : g = h.id
    BY <1>0, <1>8, <2>1, HeadType DEF RunDelayedWrapper, Items
  <2>6. InStrand(g)' \/ OnTimer(g)'
    <3>1. CASE queue' = Append(Tail(queue), e)
      <4>1. Len(queue') = n + 1 /\ queue'[n + 1] = e
        BY <3>1, <2>2, AppendAt
      <4>2. n + 1 \in 1..Len(queue')
        BY <4>1, <2>2
      <4> QED
        BY <4>1, <4>2, <2>h DEF InStrand
    <3>2. CASE timers' = timers \cup {t0}
      <4>1. t0.id = g
        BY <2>h
      <4> QED
        BY <3>2, <4>1 DEF OnTimer
    <3> QED
      BY <2>4, <3>1, <3>2
  <2>7. \A id \in Ids : InStrand(id) => InStrand(id)' \/ OnTimer(id)'
    <3> SUFFICES ASSUME NEW id \in Ids, NEW i \in 1..Len(queue), queue[i].id = id
                 PROVE InStrand(id)' \/ OnTimer(id)'
      BY DEF InStrand
    <3>1. CASE i = 1
      BY <3>1, <2>6, <2>h
    <3>2. CASE i # 1
      <4>1. i - 1 \in 1..n /\ (i - 1) + 1 = i
        BY <3>2, <2>1
      <4>2. Tail(queue)[i - 1] = queue[i]
        BY <4>1, <2>1
      <4> QED
        BY <4>1, <4>2, <2>5 DEF InStrand
    <3> QED
      BY <3>1, <3>2
  <2>8. \A id \in Ids : OnTimer(id) => OnTimer(id)'
    BY <2>4 DEF OnTimer
  <2>9. Accounted'
    BY <2>3, <2>7, <2>8 DEF DrainInv, Accounted, Running
  <2> QED
    BY <2>3, <2>9 DEF DrainInv, Finished, Exited
<1>9. CASE RunTimer
  <2>1. PICK t \in timers :
          /\ timers' = timers \ {t}
          /\ cur' = [phase |-> "handler", id |-> t.id, kind |-> "expired", caller |-> "queue"]
    BY <1>9 DEF RunTimer
  <2>2. UNCHANGED <<queue, created, done, lifecycle>> /\ cur = Idle
    BY <1>9 DEF RunTimer
  <2>3. t.id <= created
    BY <1>0 DEF Known
  <2>4. \A id \in Ids : OnTimer(id) => OnTimer(id)' \/ Running(id)'
    BY <2>1 DEF OnTimer, Running
  <2>5. Accounted'
    BY <2>2, <2>4 DEF DrainInv, Accounted, InStrand, Running, Idle
  <2> QED
    BY <2>1, <2>2, <2>3, <2>5 DEF DrainInv, Finished, Exited
<1>10. CASE HandlerReturn
  <2>1. /\ cur.phase = "handler" /\ done' = done \cup {cur.id}
        /\ UNCHANGED <<queue, timers, created, lifecycle>>
    BY <1>10 DEF HandlerReturn
  <2>2. cur'.phase # "handler"
    <3>1. cur \in Working
      BY <1>0, <2>1 DEF TypeOK, Idle
    <3> QED
      BY <3>1, <1>10 DEF HandlerReturn, Idle, Working
  <2>3. Accounted'
    BY <2>1 DEF DrainInv, Accounted, Running, InStrand, OnTimer
  <2>4. Exited'
    BY <2>1 DEF DrainInv, Exited, Idle
  <2> QED
    BY <2>1, <2>2, <2>3, <2>4 DEF DrainInv, Finished
<1>11. CASE SignalInvoker
  BY <1>11 DEF SignalInvoker, DrainInv, Accounted, Finished, Exited, Running, InStrand, OnTimer, Idle
<1>12. CASE \/ DeleteBegin \/ ThreadExit \/ DeleteReturn
            \/ (\E c \in Callers : InvokeReturn(c)) \/ Tick \/ UNCHANGED vars
  <2>1. UNCHANGED <<queue, timers, cur, created, done>>
    BY <1>12 DEF ThreadExit, DeleteBegin, DeleteReturn, InvokeReturn, Tick, vars
  <2>2. Accounted' /\ Finished'
    BY <2>1 DEF DrainInv, Accounted, Finished, Running, InStrand, OnTimer
  <2>3. Exited'
    BY <1>12, <2>1 DEF ThreadExit, DeleteBegin, DeleteReturn, InvokeReturn, Tick, vars,
                       DrainInv, Exited
  <2> QED
    BY <2>2, <2>3 DEF DrainInv
<1> QED
  BY <1>1, <1>2, <1>3, <1>4, <1>5, <1>6, <1>7, <1>8, <1>9, <1>10, <1>11, <1>12
     DEF Next, QueueThread

\* When Delete has returned, every closure the queue ever accepted has run to its end
\* and the thread is idle, for every number of threads and closures.
THEOREM DeleteSafe == Spec => []DeleteDrains
<1>1. Init => DrainInv
  <2> SUFFICES ASSUME Init PROVE DrainInv
    OBVIOUS
  <2>1. created = 0 /\ done = {} /\ cur = Idle /\ lifecycle = "running"
    BY DEF Init
  <2>2. \A id \in Ids : ~(id <= created)
    BY <2>1 DEF Ids
  <2> QED
    BY <2>1, <2>2 DEF DrainInv, Accounted, Finished, Exited, Idle
<1>2. PendingInv /\ DrainInv => DeleteDrains
  <2> SUFFICES ASSUME PendingInv, DrainInv, lifecycle = "deleted"
               PROVE done = 1..created /\ cur = Idle
    BY DEF DeleteDrains
  <2>1. queue = <<>> /\ timers = {} /\ cur = Idle /\ 1..Len(queue) = {}
    BY DEF DrainInv, Exited
  <2>2. \A id \in Ids : id <= created => id \in done
    BY <2>1 DEF DrainInv, Accounted, Running, InStrand, OnTimer, Idle
  <2>3. done \subseteq Ids /\ created \in 0..MaxTasks /\ \A id \in done : id <= created
    BY DEF DrainInv, Finished, PendingInv, TypeOK
  <2>4. \A id \in 1..created : id \in Ids /\ id <= created
    BY <2>3, BoundsAssumption DEF Ids
  <2>5. \A id \in done : id \in 1..created
    <3> SUFFICES ASSUME NEW id \in done PROVE id \in 1..created
      OBVIOUS
    <3>1. id \in 1..MaxTasks /\ id <= created
      BY <2>3 DEF Ids
    <3> QED
      BY <3>1, <2>3, BoundsAssumption
  <2>6. done = 1..created
    BY <2>2, <2>4, <2>5
  <2> QED
    BY <2>1, <2>6
<1> QED
  BY <1>1, <1>2, PendingInit, PendingStep, DrainStep, PTL DEF Spec
=============================================================================
